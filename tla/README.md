# Verification of OPC-UA.Server

This directory holds TLA+ models of the OPC UA client and server of this
repository, TLC configurations that check them on small instances, and theorems
about them that TLAPS checks for every value of the constants. It describes the
system first, then the models and what the checks and proofs show, and last what
is not covered and the plan for it. Source paths start at the repository's root.

## 1. The system

The repository is one native library with two halves that Java loads through JNI:
a **client** (`src/binaryServer`, Java class `OPCUA`) and a **server**
(`src/Server.cpp`, `src/sasModelProvider`, `src/provider`, Java class
`OPCUADataProvider`). Both sit on the Unified Automation SDK, which is not part of
the repository.

**Nothing is locked.** Almost every operation opens with `MutexLock lock(*d->mutex)`,
but the calls of `pthread_mutex_lock` and `_unlock` in `src/common/MutexLock.cpp`
are commented out. All models therefore let every thread run between any two
blocking calls of every other one.

### Client

| Component | State | Operations | Correct when |
|---|---|---|---|
| `HaSubscription` | list of monitored items by client handle, handle counter, the SDK's subscription | `add`, `remove`, `removeAll`; SDK callbacks `dataChange`, `newEvents`, `subscriptionStatusChanged` | the list and the server's items agree; a handle never changes its node; nothing is leaked; a lost subscription is replaced |
| `HaSession` | SDK session, subscription object | `open` (retries with growing delay until the time-out), `close`, `read`, `write`, `call`, `browse`, `subscribe`, `unsubscribe`; callback `connectionStatusChanged` | `open` ends in a connection or leaves nothing; `close` can be repeated; operations only meet a session and a subscription that exist |
| `Client` | session, converters, message counter, listening flag | `open`, `close`, message in and out, `dataChanged`, `newEvents` | every message is answered with its id; a failing `close` cleans up |
| `opcua_OPCUA.cpp` | static `server`, `native2j`, `isOpened` | native methods of class `OPCUA` | open and close pair up, no call before open |
| `Native2J` | Java environment, server id, listener | notifications, events and usability to Java | usability follows the connection; no call after the listener went |
| `CachedConverterCallback` | maps of super types and structure definitions | look-up with fetch from the server, `preload` | a subscribed node's types are all there; one fetch per type |

### Server

| Component | State | Operations | Correct when |
|---|---|---|---|
| `Server` | loaded libraries, factories, providers, core | `open`, `close` | a failed open undoes what was done, in reverse order |
| Node managers | name space of a node set file, `EventTypeRegistry`, `NodeBrowser` | `afterStartUp`, `beforeShutDown`, walks over types | an event's values are found under the fields of its type and super types |
| `HaNodeManagerIODataProviderBridge` | value handling of every variable, subscriptions, the callback | `afterStartUp`, `beforeShutDown`, `readValues`, `writeValues`, `beforeSetAttributeValue`, `beginCall` | the server's cache holds the provider's values; reads are fresh; no change is lost |
| `JDataProvider` | list of callbacks | `subscribe`, `unsubscribe`, `read`, `write`, `call`; `notification` and `event` from Java | a notification reaches the callback of its node; results belong to their nodes |
| `IODataProviderSubscriberCallback` | fields of event types | `valuesChanged` | a notified value goes into its variable |
| Converters | none | between `UaVariant` and the provider's data, recursively | a value that converts there and back is the same, and nothing is stored that the node's type cannot hold |
| Data generator | its own threads and values | a provider behind `USE_DATA_GENERATOR` | threads end before the provider does |

### How they meet

* Java threads call the client through JNI; the SDK's callback thread comes back
  through `HaSubscription` -> `HaSession` -> `Client` -> `Native2J` -> Java.
* The server's core serves clients from the SDK's worker threads as soon as
  `core->start` returns, *before* the node managers set the value handling and read
  initial values (`src/Server.cpp:99`).
* An event runs from `OPCUADataProvider.event` through `JDataProvider` and the subscriber
  callback into the SDK, which asks `EventTypeData` for the fields each client selected;
  on the client's side `HaSubscription`, `Client` and `Native2J` pair the values with the
  fields that `HaSession` had collected when the event type was subscribed.
* Java's provider calls `notification` on a thread of its own, at any time between
  `subscribe` and the end of the process.
* All data crosses between threads as unprotected members: the list of monitored
  items, the subscription pointer, the vector of callbacks, the SDK's variables.

### What is hard

Interleavings without a lock, an answer that comes after its time-out, single items
refused within an accepted call, a subscription lost while the list changes, a
notification that comes between the subscription and the initial read, a request of
which a part fails, values that do not convert, and the order of start-up and
shut-down. `PROJECT.json` lists each of these at its line, with the properties
that watch it or, where none does, the reason.

## 2. The modules

| Module | What it is |
|---|---|
| `HaSubscription` | `src/binaryServer/HaSubscription.cpp`, with the SDK and the server behind it |
| `MonitoredHandles` | what a subscription object promises about client handles (abstract) |
| `MCHaSubscription` | small instances of it |
| `HaSubscriptionProofs` | theorems about its handles and threads |
| `HaSubscriptionItemsProofs` | theorems about its items, ids and subscriptions |
| `ServerCache` | bridge, subscriber callback and Java provider: the values of the server |
| `MCServerCache` | small instances of it |
| `ServerCacheProofs` | theorems about it |
| `ServerLifeCycle` | `Server::open`, `close` and `notification`, driven by the native methods |
| `MCServerLifeCycle` | a small instance of it |
| `ServerLifeCycleProofs` | theorems about it |
| `ClientSession` | native `open` and `close`, `Client`, `HaSession` and the connection status |
| `MCClientSession` | a small instance of it |
| `ClientSessionProofs` | theorems about it |
| `ClientOperations` | read, write, exec, subscribe, unsubscribe, browse; changed values; the converter cache |
| `MCClientOperations` | small instances of it |
| `AtomicCalls` | what the native methods promise the thread that calls them (abstract) |
| `ClientOperationsProofs` | theorems about it |
| `EventTypes` | event types with their fields, shared by the two halves (no state) |
| `ServerEvents` | registration of event types, `JDataProvider::event`, `EventTypeData` |
| `ClientEvents` | subscription of event types, and events on their way to Java |
| `EventDelivery` | the two halves composed: an event from the provider's Java to a client's Java |
| `MCEventDelivery` | a small instance of it |
| `EventDeliveryProofs` | theorems about it |
| `ScalarConverters` | numbers through the converter layers (operators) |
| `ValueConverters` | arrays, structures and unions, and one node that is read and written |
| `MCValueConverters` | an instance with all data types |
| `ScalarConvertersProofs` | theorems about the number tables |

The `map` of `PROJECT.json` names the lines each definition stands for. Operators
called `Mutant_...` stand next to the definition they change; no specification uses
them. Each is a bug one could write at that place, and there to show that a property
notices it.

### HaSubscription

State: `monitoredItems` is the `std::map` of that name, with the node and the
server's item id of each handle (0 before the server has answered);
`clientHandleCounter` and `subscription` are the members of these names, 0 being the
null pointer. `calls[p]` is the operation thread `p` is in. `sdkObjects`,
`serverSubs`, `items`, `published` and `expired` are the SDK's and the server's side.
`crashed` says that a null or dead pointer was dereferenced, which ends the process.
`raced` is a history: a thread has read `clientHandleCounter` between the read and the
write of another thread's `++`.

An operation is cut where it blocks in a service call. The loop of `add`, which no
service call divides, is cut at every access to what threads share: the read and the
write of the counter, the entry of one item, and the test of the subscription with the
call that follows it. The code between two cuts is one step:

| Code | Steps |
|---|---|
| `add` | `Add` (begins the loop), for each node `ReadCounter`, `WriteCounter`, `EnterItem`, then `AllEntered` (calls the first service), `CreateSubscriptionReturns`, `CreateMonitoredItemsReturns`, `DeleteSubscriptionReturns` when nothing was granted |
| `remove`, `removeAll` | `Remove`, `RemoveAll`, `DeleteMonitoredItemsReturns`, `DeleteSubscriptionReturns` |
| `subscriptionStatusChanged` | `StatusChanged`, `DeleteSubscriptionReturns` and, through `AddAgain`, the steps of `add`, on the SDK's thread |
| `dataChange`, `newEvents` | `Deliver` |
| SDK and server | `Serve(p)` for the call of a thread, `Publish`, `LoseSubscription`, `UseAfterDelete` |

What may go wrong is the constant `Faults`: each service may be refused, single items
of an accepted call may be, an executed call may be answered too late, and a
subscription may be lost. The other stretches between two service calls are not
interleaved with each other, and a single operation of the `std::map` is one step: a data
race inside it is below this model.

Nothing makes the `++` of line 149 one step, so two threads do get one handle, and then a
value of one node is told as one of the other (`HaSubscription_shared_handle.cfg`). The
properties of handles are therefore stated *until threads race at that line* (`~raced`): they
say that no other interleaving, late answer or rebuilt list has this effect.

`MonitoredHandles` says what a user may rely on: a handle stands for one node for
ever, waits until the server has confirmed it, is active then, never comes back once
retired, and the application hears only of nodes with a waiting or active handle.
`HandleLifeCycle` is the claim that `HaSubscription` implements it until threads race at the
counter; an entry without id is waiting, one with an id is active, and a handle that was given
out, has no entry and is not about to get one is retired.

### ServerCache

State: `phase`, `todo`, `asking` and `results` are the progress of
`updateValueHandling`; `valueSource` is the value handling the SDK was told;
`callbacks` the entries of `JDataProvider`'s vector; `cache` the values of the SDK's
variables; `clients` the request each worker thread serves. `provider`, `subscribed`
and `queue` are Java's side. A value is the number of the change that brought it.
`held`, `cached` and `current` are histories, used by properties only.

| Code | Steps |
|---|---|
| `afterStartUp`, `updateValueHandling` | `SetValueHandling`, `JavaSubscribe`, `PushCallback`, `InitialRead`, `SetInitialValue`, one variable at a time |
| `JDataProvider::notification`, `valuesChanged` | `DeliverNotification` |
| `readValues` | `ReadValues`, `ReadNext` for every variable |
| `writeValues` | `WriteValues`, `WriteProvider` and `SetCache` for every variable |
| `beforeSetAttributeValue` | `SetAttribute`, `WriteProvider`, `SetCache` |
| `beforeShutDown` | `BeforeShutDown` |
| Java provider | `ProviderChanges` |

A step is one call of the provider, one value put into the cache or one variable
classified: these are the points at which another thread can do something that
matters. `Faults` may hold `conversion` (values that do not convert) and
`javaException` (a read or write throws in Java, which `JDataProvider` does not look at).

### ServerLifeCycle

State: the members of `ServerPrivate` (core, library handles, the two maps of factories
and two vectors of providers), the provider objects that exist, whether the core has
node managers, and the place at which `open` or `close` is. A map of factories holds one
at most and is modelled by the file it came from; a factory makes one provider, as both
factories of the repository do. Objects are named by the number of the call of `open`
that made them.

| Code | Steps |
|---|---|
| native `open`, `Server::open` | `Open`, `InitPlatform`, `StartCore`, `ReadDirectory`, `OpenLibrary` for each entry, `LibrariesDone`, `CreateIOProvider`, `OpenIOProvider`, `CreateSasProvider`, `OpenSasProvider`, `AddNodeManagers`; each but `OpenLibrary`, `LibrariesDone` and the last may throw (`Fail`) |
| `Server::close`, `~Server` | `Close`, `StopCore`, `DeleteCore`, `CloseSasProviders`, `CloseIOProviders`, `ClearIOProviders`, `CloseLibraries`, `CleanUp` |
| `Server::notification` | `Notify`, `ReturnNotification` on Java's thread |

Nothing in the repository closes a server that runs; `Close` stands for an owner that uses
the class from C++. Two objects of class `Server` at a time, which a second native
`open` would make, are not modelled.

### ClientSession

State: `server`, `isOpened` are the statics of `opcua_OPCUA.cpp`; `clients` the Clients made
so far, each with its session, link, listening flag and server id; `pc`, `clock`, `until`,
`from`, `remainingTimeout` and `delay` the loop of `HaSession::open`; `pending` the status
changes of each session that the SDK has not reported, oldest first (sessions report
independently of each other); `told` what Java heard last of each server id.

| Code | Steps |
|---|---|
| native `open`, `Client::open`, `HaSession::open` | `Open` or `OpenWithoutHost`, then `Connected` or `Refused`, `Wake` after the delay, `Opened`; `Tick` is time that passes while it waits |
| native operations | `UseWithoutSession`, the one use that can go wrong here |
| native `close` | `CloseDisconnects`, `CloseFails`, `CloseWithoutSession` |
| SDK, `connectionStatusChanged` | `LinkLost`, `LinkBack`, `ConnectionStatusChanged` |

Java may open again without a close. The native `open` then replaces the Client at its first
line while `isOpened` stays set: if that open fails, an operation finds the flag set and a
Client without session, and the session of the replaced Client lives on for ever. `replaced`
(a history) has the Clients that were replaced so; `NoNullUse` says that a null session is used
in that case only, `OneSession` that sessions of these Clients are the only ones left behind.
`Overrun` and `Oversleep` are what the SDK's connect and `nanosleep` may take
longer than they were asked to.

### ClientOperations

One Java thread (`pc`, `op`), the SDK's thread (`sdk`), the server (`value`, `monitored`,
`changed`, `packets`), the cache that both threads fill (`todo`, `fetching`, `cache`), and what
Java knows (`subscribed`, `told`). An operation is cut at each service call; a conversion is
the sequence of types it has to know, of which each is looked up and, if it is not there,
fetched. The lock of `CachedConverterCallback` excludes nobody, so look-up, fetch and insert
interleave. Notifications carry several values; `HaSubscription` hands them on one by one,
and `Native2J` takes the first element of each call only. A value whose item was removed
meanwhile is passed over, as a bad one is (`Bad`), but not the value that is already being
converted. `Fields` has the fields that are of types of the server; those of namespace 0 need
nothing. An item of a node is here `listed` (in the list of `HaSubscription`) and `live` (at the
server). A create or delete of items may be executed and answered too late, as a write and a call
may: an item can be live and not listed, of which nothing is told, or listed and not live, which
every later `unsubscribe` of its node picks first and is refused. How the two are kept together
otherwise is `HaSubscription`'s subject.

`AtomicCalls` is what the Java thread may rely on, without sessions, services or types: what a
call does happens at one moment between the call and its answer, at most once; after a success
it has happened, after a failure nobody knows. `OperationsAtomic` is the claim that
`ClientOperations` implements it. `Effects` is the refinement mapping: a read has happened once
its value is there to be converted, a subscription once its monitored item was created, an
unsubscription once it was deleted, a write or call when the server has executed it, whether or
not the answer came in time. Retried pages of a
browse, look-ups of types and the SDK's thread are stutters.

### Events

`EventTypes` has the types and their variables; a type may declare again a name that its super
type has. `Nearest(t, name)` is what the field of that name of type `t` means, on both sides.

| Code | Steps |
|---|---|
| `HaNodeManagerNodeSetXml`, `EventTypeRegistry` | `RegisterType`, a type at a time, in any order |
| bridge and `JDataProvider::subscribe` for event types | `AskJava`, `AddCallback` |
| `JDataProvider::event`, `processOpcUaEvent` | `JavaEvent` (joined with the SDK's evaluation in `Report`) |
| `EventTypeData::getFieldData` | `FieldData`, over `FieldNodeId`, the walk along the registered super types |
| `HaSession::getEventFields` | `Subscribe`, `Browse` or `BrowseFailed`, `NextField`, `SuperType`, `Collected` |
| `HaSubscription::add`, `Client` | `CreateItem`, `ItemRefused`, `Preloaded` |
| `newEvents` of `HaSubscription`, `Client` and `Native2J` | `NewEvents` |

`serverDown` and `clientDown` say that a process dereferenced a null pointer.

### Converters

`ScalarConverters` is a table per layer and direction, from kind to kind, with the C++
conversion to a narrower type where a layer makes one. The widths are constants. What the
C++ standard leaves open is `Garbage`, an exception `Exception`. `ValueConverters` adds texts,
arrays, structures and unions and the checks made on them, and has one node with five
variables: the node, what it holds, what Java read of it, what a method of an argument of that
type was passed and how the last call ended; the steps are read, write and call, with any of the
Java objects of the instance or with what was read.

A write is converted by the class of the Java object, never by the node's data type:
`Client.cpp:570` takes for the type what `HaSession::getVariable` left in a variant
(`HaSession.cpp:898-915`), a browsed NodeId or `false`, so the key that `Native2J` sees is
always NodeId or Boolean, for which it has no case, and it guesses (`WriteNumber`,
`GuessPlain`). Fields of a structure are guessed likewise. The arguments of a call do carry
their data types (`PassNumber`, `TypedPlain`). A guessed `Float` is fetched with
`CallIntMethod`, so what such a write stores is undefined; `WriteModels` has the outcomes.
The module has `RECURSIVE` operators, so proofs are about `ScalarConverters`.

## 3. What TLC checks

| Run | Question | Properties |
|---|---|---|
| `subscription_sequential` | One application thread and the SDK's thread, no event types; calls and single items are refused. | `TypeOK`, `NoCrash`, `EveryItemListed`, `ListedItemsExist`, `NoSubscriptionLeaked`, `OnlyPickedItemsDeleted` |
| `subscription_threads` | Two application threads that interleave in the loop of `add`, refused items, late answers. | `NotificationsAttributed`, `RemovedHandlesGone`, `HandleLifeCycle` |
| `subscription_lost` | Subscriptions are lost, calls and items refused while the list is rebuilt. | `IdsAgree`, `OperationsEnd`, `Resubscribed` |
| `cache_changes` | Changes before, during and after the subscription, reads, and shut-down. | `NoChangeLost`, `ReadsAnswered`, `ChangeArrives` |
| `cache_conversion` | Two clients, variables of all kinds, values that do not convert. | `TypeOK`, `AsyncCacheHeld`, `ReadsFresh` |
| `values_nodes` | Every data type read, written back, and written or passed to a method with objects that fit and that do not. | `TypeOK`, `WriteBackKept`, `AcceptedExact` |
| `session_open_close` | Opens that succeed, fail or have no host, closes, lost connections. | `OpenInTime`, `NoNullUse`, `OneSession`, `UsabilityTrue`, `OpenEnds` |
| `operations_types` | All operations on a node and methods with types of the server, failing or answered too late anywhere. | `TypeOK`, `TypesPreloaded`, `AnswersTrue`, `OperationsAtomic`, `OperationsEnd` |
| `operations_values` | Two nodes that change and are written while subscribed, with items of late answers. | `Current` |
| `events` | Event types with subtypes and overridden fields, from start-up to the client's Java. | `TypeOK`, `FieldsNearest`, `EventsTrue`, `NoCrash`, `EventArrives` |
| `life_failures` | `open` fails anywhere, libraries are missing, Java tries again; a running server is closed. | `DependenciesHeld`, `NothingLeft`, `NotificationsMeetProvider` |

The run `cache_unconverted_write` ends in a counterexample to `CacheHeld`: a request with
one value that does not convert writes the others, then sets all of them in the cache with
a good status.

Further configurations lead to disagreements between code and documentation. They are no
runs of `PROJECT.json`, and are kept to be checked by hand
(`tlc -config X.cfg M` ends in a counterexample for each):

| Configuration (module) | Property | What happens |
|---|---|---|
| `HaSubscription_shared_handle.cfg` (`MCHaSubscription`) | `AllNotificationsAttributed` | Two threads in `clientHandleCounter++` (line 149) get one handle, and a value of one node is told as one of the other. |
| `HaSubscription_remove_all.cfg` (`MCHaSubscription`) | `RemoveAllRemovesAll` | A node subscribed twice has two items. `remove` breaks at the first match and so picks the lower handle twice; `unsubscribe()`, which "Deletes all subscriptions." (`HaSession.h:82`), leaves the other one. |
| `HaSubscription_failed_add.cfg` (`MCHaSubscription`) | `FailedNodesLeaveList` | When `createSubscription` throws, the nodes stay in the list; the comment at `HaSubscription.cpp:225` says they are taken out. A later removal meets a null subscription. |
| `ServerCache_initial_value.cfg` (`MCServerCache`) | `CacheCurrent` | A notification brings a newer value between the initial read and `setVariable`; the older one overwrites it and stays. |
| `ServerCache_shut_down.cfg` (`MCServerCache`) | `NoDeadCallback` | `beforeShutDown` deletes the callback without `unsubscribe`, and a notification calls it. |
| `ValueConverters_times.cfg` (`MCValueConverters`) | `TimesWrittenBack` | The comment at `ConverterUa2IO.cpp:854` gives Int64 and times 64 bits; `Native2J.cpp:360` fetches a `Long` with `CallIntMethod`, so every time written back is another one. |
| `ValueConverters_floats.cfg` (`MCValueConverters`) | `FloatsWrittenBack` | The guess for a Java `Float` fetches its value with `CallIntMethod` (`Native2J.cpp:364`): a Float that was read is not what is written back. |
| `ClientOperations_browse.cfg` (`MCClientOperations`) | `EveryOperationEnds` | A continuation point that is answered badly is asked for again without limit (`Client.cpp:909-984`): with a server that goes on like that, the native `browse` never returns. |
| `ClientOperations_thread_safe.cfg` (`MCClientOperations`) | `OneFetch` | "This class is thread safe." (`CachedConverterCallback.h:13`): two threads that miss the same type both fetch it. |
| `EventDelivery_missing_fields.cfg` (`MCEventDelivery`) | `FieldsProcessed` | "process as many event fields as possible" (`HaSession.cpp:1028`): without the fields of a super type there is no `Message`, which `Client::newEvents` dereferences at the first event. |

A failed Java call is another such place (with `javaException` in `Faults`, a
synchronous read is answered with a good empty value and `ReadsFresh` does not hold);
no document says what should happen there, so it is only listed as a hazard.

### Bounds

* *HaSubscription.* Two nodes are what it takes to confuse one with another, and in the runs
  with lost subscriptions and in the counterexamples one of them is an event type. Requests of two nodes allow partial
  failures and the same node in two calls; four handles allow two calls of two, or
  repeated adding and removing. With two threads (and in `subscription_lost`) two
  handles are given out by application threads, with two threads one node at a time: each thread
  can be anywhere in an operation on its own handle or on the other's, and both in the `++`. `MaxHandle` and `MaxSubs` bound what
  *application threads* ask for; the SDK's thread may always add again what was lost.
  Two subscriptions allow one to replace another. One notification in flight suffices
  as each is delivered by itself.
* *ServerCache.* Two synchronous variables (`cache_conversion`, with two clients) allow a request that
  mixes them up; two asynchronous ones (`cache_changes`) a callback that is in the list
  while the other is not. Requests of two places ask for two variables or one twice. `MaxValue` counts
  the changes of all sources, from 2 on: two changes (of the provider, a
  client or both) in `cache_changes`, one in `cache_conversion`; `MaxQueue` bounds notifications that Java has not yet sent.
* *ServerLifeCycle.* Four entries of the directory cover all kinds: nothing exported, one
  factory of either kind, both. Two calls of `open` show that the second finds nothing
  of the first; a notification is one at a time, as Java has one thread for them.
* *ClientSession.* A time-out of 4 s with delays of up to 2 s takes several attempts and a
  delay that is cut short; two opens are a session that is left or closed and the next one,
  each a success or a failure. Up to three status changes of a session wait to be reported:
  connected, lost and back. The theorems hold for any number of both.
* *ClientOperations.* `operations_types`: a structure that contains another type of the
  server, and a type without super types, are all that preloading and looking up tell apart;
  two pages of a browse need a continuation. `operations_values`: two nodes with two values
  make notifications with several elements, of which each can be the latest. `MaxItems` counts
  the items ever created: one in `operations_types`, two in `operations_values`, where a node can
  have an item of a late answer beside the one in use. Each run also passes with the other's
  properties and `MaxItems` (`operations_types` with two items: 1.9 million states).
* *EventDelivery.* A type, a subtype that declares one of its fields again, their sibling
  and a type that nothing generates; two events make an order. Two events stay below the
  size of a monitored item's queue (10), so discarding does not occur.
* *ValueConverters.* Widths are scaled down (2^7, 2^10, 2^13 and 2^16) with the edges of
  each as values; the theorems hold for any widths.
* Threads and clients are interchangeable, and `SYMMETRY` says so, in runs without
  liveness properties only.

Deadlock is checked except in the runs in which the server shuts down or is closed, where
stopping is the end.

### Fairness

`HaSubscription!Fairness`: every service call carries `callTimeout`, so it returns; a
thread that can run does; the SDK reports a lost subscription. No fairness is assumed of
the application, of publishing or of losing a subscription. `OperationsEnd` and
`Resubscribed` rest on it. `Resubscribed` leaves out what the application does to the list
meanwhile: removing, and giving up the subscription in an `add` of its own that failed, whose
test for an empty list (line 236) may come before the SDK's thread has entered what it adds
again.

`ServerCache!Fairness`: calls of the Java provider return, as they run in the same
process without a time-out, the thread that delivers notifications runs, and a request
that was begun goes on. No client has to ask for anything and no value has to change.
`ChangeArrives` rests on it.

`ClientSession!Fairness`: the SDK's connect and `nanosleep` return, at the latest when their
bound is reached, time goes on, and the threads run. A server may refuse for ever:
`OpenEnds` holds by the time-out.

`ClientOperations!Spec`: a service call is answered or times out, and both threads run.
Nothing is assumed of the answers to a browse of further pages (`BrowseNext`): a bad one is
repeated by the code with no limit, so `OperationsEnd` excepts a browse of which pages are
missing, and speaks of every other operation and of a browse that has its last page.

`EventDelivery!Spec`: only that the SDK's thread hands over what it has received; `EventArrives`
rests on it.

### What the properties say

*Subscription.* `NotificationsAttributed`: without a race at the counter the application is
never told a value of one node as one of another, whatever was removed, rebuilt or late, and
wherever threads are in `add`. `IdsAgree`,
`EveryItemListed`, `ListedItemsExist`, `NoSubscriptionLeaked`: client and server mean
the same items. `OnlyPickedItemsDeleted`, `RemovedHandlesGone`: a removal hits what it
picked and nothing else. The last two are about item ids and single results, which are
found by index.

*Cache.* `CacheHeld`, `AsyncCacheHeld`: the cache has no value that the provider never
had ("the IO data provider is the data source", bridge lines 723-724). `ReadsFresh`,
`ReadsAnswered`: a synchronous read has a value from the time of the request at each of
its places, or a bad status, and without faults a value at one place of each variable (the
second place of a variable asked for twice keeps its bad status, bridge line 221). `NoChangeLost`, `ChangeArrives`: a change reaches the
cache, although the subscription, the callback's entry and the initial read are three
steps.

*Life cycle.* `DependenciesHeld`: wherever `open` fails, nothing outlives the library,
provider or platform layer it uses. `NothingLeft`: closing gives everything back, but for
the one provider whose own `open` threw. `NotificationsMeetProvider`: `open` subscribes
in Java last, so a failed one never deletes a provider that is being notified; were the
status of `addModule` checked one day, it would no longer hold.

*Session.* `OpenInTime`, `OpenEnds`: attempts and delays of an open do not add up. `NoNullUse`,
`OneSession`: after any opens and closes, failed ones too, there is no session but that of
the Client in use and those of Clients that Java replaced without a close, and only when such
a session lives on can an operation meet none. `UsabilityTrue`: Java's last
news of a session is its state.

*Operations.* `AnswersTrue`: Java is told of a success only of what happened, once, though
answers of every service may be lost. `OperationsAtomic`: an operation of many services, with answers lost in
between, is as good as one that happens at one moment, and at most once. `TypesPreloaded`: a value of a subscribed node does not make the
SDK's thread wait for the server. `Current`: no last value is lost between `HaSubscription`
and `Native2J`.

*Events.* `FieldsNearest`: of fields with one name the nearest type's is taken, and each
name once. `EventsTrue`: what Java is told as the value of a field is what was given for the
variable that the event's type means by it, in the order of the events. `EventArrives`: a
complete event reaches the client. `NoCrash`: nothing brings a process down but an
unanswered browse or read (client) and an event of a type that has subtypes (server); these
two do.

*Converters.* `WriteBackKept`: a value that Java read and writes back does not change its
node, or is refused. `AcceptedExact`: an accepted write of an object that fits the node stores
what was written, and an accepted call passes what it was given. Neither speaks of a written
Float, which is undefined, nor of an Int64 or time beyond an int, which is cut; numbers that the
type cannot hold are only said to end in its range (`TypeOK`).

## 4. What is proved

The proofs are about the same modules and hold for any nodes, threads, variables, types,
clients, faults and bounds, but for the hypotheses that are named below. They use the modules'
named assumptions on constants, which TLC evaluates in every run. Every inductive invariant
was checked with TLC on the instances of the runs before it was proved.

*`HaSubscriptionProofs`*

* `TypeCorrect`: `Spec => []TypeOK`, one lemma per action.
* `AttributionInvariant`, `AttributionCorrect`: `NotificationsAttributed` is not
  inductive, because a notification may be on its way while its item is removed and
  the handle forgotten. `AttributionInv` adds, as long as no threads raced at the counter, that
  every handle in the list, in a running call, in the server or in a notification was given out
  by the counter (`HandlesGiven`), that all of these that name a handle name the same node
  (`OneNodePerHandle`), and what the loop of `add` needs (`CountingAlone`): one thread at a time
  is between the read and the write, what it read still stands, and a handle counted and not
  yet entered is no other thread's and named by nothing. So the counter never steps back, and
  an item enters under a handle without claims (`EnterClaims`); every other step only takes
  claims away or moves them (`StepClaims`).
* `AddedHandlesWaitCorrect`: a handle is asked for by one call only and has no id as
  long as the call is out, until threads race.
* `Refinement`: `Spec => HandleLifeCycle`. By the two invariants the
  results of `createMonitoredItems` meet entries that wait, so a step before a race maps to
  `Enter`, `Settle`, `Retire`, `Tell` or a stutter.

These hold for any number of threads, anywhere in their loops. What they leave out is the one
step of line 149; that it matters is shown by `HaSubscription_shared_handle.cfg`.

*`HaSubscriptionItemsProofs`*

* `RemovedHandlesGoneCorrect`: for any threads and faults, races included.
* `IdsAgreeCorrect`: for any threads and faults, until threads race at the counter. `IdsInv` says
  that the results of an executed `createMonitoredItems` that are on their way to the caller
  are the ids of the server's items of those handles, and that no two items of a handle exist;
  it rests on `AttributionInv` (a handle is asked for once) and on `ServerInv` (ids and
  subscriptions are numbered upwards).
* `NoCrashCorrect`: with one application thread and a server that keeps its subscriptions
  (`SingleThreaded`), and without event types. `CallerInv` says for each place of the thread
  whether the object has a subscription and that the SDK's object of it exists. The entries that
  a failed `createSubscription` left are excepted, since they do crash the next `remove`. One
  thread never races at the counter, which `CallerInv` says too.
* `OnlyPickedItemsDeletedCorrect` (`SingleThreaded`): `NamesInv` says that an id in the list or in a
  call, with the subscription it is used on, names no item but that of its handle.
* `EveryItemListedCorrect`, `ListedItemsExistCorrect`, `NoSubscriptionLeakedCorrect`: besides,
  every executed call is answered in time (`AnsweredInTime`). `InTimeInv` says for each place of
  the thread which items of the server are in the list already or still.

The hypotheses are needed: two threads both create a subscription or look an entry up again
after a call; a call answered too late is taken for a failure, and its items stay at the server
unknown to the list; `newEvents` dereferences a null entry (section 5).

*`ServerCacheProofs`*

* `TypeCorrect`: besides types, no loop over a request runs past its end.
* `HeldInvariant`, then `AsyncCacheCorrect` and `CacheCorrect`: every value on its way
  into the cache, as a result of the initial read, in a notification or in a request, has
  been the provider's. Assumed is that Java throws nothing (otherwise it is false),
  and for synchronous variables that all values convert (otherwise it is false:
  `cache_unconverted_write`).
* `ReadsFreshCorrect`: `ReadsFresh` is not inductive, as it does not say what the next
  answer is compared with. `FreshInv` adds that a read in progress has the provider's present
  values among those it counts as current; the results that change places in the end are
  those of equal variables (`FreshReturned`). Assumed is again that Java throws nothing.
* `ReadsAnsweredCorrect`: without faults no answer of a read in progress is a bad status
  (`AnsweredInv`), and the place that keeps a result when a variable is asked for twice is a
  place of that variable (`AnsweredReturned`).
* `ChangesInvariant`, then `ChangesCorrect`: without faults, the present value of an
  asynchronous variable is still to be read, in the results, in a notification, with a
  request about to set the cache, or has been in the cache; and from the initial read on
  every notification finds its callback. That is why subscribing first and reading
  afterwards loses nothing, although notifications are dropped until the callback is in
  the list.

*`ServerLifeCycleProofs`*

* `LifeInvariant`: `LifeInv` says of each step of `open` and `close` what is there. It
  is inductive, one case per action.
* `DependenciesCorrect`, `NothingLeftCorrect`, `NotificationsCorrect` follow from it, as
  does `TypeCorrect` from the numbering of the calls.
* `FirstFactoryCorrect`: the walk over the directory keeps the first factory, because
  entries differ and everything opened or chosen comes from an entry already looked at
  (`ChosenIsFirst`).

*`ClientSessionProofs`*, for any time-outs, delays and number of opens:

* `OpenInTimeCorrect`: `OpenInTime` is not inductive, as it says nothing of how long a wait
  lasts. `WaitsInTime` bounds the end of every wait, and ties the time that remains after a
  sleep to the clock at its beginning.
* `NoNullUseCorrect`, `OneSessionCorrect`, `TypeCorrect`, for any sequence of opens and closes,
  an open without a close included: with the link between the static flag and the session of
  the Client in use, or of one that an open replaced while the flag was set, and what each
  place of the Java thread says about that session.
* `UsabilityTrueCorrect`: `UsabilityInv` says of each Client that the last status change that
  waits says what its link is, or, if none waits, that Java was told so; that nothing was told
  of a session that is not there yet; and that a told session has its own server id.

*`ClientOperationsProofs`*, for any nodes, methods, types and values:

* `TypeCorrect`: `TypeInv` adds to `TypeOK` what an operation is about, and that each thread has
  something to know only while it converts or preloads.
* `TypesPreloadedCorrect`: `LoadedInv` says of the node being preloaded that what the cache has
  and what the thread has still to know are together all that a conversion may ask for, and that
  nothing without super types is among what is known. `cache` only grows, so no step of the
  other thread disturbs it. No recursion over types is needed: a set that holds the
  type and with each entry what it asks for is as good as the set computed.
* `CurrentCorrect`: `CurrentInv` says where the value of a monitored node is: still to be
  published, or in the last element about the node among the notifications under way and the
  one in hand, or told to Java when there is no such element. `KnowInv` says that the SDK's
  thread asks for no type but what the node in hand needs, so that the conversion of a
  preloaded node cannot fail while types can be fetched.
* `AnswersCorrect`: `Spec => AnswersTrue`, from `OperationInvariant`. `OperationInv` ties every
  place of the Java thread to the operation it serves there and to what of it has happened: a
  write or a call is done exactly from its answer on, a read has seen every value of its node
  since it began. The thread of the SDK and the converter cache do not touch any of it.
* `Refinement`: `Spec => OperationsAtomic`, answers that come too late for any service included.
  By `TypeInv`, which says what the operation at each
  place is about, a step is the call, the one moment of it, its answer, a change of a value by
  itself or a stutter; one lemma per group of actions.

*`EventDeliveryProofs`*, for any event types, variables, names, requests that fail and events:

* `TypeOKCorrect`, from `ServerInv` and `ClientInv`.
* `FieldsNearestCorrect`: `SearchInv` says of a search that has come to the k-th type of the line of
  super types that it has the nearest variable of each name that the types before declare, once,
  and of the type in hand those looked at; `ListInv` keeps that for the list.
* `EventsTrueCorrect`: `NotesInv` says of each notification that a value stands at the place of
  its name and is that of the nearest variable; `OrderInv` that the numbers of the events of an
  item rise through what Java was told and what is published; `ToldInv` carries both to Java.
* `NoCrashCorrect`, from `CrashInv`.

The last two assume `BaseNamesKept`: no type declares a variable with the name of one of
BaseEventType's, as is so in all node sets under `resources` and `test`. The code relies on it:
the client looks the fields of BaseEventType up by their nodes, the server by names. Without
it both theorems are false: TLC shows the crash for an instance whose type declares `Message`,
and a wrong value for one whose type, unknown to the server's registry, declares `Time`.

The types are numbered from the top, and what a walk along super types computes is proved by
taking the least type for which it would fail (`LeastNat`, which follows from the
well-foundedness of finite sets) and by a function defined type by type (`DownwardDefinition`).

*`ScalarConvertersProofs`*, for any widths and either sign of `char`:

* `WrittenInRange`: whatever Java number is written to a number node, by the class of its
  object, what is let pass is in the range of the node's type.
* `PassedInRange`: the same of a number passed to a method by the argument's type, but for a
  `Character` passed for an `Int32`, which is undefined.
* `WrittenExact`, `PassedExact`: if the type has the number, the write or call takes that number
  or is refused (`AcceptedExact` for one number); a `Long` has to fit an int, as
  `CallIntMethod` cuts it.
* `NumberRoundTrip`: read and written back, a number is itself or is refused (`UInt64`
  excepted; Int64 and times when they fit an int). All rest on lemmas about `%` as the C++
  conversion to a narrower type.

`CacheCorrect`, `HeldInvariant`, `ChangesInvariant`, `LifeInvariant`, `AttributionInvariant`,
`AddedHandlesWaitCorrect`, `FirstFactoryCorrect`, `OperationInvariant` and `TypeInvariant` state invariants that no run lists: they
were checked with TLC before they were proved, and now the theorems stand for them.

Only model-checked: the liveness properties (`OperationsEnd`, `Resubscribed`,
`ChangeArrives`, `OpenEnds`, `EventArrives`), which are beyond this prover, and the three of
`ValueConverters`, whose conversions of arrays, structures and unions are `RECURSIVE`
operators.

## 5. Not modelled, and the plan

`NoSubscriptionLeaked`, `ListedItemsExist`, `EveryItemListed` and `NoCrash` are checked
for one application thread only, since without a lock two threads do break them (both
create a subscription; an entry looked up again after a call is gone). `newEvents`
dereferences a null entry when an event comes after its item was removed, for which
reason `subscription_sequential` has no event types. What `NoCrash` says there is that
nothing but the entries a failed `createSubscription` leaves behind can lead a thread to
a null subscription.

In the client: options, addresses and the message objects of `Client` and Java, security
settings, certificates; a second native `open` while operations of another thread run. A
data type that contains itself would make `preload` and the conversions run without end; the
instances have none. Of `JNI`, exceptions that no method catches end the model
(`crashed = "uncaught"`).

In the server: method calls (`beginCall`, `JDataProvider::call`) and `unsubscribe`, which the
bridge never calls; the walk over the node set file and its parser; data of events beyond
which variable has a value. The time stamp of an event without `Time` is not initialised by
the code, and no property is about it.

Left out for good: log output, texts of exceptions, the configuration parsers, the data
classes, the SDK itself.

Still worth modelling, in this order: method calls, with results matched to requests; the
walk over the node set in `HaNodeManagerNodeSetXml`; the data generator and its threads
(a built-in provider behind `USE_DATA_GENERATOR`).

Further theorems worth having: `WriteBackKept` and `AcceptedExact` for values nested to
any depth, with the converters written as functions of the depth; `EventsTrue` without
`BaseNamesKept`, for the fields whose names are not among BaseEventType's.
