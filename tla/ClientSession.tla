---------------------------- MODULE ClientSession ---------------------------
(***************************************************************************)
(* Opening and closing the client: the native open and close of class      *)
(* OPCUA, Client::open and close, HaSession::open with its retries and     *)
(* HaSession::close, and the connection status that the SDK reports on a   *)
(* thread of its own and Native2J hands to Java.                           *)
(*                                                                         *)
(* One Java thread calls the native methods.  Each native open makes a new *)
(* Client and Native2J and replaces the one the library used before,       *)
(* whether or not the open succeeds.  clock is std::time since the open    *)
(* that is under way began; it runs on only while that open waits in the   *)
(* SDK or sleeps.  The bodies of read, write, call, browse and subscribe   *)
(* are modelled elsewhere: here they are a use of the session.             *)
(***************************************************************************)
EXTENDS Integers, Sequences

CONSTANTS
    ConnectTimeout,      \* option of the open, in seconds
    MaxReconnectDelay,   \* sessionConf.maxReconnectDelay
    Overrun,             \* how much longer than asked the SDK's connect may take
    Oversleep,           \* how much longer than asked nanosleep may take
    MaxOpens,            \* bound: native opens
    MaxPending           \* bound: status changes of a session that wait to be reported

ASSUME SessionAssumption ==
    /\ ConnectTimeout \in Int
    /\ MaxReconnectDelay \in Nat \ {0}
    /\ Overrun \in Nat /\ Oversleep \in Nat
    /\ MaxOpens \in Nat /\ MaxPending \in Nat

VARIABLES
    replaced,   \* Clients that an open replaced while isOpened was set (history)
    isOpened,   \* the static flag of the native library
    server,     \* index of its Client in clients, 0 for none
    clients,    \* the Clients made so far
    pc,         \* where the Java thread is
    clock, until, from,          \* time, and when the wait in the SDK or the sleep ends
    remainingTimeout, delay,     \* variables of HaSession::open
    pending,    \* index of a Client -> status changes the SDK has yet to report
    told,       \* server id -> usable, as Java was told last
    crashed     \* how the process ended, "no" while it runs

openVars == <<clock, until, from, remainingTimeout, delay>>
vars == <<replaced, isOpened, server, clients, pc, openVars, pending, told, crashed>>

Lowest(a, b)  == IF a <= b THEN a ELSE b
Highest(a, b) == IF a >= b THEN a ELSE b

(* The ids Java knows a connection by: "host:port" while it is opened,     *)
(* with "@session" behind it afterwards.                                   *)
HostId        == <<"host">>
SessionId(c)  == <<"host", c>>

NewClient == [session |-> "none", link |-> "none", isListening |-> FALSE, serverId |-> HostId]

Init == /\ replaced = {}
        /\ isOpened = FALSE
        /\ server = 0
        /\ clients = <<>>
        /\ pc = "idle"
        /\ clock = 0 /\ until = 0 /\ from = 0
        /\ remainingTimeout = 0 /\ delay = 0
        /\ pending = [c \in 1 .. MaxOpens |-> <<>>]
        /\ told = [id \in {} |-> FALSE]
        /\ crashed = "no"

-----------------------------------------------------------------------------
(* HaSession::open.                                                        *)

(* The test of the time that remains.                                      *)
Mutant_NeverTimedOut(remaining) == FALSE
TimedOut(remaining) == remaining <= 0

(* A new round of the loop: the next attempt gets all the time that        *)
(* remains; if there is none the session is deleted and the exception goes *)
(* up to the native method.                                                *)
Mutant_SessionKept(c, now, remaining) ==     \* not deleted after the time-out
    IF TimedOut(remaining)
    THEN pc' = "idle" /\ clients' = clients /\ until' = now /\ from' = now
    ELSE /\ pc' = "connect"
         /\ clients' = [clients EXCEPT ![c].session = "connecting"]
         /\ until' = now + remaining + Overrun /\ from' = now
Attempt(c, now, remaining) ==
    IF TimedOut(remaining)
    THEN /\ pc' = "idle"
         /\ clients' = [clients EXCEPT ![c].session = "none"]
         /\ until' = now /\ from' = now
    ELSE /\ pc' = "connect"
         /\ clients' = [clients EXCEPT ![c].session = "connecting"]
         /\ until' = now + remaining + Overrun /\ from' = now

(* The native open up to the first attempt; without a host it fails with   *)
(* the library's Client replaced already.                                  *)
Open ==
    /\ crashed = "no" /\ pc = "idle"
    /\ Len(clients) < MaxOpens
    /\ replaced' = replaced \cup (IF isOpened THEN {server} ELSE {})
    /\ server' = Len(clients) + 1
    /\ clock' = 0 /\ delay' = 0 /\ remainingTimeout' = ConnectTimeout
    /\ IF TimedOut(ConnectTimeout)
       THEN /\ pc' = "idle" /\ until' = 0 /\ from' = 0
            /\ clients' = Append(clients, NewClient)
       ELSE /\ pc' = "connect" /\ until' = ConnectTimeout + Overrun /\ from' = 0
            /\ clients' = Append(clients, [NewClient EXCEPT !.session = "connecting"])
    /\ UNCHANGED <<isOpened, pending, told, crashed>>

OpenWithoutHost ==
    /\ crashed = "no" /\ pc = "idle"
    /\ Len(clients) < MaxOpens
    /\ replaced' = replaced \cup (IF isOpened THEN {server} ELSE {})
    /\ server' = Len(clients) + 1
    /\ clients' = Append(clients, NewClient)
    /\ UNCHANGED <<isOpened, pc, openVars, pending, told, crashed>>

Tick ==
    /\ crashed = "no" /\ pc \in {"connect", "sleep"}
    /\ clock < until
    /\ clock' = clock + 1
    /\ UNCHANGED <<replaced, isOpened, server, clients, pc, until, from, remainingTimeout, delay,
                   pending, told, crashed>>

(* connect succeeds; the SDK has a connection status to report.            *)
Connected ==
    /\ crashed = "no" /\ pc = "connect"
    /\ pc' = "connected"
    /\ clients' = [clients EXCEPT ![server].session = "connected", ![server].link = "up"]
    /\ pending' = [pending EXCEPT ![server] = Append(@, "Connected")]
    /\ UNCHANGED <<replaced, isOpened, server, openVars, told, crashed>>

(* The delay after a failed attempt grows by one up to its maximum, and to *)
(* no more than the time that remains.                                     *)
NextDelay(remaining) ==
    Lowest(IF delay < MaxReconnectDelay THEN delay + 1 ELSE delay, remaining)

(* connect fails: nanosleep returns at once if the delay is negative.      *)
Refused ==
    /\ crashed = "no" /\ pc = "connect"
    /\ LET remaining == ConnectTimeout - clock
           d         == NextDelay(remaining)
       IN  /\ delay' = d
           /\ remainingTimeout' = remaining - d
           /\ from' = clock + Highest(d, 0)
           /\ until' = clock + (IF d < 0 THEN 0 ELSE d + Oversleep)
    /\ pc' = "sleep"
    /\ UNCHANGED <<replaced, isOpened, server, clients, clock, pending, told, crashed>>

Mutant_SleepThenConnect ==     \* the time slept is not taken off
    /\ crashed = "no" /\ pc = "sleep" /\ clock >= from
    /\ Attempt(server, clock, remainingTimeout + delay)
    /\ UNCHANGED <<replaced, isOpened, server, clock, remainingTimeout, delay, pending, told, crashed>>
Wake ==
    /\ crashed = "no" /\ pc = "sleep" /\ clock >= from
    /\ Attempt(server, clock, remainingTimeout)
    /\ UNCHANGED <<replaced, isOpened, server, clock, remainingTimeout, delay, pending, told, crashed>>

(* The rest of Client::open and of the native open: from now on Java knows *)
(* the connection by its session.                                          *)
Opened ==
    /\ crashed = "no" /\ pc = "connected"
    /\ clients' = [clients EXCEPT ![server].isListening = TRUE,
                                  ![server].serverId = SessionId(server)]
    /\ isOpened' = TRUE
    /\ pc' = "idle"
    /\ UNCHANGED <<replaced, server, openVars, pending, told, crashed>>

-----------------------------------------------------------------------------
(* Use and close.                                                          *)

(* read, write, exec, subscribe, unsubscribe and browse use the session    *)
(* whenever isOpened is set; without it there is none to use.              *)
UseWithoutSession ==
    /\ crashed = "no" /\ pc = "idle" /\ isOpened
    /\ clients[server].session # "connected"
    /\ crashed' = "null"
    /\ UNCHANGED <<replaced, isOpened, server, clients, pc, openVars, pending, told>>

(* Status changes that Java is told, by whether the server can be used     *)
(* after them; NewSessionCreated is not among them.                        *)
Mutant_ShutDownIgnored ==
    [status \in {"Connected", "Disconnected", "WatchdogTimeout", "ApiReconnect"} |->
        status = "Connected"]
Usable == [status \in {"Connected", "Disconnected", "WatchdogTimeout", "ApiReconnect",
                       "ServerShutdown"} |-> status = "Connected"]

TellJava(c, status) ==
    told' = IF status \in DOMAIN Usable
            THEN [id \in DOMAIN told \cup {clients[c].serverId} |->
                     IF id = clients[c].serverId THEN Usable[status] ELSE told[id]]
            ELSE told

(* disconnect is good: the SDK reports it before it returns, the session   *)
(* is deleted, and then the thread for incoming messages is joined, which  *)
(* Client::open no longer creates: that may crash.                         *)
Mutant_CloseKeepsOpened ==
    /\ crashed = "no" /\ pc = "idle" /\ isOpened
    /\ clients[server].session = "connected"
    /\ TellJava(server, "Disconnected")
    /\ pending' = [pending EXCEPT ![server] = <<>>]
    /\ clients' = [clients EXCEPT ![server].session = "none", ![server].link = "none",
                                  ![server].isListening = FALSE]
    /\ UNCHANGED <<replaced, crashed, isOpened, server, pc, openVars>>
CloseDisconnects ==
    /\ crashed = "no" /\ pc = "idle" /\ isOpened
    /\ clients[server].session = "connected"
    /\ TellJava(server, "Disconnected")
    /\ pending' = [pending EXCEPT ![server] = <<>>]
    /\ clients' = [clients EXCEPT ![server].session = "none", ![server].link = "none",
                                  ![server].isListening = FALSE]
    /\ \/ crashed' = "no" /\ isOpened' = FALSE
       \/ clients[server].isListening /\ crashed' = "join" /\ isOpened' = isOpened
    /\ UNCHANGED <<replaced, server, pc, openVars>>

(* disconnect fails: nothing catches the exception of the native close.    *)
CloseFails ==
    /\ crashed = "no" /\ pc = "idle" /\ isOpened
    /\ clients[server].session = "connected"
    /\ crashed' = "uncaught"
    /\ UNCHANGED <<replaced, isOpened, server, clients, pc, openVars, pending, told>>

(* There is no session to close.                                           *)
CloseWithoutSession ==
    /\ crashed = "no" /\ pc = "idle" /\ isOpened
    /\ clients[server].session # "connected"
    /\ isOpened' = FALSE
    /\ UNCHANGED <<replaced, server, clients, pc, openVars, pending, told, crashed>>

-----------------------------------------------------------------------------
(* The SDK: a connection is lost and comes back, with the old session or a *)
(* new one, and the changes of a session are reported one after the other. *)
LinkLost(c, status) ==
    /\ crashed = "no" /\ Len(pending[c]) < MaxPending
    /\ clients[c].session = "connected" /\ clients[c].link = "up"
    /\ clients' = [clients EXCEPT ![c].link = "down"]
    /\ pending' = [pending EXCEPT ![c] = Append(@, status)]
    /\ UNCHANGED <<replaced, isOpened, server, pc, openVars, told, crashed>>

LinkBack(c, statuses) ==
    /\ crashed = "no" /\ Len(pending[c]) < MaxPending
    /\ clients[c].session = "connected" /\ clients[c].link = "down"
    /\ clients' = [clients EXCEPT ![c].link = "up"]
    /\ pending' = [pending EXCEPT ![c] = @ \o statuses]
    /\ UNCHANGED <<replaced, isOpened, server, pc, openVars, told, crashed>>

(* HaSessionPrivate::connectionStatusChanged and what it calls.            *)
ConnectionStatusChanged(c) ==
    /\ crashed = "no" /\ pending[c] # <<>>
    /\ TellJava(c, Head(pending[c]))
    /\ pending' = [pending EXCEPT ![c] = Tail(@)]
    /\ UNCHANGED <<replaced, isOpened, server, clients, pc, openVars, crashed>>

Sdk == \/ \E c \in 1 .. Len(clients) :
             \/ \E status \in {"WatchdogTimeout", "ApiReconnect", "ServerShutdown"} :
                   LinkLost(c, status)
             \/ \E statuses \in {<<"Connected">>, <<"NewSessionCreated", "Connected">>} :
                   LinkBack(c, statuses)
             \/ ConnectionStatusChanged(c)

Next == \/ Open \/ OpenWithoutHost \/ Tick \/ Connected \/ Refused \/ Wake \/ Opened
        \/ UseWithoutSession \/ CloseDisconnects \/ CloseFails \/ CloseWithoutSession
        \/ Sdk

(* The SDK's connect returns in time and nanosleep too; time goes on; the  *)
(* Java thread goes on once connected; the SDK's thread reports.           *)
Fairness == /\ WF_vars(Connected \/ Refused) /\ WF_vars(Tick) /\ WF_vars(Wake)
            /\ WF_vars(Opened)
            /\ \A c \in 1 .. MaxOpens : WF_vars(ConnectionStatusChanged(c))

Spec == Init /\ [][Next]_vars /\ Fairness

-----------------------------------------------------------------------------
(* Properties.                                                             *)

Clients == [session: {"none", "connecting", "connected"}, link: {"none", "up", "down"},
            isListening: BOOLEAN, serverId: {HostId} \cup {SessionId(c) : c \in 1 .. MaxOpens}]

TypeOK ==
    /\ replaced \subseteq 1 .. MaxOpens /\ isOpened \in BOOLEAN
    /\ server \in 0 .. Len(clients) /\ Len(clients) <= MaxOpens
    /\ clients \in Seq(Clients)
    /\ pc \in {"idle", "connect", "sleep", "connected"}
    /\ clock \in Nat /\ until \in Int /\ from \in Int
    /\ remainingTimeout \in Int /\ delay \in Int
    /\ crashed \in {"no", "null", "join", "uncaught"}
    /\ isOpened \/ pc # "idle" => server # 0

(* An open of the native library is over within the time-out of its        *)
(* options, but for what the SDK's last connect and the last nanosleep     *)
(* take longer than they were asked to: delays and attempts do not add up  *)
(* (the retry loop of HaSession::open).                                    *)
OpenInTime ==
    pc \in {"connect", "sleep"} => clock <= ConnectTimeout + Overrun + Oversleep

(* ... and why: every wait ends by then, and the time that remains after a *)
(* sleep is what the sleep, had it been exact, would leave.                *)
WaitsInTime ==
    /\ pc \in {"connect", "sleep"} =>
          clock <= until /\ until <= ConnectTimeout + Overrun + Oversleep
    /\ pc = "connect" => delay >= 0
    /\ pc = "sleep" => /\ until <= from + Oversleep
                       /\ remainingTimeout > 0 => delay >= 0
                       /\ \/ remainingTimeout <= 0
                          \/ remainingTimeout = ConnectTimeout - from

(* isOpened says that there is a session to use, after opens and closes    *)
(* that failed too.  The one way for an operation to meet a library        *)
(* without a session is that Java opened again without a close and that    *)
(* open failed: the flag is still that of the Client it replaced, whose    *)
(* session lives on (the native open sets server at its first line and     *)
(* isOpened at its last).                                                  *)
FlagOfReplaced ==
    /\ clients[server].serverId = HostId
    /\ \E c \in replaced : c < server /\ clients[c].session = "connected"
NoNullUse == crashed = "null" => FlagOfReplaced

(* A session is that of the Client in use, and is there only while         *)
(* isOpened says so or an open is at work.  A failed open leaves none      *)
(* behind, nor does a close; the only others are those of Clients that     *)
(* Java had opened and replaced without a close, and they stay for ever.   *)
OneSession ==
    \A c \in 1 .. Len(clients) :
        clients[c].session # "none" =>
            \/ c = server /\ (isOpened \/ pc # "idle")
            \/ c \in replaced /\ clients[c].session = "connected"

(* ... and why: a set flag means a session, or that of a replaced Client.  *)
OpenedHasSession ==
    (isOpened /\ crashed = "no") =>
        server # 0 /\ (clients[server].session = "connected" \/ FlagOfReplaced)
ConnectingOnlyInOpen ==
    \A c \in 1 .. Len(clients) :
        clients[c].session = "connecting" => c = server /\ pc # "idle"

(* Once the SDK has reported all, what Java was told of a session last is  *)
(* whether it is connected, and a session that was closed is not usable.   *)
UsabilityTrue ==
    \A c \in 1 .. Len(clients) :
        (SessionId(c) \in DOMAIN told /\ pending[c] = <<>>)
            => told[SessionId(c)] = (clients[c].link = "up")

(* An open always ends, though the server may never answer or always       *)
(* refuse.                                                                 *)
OpenEnds == pc # "idle" ~> (pc = "idle" \/ crashed # "no")

=============================================================================
