------------------------- MODULE ClientSessionProofs -------------------------
(* Theorems about ClientSession, for every time-out and number of opens.   *)
EXTENDS ClientSession, SequenceTheorems, TLAPS

USE SessionAssumption

-----------------------------------------------------------------------------
(* The time an open takes.  WaitsInTime is inductive with the types of the *)
(* times; OpenInTime follows, as a wait ends before the clock passes it.   *)

TimesOK == /\ pc \in {"idle", "connect", "sleep", "connected"}
           /\ clock \in Nat /\ until \in Int /\ from \in Int
           /\ remainingTimeout \in Int /\ delay \in Int

TimeInv == TimesOK /\ WaitsInTime

timeVars == <<pc, openVars>>

LEMMA TimesKept ==
    ASSUME TimeInv, UNCHANGED timeVars
    PROVE  TimeInv'
  BY DEF TimeInv, TimesOK, WaitsInTime, timeVars, openVars

LEMMA OpenTime ==
    ASSUME TimeInv, Open
    PROVE  TimeInv'
  BY DEF TimeInv, TimesOK, WaitsInTime, Open, TimedOut

LEMMA TickTime ==
    ASSUME TimeInv, Tick
    PROVE  TimeInv'
  BY DEF TimeInv, TimesOK, WaitsInTime, Tick

LEMMA ConnectedTime ==
    ASSUME TimeInv, Connected
    PROVE  TimeInv'
  BY DEF TimeInv, TimesOK, WaitsInTime, Connected, openVars

LEMMA RefusedTime ==
    ASSUME TimeInv, Refused
    PROVE  TimeInv'
  <1> DEFINE remaining == ConnectTimeout - clock
             d         == NextDelay(remaining)
  <1>1. remaining \in Int /\ d \in Int /\ d <= remaining
    BY DEF TimeInv, TimesOK, NextDelay, Lowest
  <1>2. /\ delay' = d
        /\ remainingTimeout' = remaining - d
        /\ from' = clock + Highest(d, 0)
        /\ until' = clock + (IF d < 0 THEN 0 ELSE d + Oversleep)
        /\ pc' = "sleep" /\ pc = "connect" /\ clock' = clock
    BY DEF Refused
  <1>3. clock \in Nat /\ clock <= ConnectTimeout + Overrun + Oversleep
    BY <1>2 DEF TimeInv, TimesOK, WaitsInTime
  <1> DEFINE e == remaining
  <1>4. e = ConnectTimeout - clock
    OBVIOUS
  <1> HIDE DEF d, remaining
  <1>5. CASE d < 0
    <2>1. from' = clock /\ until' = clock
      BY <1>1, <1>2, <1>3, <1>5 DEF Highest
    <2>2. remaining - d >= 0
      BY <1>1
    <2>3. d = remaining
      <3>1. NextDelay(remaining) = d
        BY DEF d
      <3>2. delay \in Int /\ delay >= 0
        BY <1>2 DEF TimeInv, TimesOK, WaitsInTime
      <3> QED
        BY <1>1, <1>5, <3>1, <3>2 DEF NextDelay, Lowest
    <2> QED
      BY <1>1, <1>2, <1>3, <2>1, <2>3 DEF TimeInv, TimesOK, WaitsInTime
  <1>6. CASE d >= 0
    <2>1. from' = clock + d /\ until' = clock + d + Oversleep
      BY <1>1, <1>2, <1>3, <1>6 DEF Highest
    <2>2. remainingTimeout' = ConnectTimeout - from'
      BY <1>1, <1>2, <1>3, <2>1 DEF remaining
    <2>3. clock + d <= ConnectTimeout
      BY <1>1, <1>3 DEF remaining
    <2> QED
      BY <1>1, <1>2, <1>3, <1>6, <2>1, <2>2, <2>3 DEF TimeInv, TimesOK, WaitsInTime
  <1> QED
    BY <1>1, <1>5, <1>6

LEMMA WakeTime ==
    ASSUME TimeInv, Wake
    PROVE  TimeInv'
  <1>1. pc = "sleep" /\ clock >= from /\ UNCHANGED <<clock, remainingTimeout, delay>>
    BY DEF Wake
  <1>2. CASE remainingTimeout <= 0
    BY <1>1, <1>2 DEF TimeInv, TimesOK, WaitsInTime, Wake, Attempt, TimedOut
  <1>3. CASE remainingTimeout > 0
    <2>1. /\ pc' = "connect" /\ from' = clock
          /\ until' = clock + remainingTimeout + Overrun
      BY <1>3 DEF TimeInv, TimesOK, Wake, Attempt, TimedOut
    <2>2. remainingTimeout = ConnectTimeout - from /\ clock <= from + Oversleep
      BY <1>1, <1>3 DEF TimeInv, TimesOK, WaitsInTime
    <2> QED
      BY <1>1, <1>3, <2>1, <2>2 DEF TimeInv, TimesOK, WaitsInTime
  <1>4. remainingTimeout <= 0 \/ remainingTimeout > 0
    BY DEF TimeInv, TimesOK
  <1> QED
    BY <1>2, <1>3, <1>4

LEMMA OpenedTime ==
    ASSUME TimeInv, Opened
    PROVE  TimeInv'
  BY DEF TimeInv, TimesOK, WaitsInTime, Opened, openVars

LEMMA OthersKeepTime ==
    ASSUME \/ OpenWithoutHost \/ UseWithoutSession \/ CloseDisconnects \/ CloseFails
           \/ CloseWithoutSession \/ Sdk
    PROVE  UNCHANGED timeVars
  BY DEF OpenWithoutHost, UseWithoutSession, CloseDisconnects, CloseFails, CloseWithoutSession,
     Sdk, LinkLost, LinkBack, ConnectionStatusChanged, timeVars, openVars

LEMMA StepKeepsTime ==
    ASSUME TimeInv, [Next]_vars
    PROVE  TimeInv'
  <1>1. CASE UNCHANGED vars
    BY <1>1, TimesKept DEF vars, timeVars
  <1>2. CASE Next
    BY <1>2, OpenTime, TickTime, ConnectedTime, RefusedTime, WakeTime, OpenedTime,
       OthersKeepTime, TimesKept DEF Next
  <1> QED
    BY <1>1, <1>2

LEMMA TimeInvariant == Spec => []TimeInv
  <1>1. Init => TimeInv
    BY DEF Init, TimeInv, TimesOK, WaitsInTime
  <1> QED
    BY <1>1, StepKeepsTime, PTL DEF Spec

(* Whatever the time-out, the delays and the answers: no open of the       *)
(* library takes longer than its time-out, but for the overrun of the last *)
(* connect and of one sleep.                                               *)
THEOREM OpenInTimeCorrect == Spec => []OpenInTime
  <1>1. TimeInv => OpenInTime
    BY DEF TimeInv, TimesOK, WaitsInTime, OpenInTime
  <1> QED
    BY <1>1, TimeInvariant, PTL

-----------------------------------------------------------------------------
(* The sessions.                                                           *)

Ids == {HostId} \cup {SessionId(c) : c \in 1 .. MaxOpens}

LEMMA ClientChanged ==
    ASSUME NEW s \in Seq(Clients), NEW c \in 1 .. Len(s), NEW r \in Clients
    PROVE  LET t == [s EXCEPT ![c] = r]
           IN  /\ t \in Seq(Clients) /\ Len(t) = Len(s)
               /\ \A i \in 1 .. Len(s) : t[i] = IF i = c THEN r ELSE s[i]
  OBVIOUS

LEMMA ClientAdded ==
    ASSUME NEW s \in Seq(Clients), NEW r \in Clients
    PROVE  LET t == Append(s, r)
           IN  /\ t \in Seq(Clients) /\ Len(t) = Len(s) + 1
               /\ \A i \in 1 .. Len(s) + 1 : t[i] = IF i = Len(s) + 1 THEN r ELSE s[i]
  OBVIOUS

LEMMA NewClientTyped ==
    /\ NewClient \in Clients /\ NewClient.session = "none" /\ NewClient.serverId = HostId
    /\ [NewClient EXCEPT !.session = "connecting"] \in Clients
    /\ [NewClient EXCEPT !.session = "connecting"].serverId = HostId
  <1> DEFINE I == Ids
  <1>1. HostId \in I
    BY DEF Ids
  <1>2. Clients = [session: {"none", "connecting", "connected"}, link: {"none", "up", "down"},
                   isListening: BOOLEAN, serverId: I]
    BY DEF Clients, Ids
  <1> HIDE DEF I
  <1> QED
    BY <1>1, <1>2 DEF NewClient

(* Opens and closes touch the session, the link and the flag of the Client *)
(* in use; nothing else changes a session.                                 *)
LEMMA ClientUpdated ==
    ASSUME NEW r \in Clients,
           NEW s \in {"none", "connecting", "connected"}, NEW l \in {"none", "up", "down"}
    PROVE  /\ [r EXCEPT !.session = s] \in Clients
           /\ [r EXCEPT !.session = s, !.link = l] \in Clients
           /\ [r EXCEPT !.session = s, !.link = l, !.isListening = FALSE] \in Clients
           /\ [r EXCEPT !.link = l] \in Clients
           /\ \A c \in 1 .. MaxOpens :
                 [r EXCEPT !.isListening = TRUE, !.serverId = SessionId(c)] \in Clients
  <1> DEFINE I == Ids
  <1>1. \A c \in 1 .. MaxOpens : SessionId(c) \in I
    BY DEF Ids
  <1>2. Clients = [session: {"none", "connecting", "connected"}, link: {"none", "up", "down"},
                   isListening: BOOLEAN, serverId: I]
    BY DEF Clients, Ids
  <1> HIDE DEF I
  <1> QED
    BY <1>1, <1>2

SessionTypes ==
    /\ replaced \subseteq 1 .. MaxOpens /\ isOpened \in BOOLEAN
    /\ server \in 0 .. Len(clients) /\ Len(clients) <= MaxOpens
    /\ clients \in Seq(Clients)
    /\ pc \in {"idle", "connect", "sleep", "connected"}
    /\ crashed \in {"no", "null", "join", "uncaught"}
    /\ isOpened \/ pc # "idle" => server # 0

(* A set flag means a session or that of a replaced Client, and a session  *)
(* is in use, left by a replaced Client, or being connected by the open.   *)
SessionInv ==
    /\ NoNullUse
    /\ OneSession
    /\ OpenedHasSession
    /\ ConnectingOnlyInOpen

Good == SessionTypes /\ SessionInv
sessionVars == <<replaced, isOpened, server, clients, pc, crashed>>

LEMMA GoodKept ==
    ASSUME Good, UNCHANGED sessionVars
    PROVE  Good'
  BY DEF Good, SessionTypes, SessionInv, NoNullUse, OneSession, OpenedHasSession,
         ConnectingOnlyInOpen, FlagOfReplaced, sessionVars

(* The flag of a replaced Client outlasts every step that keeps the other  *)
(* sessions and gives the Client in use no id.                             *)
LEMMA FlagKept ==
    ASSUME Good, FlagOfReplaced, server # 0, server' \in Nat, server <= server',
           replaced \subseteq replaced', clients'[server'].serverId = HostId,
           \A c \in 1 .. Len(clients) : c < server => clients'[c].session = clients[c].session
    PROVE  FlagOfReplaced'
  <1>1. PICK c \in replaced : c < server /\ clients[c].session = "connected"
    BY DEF FlagOfReplaced
  <1>2. c \in 1 .. Len(clients) /\ c \in replaced' /\ c < server'
    BY <1>1 DEF Good, SessionTypes
  <1>3. clients'[c].session = "connected"
    BY <1>1, <1>2
  <1> QED
    BY <1>2, <1>3 DEF FlagOfReplaced

(* A step that makes a new Client.                                         *)
LEMMA ClientMade ==
    ASSUME Good, crashed = "no", pc = "idle", Len(clients) < MaxOpens,
           replaced' = replaced \cup (IF isOpened THEN {server} ELSE {}),
           NEW r \in Clients, clients' = Append(clients, r), server' = Len(clients) + 1,
           r.serverId = HostId,
           \/ r.session = "none" /\ pc' = "idle"
           \/ pc' = "connect",
           UNCHANGED <<isOpened, crashed>>
    PROVE  Good'
  <1>1. /\ clients' \in Seq(Clients) /\ Len(clients') = Len(clients) + 1
        /\ \A i \in 1 .. Len(clients) + 1 :
              clients'[i] = IF i = Len(clients) + 1 THEN r ELSE clients[i]
    BY ClientAdded DEF Good, SessionTypes
  <1>2. Len(clients) \in Nat /\ server \in 0 .. Len(clients) /\ (isOpened => server # 0)
        /\ replaced \subseteq 1 .. MaxOpens /\ Len(clients) <= MaxOpens /\ isOpened \in BOOLEAN
    BY DEF Good, SessionTypes
  <1>3. SessionTypes'
    <2>1. replaced' \subseteq 1 .. MaxOpens
      BY <1>2 DEF Good, SessionTypes, SessionAssumption
    <2> QED
      BY <1>1, <1>2, <2>1 DEF Good, SessionTypes
  <1>4. \A c \in 1 .. Len(clients) :
            clients[c].session # "none" => c \in replaced' /\ clients[c].session = "connected"
    <2> SUFFICES ASSUME NEW c \in 1 .. Len(clients), clients[c].session # "none"
                 PROVE  c \in replaced' /\ clients[c].session = "connected"
      OBVIOUS
    <2>1. clients[c].session # "connecting"
      BY DEF Good, SessionInv, ConnectingOnlyInOpen
    <2>2. clients[c] \in Clients
      BY DEF Good, SessionTypes
    <2>3. clients[c].session = "connected"
      BY <2>1, <2>2 DEF Clients
    <2> QED
      BY <2>3 DEF Good, SessionInv, OneSession
  <1>5. OneSession'
    BY <1>1, <1>2, <1>4 DEF OneSession
  <1>6. ConnectingOnlyInOpen'
    BY <1>1, <1>2, <1>4 DEF ConnectingOnlyInOpen
  <1>7. OpenedHasSession'
    <2> SUFFICES ASSUME isOpened PROVE FlagOfReplaced'
      BY <1>2 DEF OpenedHasSession
    <2>1. server \in 1 .. Len(clients) /\ server \in replaced' /\ server < server'
      BY <1>2
    <2>2. clients'[server'].serverId = HostId
      BY <1>1, <1>2
    <2>3. CASE clients[server].session = "connected"
      <3>1. clients'[server].session = "connected"
        BY <1>1, <1>2, <2>1, <2>3
      <3> QED
        BY <2>1, <2>2, <3>1 DEF FlagOfReplaced
    <2>4. CASE clients[server].session # "connected"
      <3>1. FlagOfReplaced
        BY <2>4 DEF Good, SessionInv, OpenedHasSession
      <3>2. \A c \in 1 .. Len(clients) : clients'[c].session = clients[c].session
        BY <1>1, <1>2
      <3> QED
        BY <1>2, <2>1, <2>2, <3>1, <3>2, FlagKept
    <2> QED
      BY <2>3, <2>4
  <1> QED
    BY <1>3, <1>5, <1>6, <1>7 DEF Good, SessionInv, NoNullUse

(* A step that changes the Client in use.                                  *)
LEMMA ClientInUseChanged ==
    ASSUME Good, server # 0, crashed = "no",
           NEW r \in Clients, clients' = [clients EXCEPT ![server] = r],
           UNCHANGED <<replaced, server>>,
           isOpened' \in BOOLEAN, pc' \in {"idle", "connect", "sleep", "connected"},
           crashed' \in {"no", "join"},
           pc' = "idle" => \/ r.session = "none"
                           \/ r.session = "connected" /\ isOpened',
           \/ isOpened' => crashed' # "no"
           \/ r.session = "connected"
           \/ isOpened' = isOpened /\ r.serverId = clients[server].serverId
                 /\ clients[server].session # "connected"
    PROVE  Good'
  <1>0. server \in 1 .. Len(clients) /\ Len(clients) \in Nat
    BY DEF Good, SessionTypes
  <1>1. /\ clients' \in Seq(Clients) /\ Len(clients') = Len(clients)
        /\ \A i \in 1 .. Len(clients) : clients'[i] = IF i = server THEN r ELSE clients[i]
    BY <1>0, ClientChanged DEF Good, SessionTypes
  <1>2. SessionTypes'
    BY <1>0, <1>1 DEF Good, SessionTypes
  <1>3. OneSession'
    BY <1>0, <1>1 DEF Good, SessionInv, OneSession
  <1>4. OpenedHasSession'
    <2> SUFFICES ASSUME isOpened', crashed' = "no", r.session # "connected"
                 PROVE  FlagOfReplaced'
      BY <1>0, <1>1 DEF OpenedHasSession
    <2>1. isOpened /\ r.serverId = clients[server].serverId
          /\ clients[server].session # "connected"
      OBVIOUS
    <2>2. FlagOfReplaced
      BY <2>1 DEF Good, SessionInv, OpenedHasSession
    <2>3. clients'[server'].serverId = HostId
      BY <1>0, <1>1, <2>1, <2>2 DEF FlagOfReplaced
    <2>4. \A c \in 1 .. Len(clients) : c < server => clients'[c].session = clients[c].session
      BY <1>0, <1>1
    <2> QED
      BY <1>0, <2>2, <2>3, <2>4, FlagKept
  <1>5. ConnectingOnlyInOpen'
    BY <1>0, <1>1 DEF Good, SessionInv, ConnectingOnlyInOpen
  <1>6. NoNullUse'
    BY DEF NoNullUse
  <1> QED
    BY <1>2, <1>3, <1>4, <1>5, <1>6 DEF Good, SessionInv

(* A step that changes only the link of a Client.                          *)
LEMMA LinkChanged ==
    ASSUME Good, crashed = "no", NEW c \in 1 .. Len(clients), NEW l \in {"up", "down"},
           clients' = [clients EXCEPT ![c].link = l],
           UNCHANGED <<replaced, isOpened, server, pc, crashed>>
    PROVE  Good'
  <1> DEFINE r == [clients[c] EXCEPT !.link = l]
  <1>1. Len(clients) \in Nat /\ clients[c] \in Clients
    BY DEF Good, SessionTypes
  <1>2. r \in Clients /\ r.session = clients[c].session /\ r.serverId = clients[c].serverId
    <2>1. r \in Clients
      BY <1>1, ClientUpdated
    <2> QED
      BY <1>1, <2>1 DEF Clients
  <1>3. clients' = [clients EXCEPT ![c] = r]
    OBVIOUS
  <1> HIDE DEF r
  <1>4. /\ clients' \in Seq(Clients) /\ Len(clients') = Len(clients)
        /\ \A i \in 1 .. Len(clients) : clients'[i] = IF i = c THEN r ELSE clients[i]
    <2>1. clients \in Seq(Clients) /\ r \in Clients
      BY <1>2 DEF Good, SessionTypes
    <2>2. LET t == [clients EXCEPT ![c] = r]
          IN  /\ t \in Seq(Clients) /\ Len(t) = Len(clients)
              /\ \A i \in 1 .. Len(clients) : t[i] = IF i = c THEN r ELSE clients[i]
      BY <2>1, ClientChanged
    <2> QED
      BY <1>3, <2>2
  <1>5. \A i \in 1 .. Len(clients) : /\ clients'[i].session = clients[i].session
                                       /\ clients'[i].serverId = clients[i].serverId
    BY <1>2, <1>4
  <1>6. SessionTypes'
    BY <1>1, <1>4 DEF Good, SessionTypes
  <1>7. OneSession'
    BY <1>4, <1>5 DEF Good, SessionInv, OneSession
  <1>8. server # 0 => (FlagOfReplaced => FlagOfReplaced')
    <2> SUFFICES ASSUME server # 0, FlagOfReplaced PROVE FlagOfReplaced'
      OBVIOUS
    <2>1. server \in 1 .. Len(clients)
      BY <1>1 DEF Good, SessionTypes
    <2>2. clients'[server'].serverId = HostId
      BY <1>5, <2>1 DEF FlagOfReplaced
    <2> QED
      BY <1>5, <2>1, <2>2, FlagKept
  <1>9. OpenedHasSession'
    BY <1>1, <1>4, <1>5, <1>8 DEF Good, SessionInv, SessionTypes, OpenedHasSession
  <1>10. ConnectingOnlyInOpen'
    BY <1>4, <1>5 DEF Good, SessionInv, ConnectingOnlyInOpen
  <1> QED
    BY <1>6, <1>7, <1>9, <1>10 DEF Good, SessionInv, NoNullUse

-----------------------------------------------------------------------------
(* One lemma for each action.                                              *)

LEMMA ClientInUse ==
    ASSUME Good, isOpened \/ pc # "idle"
    PROVE  /\ server # 0 /\ server \in 1 .. Len(clients) /\ server \in 1 .. MaxOpens
           /\ clients[server] \in Clients /\ Len(clients) \in Nat
  <1>1. server # 0 /\ server \in 0 .. Len(clients) /\ clients \in Seq(Clients)
        /\ Len(clients) <= MaxOpens
    BY DEF Good, SessionTypes
  <1>2. Len(clients) \in Nat /\ server \in 1 .. Len(clients) /\ server \in 1 .. MaxOpens
    BY <1>1
  <1> QED
    BY <1>1, <1>2

LEMMA OpenGood ==
    ASSUME Good, Open
    PROVE  Good'
  <1>1. /\ crashed = "no" /\ pc = "idle" /\ Len(clients) < MaxOpens
        /\ replaced' = replaced \cup (IF isOpened THEN {server} ELSE {})
        /\ server' = Len(clients) + 1 /\ UNCHANGED <<isOpened, crashed>>
    BY DEF Open
  <1>2. CASE TimedOut(ConnectTimeout)
    <2>1. clients' = Append(clients, NewClient) /\ pc' = "idle"
      BY <1>2 DEF Open
    <2> QED
      BY <1>1, <2>1, ClientMade, NewClientTyped
  <1>3. CASE ~TimedOut(ConnectTimeout)
    <2> DEFINE r == [NewClient EXCEPT !.session = "connecting"]
    <2>1. clients' = Append(clients, r) /\ pc' = "connect"
      BY <1>3 DEF Open
    <2>2. r \in Clients /\ r.serverId = HostId
      BY NewClientTyped
    <2> HIDE DEF r
    <2> QED
      BY <1>1, <2>1, <2>2, ClientMade
  <1> QED
    BY <1>2, <1>3

LEMMA OpenWithoutHostGood ==
    ASSUME Good, OpenWithoutHost
    PROVE  Good'
  <1>1. /\ crashed = "no" /\ pc = "idle" /\ Len(clients) < MaxOpens
        /\ replaced' = replaced \cup (IF isOpened THEN {server} ELSE {})
        /\ server' = Len(clients) + 1 /\ UNCHANGED <<isOpened, crashed>>
        /\ clients' = Append(clients, NewClient) /\ pc' = "idle"
    BY DEF OpenWithoutHost
  <1> QED
    BY <1>1, ClientMade, NewClientTyped

LEMMA ConnectedGood ==
    ASSUME Good, Connected
    PROVE  Good'
  <1> DEFINE r == [clients[server] EXCEPT !.session = "connected", !.link = "up"]
  <1>1. /\ crashed = "no" /\ pc = "connect" /\ pc' = "connected"
        /\ UNCHANGED <<replaced, isOpened, server, crashed>>
    BY DEF Connected
  <1>2. /\ server # 0 /\ server \in 1 .. Len(clients) /\ clients[server] \in Clients
    BY <1>1, ClientInUse
  <1>3. clients' = [clients EXCEPT ![server] = r]
    BY <1>2 DEF Connected, Good, SessionTypes
  <1>4. r \in Clients
    BY <1>2, ClientUpdated
  <1>5. r.session = "connected"
    BY <1>2 DEF Clients
  <1>6. isOpened' \in BOOLEAN
    BY <1>1 DEF Good, SessionTypes
  <1> HIDE DEF r
  <1> QED
    BY <1>1, <1>2, <1>3, <1>4, <1>5, <1>6, ClientInUseChanged

(* While the open connects or sleeps the Client in use has no session; it  *)
(* has one once connect succeeded.                                         *)
PcInv == /\ pc = "connected" => clients[server].session = "connected"
         /\ pc \in {"connect", "sleep"} => clients[server].session # "connected"

LEMMA WakeGood ==
    ASSUME Good, PcInv, Wake
    PROVE  Good'
  <1>1. /\ crashed = "no" /\ pc = "sleep" /\ Attempt(server, clock, remainingTimeout)
        /\ UNCHANGED <<replaced, isOpened, server, crashed>>
    BY DEF Wake
  <1>2. /\ server # 0 /\ server \in 1 .. Len(clients) /\ clients[server] \in Clients
    BY <1>1, ClientInUse
  <1>3. /\ isOpened' = isOpened /\ isOpened' \in BOOLEAN
        /\ clients[server].session # "connected"
    BY <1>1 DEF Good, SessionTypes, SessionInv, PcInv
  <1>4. CASE TimedOut(remainingTimeout)
    <2> DEFINE r == [clients[server] EXCEPT !.session = "none"]
    <2>1. clients' = [clients EXCEPT ![server] = r] /\ pc' = "idle"
      BY <1>1, <1>4 DEF Attempt
    <2>2. r \in Clients /\ r.session = "none" /\ r.serverId = clients[server].serverId
      <3>1. r \in Clients
        BY <1>2, ClientUpdated
      <3> QED
        BY <1>2, <3>1 DEF Clients
    <2> HIDE DEF r
    <2> QED
      BY <1>1, <1>2, <1>3, <2>1, <2>2, ClientInUseChanged
  <1>5. CASE ~TimedOut(remainingTimeout)
    <2> DEFINE r == [clients[server] EXCEPT !.session = "connecting"]
    <2>1. clients' = [clients EXCEPT ![server] = r] /\ pc' = "connect"
      BY <1>1, <1>5 DEF Attempt
    <2>2. r \in Clients /\ r.serverId = clients[server].serverId
      <3>1. r \in Clients
        BY <1>2, ClientUpdated
      <3> QED
        BY <1>2, <3>1 DEF Clients
    <2> HIDE DEF r
    <2> QED
      BY <1>1, <1>2, <1>3, <2>1, <2>2, ClientInUseChanged
  <1> QED
    BY <1>4, <1>5

LEMMA OpenedGood ==
    ASSUME Good, PcInv, Opened
    PROVE  Good'
  <1> DEFINE r == [clients[server] EXCEPT !.isListening = TRUE, !.serverId = SessionId(server)]
  <1>1. /\ crashed = "no" /\ pc = "connected" /\ pc' = "idle" /\ isOpened' = TRUE
        /\ UNCHANGED <<replaced, server, crashed>>
    BY DEF Opened
  <1>2. /\ server # 0 /\ server \in 1 .. Len(clients) /\ clients[server] \in Clients
        /\ server \in 1 .. MaxOpens
    BY <1>1, ClientInUse
  <1>3. clients' = [clients EXCEPT ![server] = r]
    BY <1>2 DEF Opened, Good, SessionTypes
  <1>4. r \in Clients
    BY <1>2, ClientUpdated
  <1>5. r.session = "connected"
    BY <1>1, <1>2 DEF PcInv, Clients
  <1> HIDE DEF r
  <1> QED
    BY <1>1, <1>2, <1>3, <1>4, <1>5, ClientInUseChanged

LEMMA CloseDisconnectsGood ==
    ASSUME Good, CloseDisconnects
    PROVE  Good'
  <1> DEFINE r == [clients[server] EXCEPT !.session = "none", !.link = "none",
                                          !.isListening = FALSE]
  <1>1. /\ crashed = "no" /\ pc = "idle" /\ pc' = "idle" /\ isOpened
        /\ UNCHANGED <<replaced, server>>
        /\ \/ crashed' = "no" /\ isOpened' = FALSE
           \/ crashed' = "join" /\ isOpened' = isOpened
    BY DEF CloseDisconnects
  <1>2. /\ server # 0 /\ server \in 1 .. Len(clients) /\ clients[server] \in Clients
    BY <1>1, ClientInUse
  <1>3. clients' = [clients EXCEPT ![server] = r]
    BY <1>2 DEF CloseDisconnects, Good, SessionTypes
  <1>4. r \in Clients
    BY <1>2, ClientUpdated
  <1>5. r.session = "none"
    BY <1>2 DEF Clients
  <1>6. isOpened' \in BOOLEAN /\ crashed' \in {"no", "join"} /\ (isOpened' => crashed' # "no")
    BY <1>1 DEF Good, SessionTypes
  <1> HIDE DEF r
  <1> QED
    BY <1>1, <1>2, <1>3, <1>4, <1>5, <1>6, ClientInUseChanged

LEMMA LinkLostGood ==
    ASSUME Good, NEW c \in 1 .. Len(clients), NEW status, LinkLost(c, status)
    PROVE  Good'
  <1>1. /\ clients' = [clients EXCEPT ![c].link = "down"] /\ crashed = "no"
        /\ UNCHANGED <<replaced, isOpened, server, pc, crashed>>
    BY DEF LinkLost
  <1> QED
    BY <1>1, LinkChanged

LEMMA LinkBackGood ==
    ASSUME Good, NEW c \in 1 .. Len(clients), NEW statuses, LinkBack(c, statuses)
    PROVE  Good'
  <1>1. /\ clients' = [clients EXCEPT ![c].link = "up"] /\ crashed = "no"
        /\ UNCHANGED <<replaced, isOpened, server, pc, crashed>>
    BY DEF LinkBack
  <1> QED
    BY <1>1, LinkChanged

(* Steps that change no Client.                                            *)
LEMMA OtherGood ==
    ASSUME Good, \/ Tick \/ Refused \/ UseWithoutSession \/ CloseFails \/ CloseWithoutSession
                 \/ \E c \in 1 .. Len(clients) : ConnectionStatusChanged(c)
    PROVE  Good'
  <1>1. CASE Tick
    BY <1>1, GoodKept DEF Tick, sessionVars
  <1>2. CASE \E c \in 1 .. Len(clients) : ConnectionStatusChanged(c)
    BY <1>2, GoodKept DEF ConnectionStatusChanged, sessionVars
  <1>3. CASE Refused
    BY <1>3 DEF Refused, Good, SessionTypes, SessionInv, NoNullUse, OneSession, OpenedHasSession,
                ConnectingOnlyInOpen, FlagOfReplaced
  <1>4. CASE UseWithoutSession
    BY <1>4 DEF UseWithoutSession, Good, SessionTypes, SessionInv, NoNullUse, OneSession,
                OpenedHasSession, ConnectingOnlyInOpen, FlagOfReplaced
  <1>5. CASE CloseFails
    BY <1>5 DEF CloseFails, Good, SessionTypes, SessionInv, NoNullUse, OneSession,
                OpenedHasSession, ConnectingOnlyInOpen
  <1>6. CASE CloseWithoutSession
    <2>1. \A c \in 1 .. Len(clients) : clients[c].session # "none" => c \in replaced
              /\ clients[c].session = "connected"
      <3> SUFFICES ASSUME NEW c \in 1 .. Len(clients), clients[c].session # "none"
                   PROVE  c \in replaced /\ clients[c].session = "connected"
        OBVIOUS
      <3>1. pc = "idle" /\ clients[server].session # "connected"
        BY <1>6 DEF CloseWithoutSession
      <3>2. clients[c].session # "connecting"
        BY <3>1 DEF Good, SessionInv, ConnectingOnlyInOpen
      <3>3. clients[c] \in Clients
        BY DEF Good, SessionTypes
      <3>4. clients[c].session = "connected"
        BY <3>2, <3>3 DEF Clients
      <3> QED
        BY <3>1, <3>4 DEF Good, SessionInv, OneSession
    <2> QED
      BY <1>6, <2>1 DEF CloseWithoutSession, Good, SessionTypes, SessionInv, NoNullUse,
                        OneSession, OpenedHasSession, ConnectingOnlyInOpen
  <1> QED
    BY <1>1, <1>2, <1>3, <1>4, <1>5, <1>6

-----------------------------------------------------------------------------
(* The session stays connected until the open is done: while the Java      *)
(* thread is in the open, nothing else touches the sessions.               *)

LEMMA SessionOfInUse ==
    ASSUME Good, server \in 1 .. Len(clients), NEW r \in Clients,
           clients' = [clients EXCEPT ![server] = r], server' = server
    PROVE  clients'[server'] = r
  BY DEF Good, SessionTypes

LEMMA PcInvKept ==
    ASSUME Good, PcInv, Next
    PROVE  PcInv'
  <1>1. CASE Open
    <2>1. CASE pc' = "idle"
      BY <2>1 DEF PcInv
    <2>2. CASE pc' # "idle"
      <3> DEFINE r == [NewClient EXCEPT !.session = "connecting"]
      <3>1. pc' = "connect" /\ clients' = Append(clients, r) /\ server' = Len(clients) + 1
        BY <1>1, <2>2 DEF Open
      <3>2. r.session = "connecting" /\ r \in Clients
        BY NewClientTyped DEF NewClient
      <3> HIDE DEF r
      <3>3. clients'[server'] = r
        BY <3>1, <3>2, ClientAdded DEF Good, SessionTypes
      <3> QED
        BY <3>1, <3>2, <3>3 DEF PcInv
    <2> QED
      BY <2>1, <2>2
  <1>2. CASE Connected
    <2>1. /\ server # 0 /\ server \in 1 .. Len(clients) /\ clients[server] \in Clients
      BY <1>2, ClientInUse DEF Connected
    <2> DEFINE r == [clients[server] EXCEPT !.session = "connected", !.link = "up"]
    <2>2. clients' = [clients EXCEPT ![server] = r] /\ server' = server /\ pc' = "connected"
      BY <1>2, <2>1 DEF Connected, Good, SessionTypes
    <2>3. r \in Clients
      BY <2>1, ClientUpdated
    <2>4. r.session = "connected"
      BY <2>1 DEF Clients
    <2> HIDE DEF r
    <2> QED
      BY <2>1, <2>2, <2>3, <2>4, SessionOfInUse DEF PcInv
  <1>3. CASE Tick \/ UseWithoutSession \/ CloseFails \/ CloseWithoutSession \/ Refused
             \/ \E c \in 1 .. Len(clients) : ConnectionStatusChanged(c)
    BY <1>3 DEF Tick, UseWithoutSession, CloseFails, CloseWithoutSession, Refused,
                ConnectionStatusChanged, PcInv
  <1>4. CASE CloseDisconnects \/ OpenWithoutHost \/ Opened
    BY <1>4 DEF CloseDisconnects, OpenWithoutHost, Opened, PcInv
  <1>5. CASE Wake
    <2>1. CASE pc' = "idle"
      BY <2>1 DEF PcInv
    <2>2. CASE pc' # "idle"
      <3>1. server \in 1 .. Len(clients) /\ clients[server] \in Clients
        BY <1>5, ClientInUse DEF Wake
      <3> DEFINE r == [clients[server] EXCEPT !.session = "connecting"]
      <3>2. clients' = [clients EXCEPT ![server] = r] /\ server' = server /\ pc' = "connect"
        BY <1>5, <2>2 DEF Wake, Attempt
      <3>3. r \in Clients
        BY <3>1, ClientUpdated
      <3>4. r.session = "connecting"
        BY <3>1 DEF Clients
      <3> HIDE DEF r
      <3> QED
        BY <3>1, <3>2, <3>3, <3>4, SessionOfInUse DEF PcInv
    <2> QED
      BY <2>1, <2>2
  <1>6. ASSUME NEW c \in 1 .. Len(clients), NEW l \in {"up", "down"},
               clients' = [clients EXCEPT ![c].link = l], UNCHANGED <<server, pc>>
        PROVE  PcInv'
    <2>1. CASE pc # "idle"
      <3>1. /\ server \in 1 .. Len(clients) /\ clients[server] \in Clients
        BY <2>1, ClientInUse
      <3>2. clients[c] \in Clients /\ clients \in Seq(Clients)
        BY DEF Good, SessionTypes
      <3>3. clients'[server] \in {clients[server], [clients[server] EXCEPT !.link = l]}
        BY <1>6, <3>1, <3>2
      <3> QED
        BY <1>6, <2>1, <3>1, <3>3 DEF PcInv, Clients
    <2>2. CASE pc = "idle"
      BY <1>6, <2>2 DEF PcInv
    <2> QED
      BY <2>1, <2>2
  <1>7. CASE \E c \in 1 .. Len(clients) :
                \/ \E status \in {"WatchdogTimeout", "ApiReconnect", "ServerShutdown"} :
                      LinkLost(c, status)
                \/ \E statuses \in {<<"Connected">>, <<"NewSessionCreated", "Connected">>} :
                      LinkBack(c, statuses)
    BY <1>6, <1>7 DEF LinkLost, LinkBack
  <1> QED
    BY <1>1, <1>2, <1>3, <1>4, <1>5, <1>7 DEF Next, Sdk

LEMMA StepKeepsGood ==
    ASSUME Good /\ PcInv, [Next]_vars
    PROVE  (Good /\ PcInv)'
  <1>1. CASE UNCHANGED vars
    <2>1. UNCHANGED sessionVars
      BY <1>1 DEF vars, sessionVars
    <2>2. PcInv'
      BY <2>1 DEF PcInv, sessionVars
    <2> QED
      BY <2>1, <2>2, GoodKept
  <1>2. CASE Next
    <2>1. Good'
      BY <1>2, OpenGood, OpenWithoutHostGood, ConnectedGood, WakeGood, OpenedGood,
         CloseDisconnectsGood, LinkLostGood, LinkBackGood, OtherGood DEF Next, Sdk
    <2> QED
      BY <1>2, <2>1, PcInvKept
  <1> QED
    BY <1>1, <1>2

LEMMA SessionInvariant == Spec => [](Good /\ PcInv)
  <1>1. Init => Good /\ PcInv
    <2> SUFFICES ASSUME Init PROVE Good /\ PcInv
      OBVIOUS
    <2>1. clients \in Seq(Clients) /\ Len(clients) = 0
      BY DEF Init
    <2>2. SessionTypes
      <3>1. replaced \subseteq 1 .. MaxOpens /\ isOpened = FALSE /\ isOpened \in BOOLEAN
        BY Zenon DEF Init
      <3>2. server = 0 /\ server \in 0 .. Len(clients) /\ Len(clients) <= MaxOpens
        BY <2>1 DEF Init
      <3>3. pc = "idle" /\ crashed = "no"
        BY DEF Init
      <3>4. ~(isOpened \/ pc # "idle")
        BY <3>1, <3>3
      <3> QED
        BY <2>1, <3>1, <3>2, <3>3, <3>4 DEF SessionTypes
    <2>3. SessionInv
      BY <2>1 DEF Init, SessionInv, NoNullUse, OneSession, OpenedHasSession, ConnectingOnlyInOpen
    <2> QED
      BY <2>2, <2>3 DEF Init, Good, PcInv
  <1> QED
    BY <1>1, StepKeepsGood, PTL DEF Spec

(* The variables keep their types.                                         *)
THEOREM TypeCorrect == Spec => []TypeOK
  <1>1. TimeInv /\ Good => TypeOK
    BY DEF TimeInv, TimesOK, Good, SessionTypes, TypeOK
  <1> QED
    BY <1>1, TimeInvariant, SessionInvariant, PTL

(* However opens and closes succeed or fail, an operation meets a library  *)
(* without a session only after Java opened again without a close and that *)
(* open failed.                                                            *)
THEOREM NoNullUseCorrect == Spec => []NoNullUse
  <1>1. Good => NoNullUse
    BY DEF Good, SessionInv
  <1> QED
    BY <1>1, SessionInvariant, PTL

(* No session is ever left behind by an open that failed or by a close:    *)
(* all but the one in use are those of Clients that were opened and        *)
(* replaced without a close.                                               *)
THEOREM OneSessionCorrect == Spec => []OneSession
  <1>1. Good => OneSession
    BY DEF Good, SessionInv
  <1> QED
    BY <1>1, SessionInvariant, PTL

-----------------------------------------------------------------------------
(* What Java was told of the sessions.  For each Client either changes     *)
(* wait, of which the last one says whether the link is up, or all are     *)
(* told, and then what was told under the id of the session says it.       *)

Statuses == DOMAIN Usable \cup {"NewSessionCreated"}
Last(s)  == s[Len(s)]

SaysLink(status, link) == status \in DOMAIN Usable /\ Usable[status] = (link = "up")

ClientUsability(c) ==
    /\ clients[c].serverId \in {HostId, SessionId(c)}
    /\ SessionId(c) \in DOMAIN told => clients[c].serverId = SessionId(c)
    /\ IF pending[c] = <<>>
       THEN SessionId(c) \in DOMAIN told => told[SessionId(c)] = (clients[c].link = "up")
       ELSE SaysLink(Last(pending[c]), clients[c].link)

NoClient(c) == pending[c] = <<>> /\ SessionId(c) \notin DOMAIN told

UsabilityInv ==
    /\ pending \in [1 .. MaxOpens -> Seq(Statuses)]
    /\ \A c \in 1 .. MaxOpens : IF c <= Len(clients) THEN ClientUsability(c) ELSE NoClient(c)

LEMMA IdsDistinct ==
    /\ \A c : HostId # SessionId(c)
    /\ \A c, d : SessionId(c) = SessionId(d) => c = d
  BY DEF HostId, SessionId

LEMMA UsableStatuses ==
    /\ SaysLink("Connected", "up") /\ ~SaysLink("NewSessionCreated", "up")
    /\ \A status \in {"WatchdogTimeout", "ApiReconnect", "ServerShutdown"} :
          SaysLink(status, "down")
    /\ "Disconnected" \in DOMAIN Usable /\ Usable["Disconnected"] = FALSE
    /\ \A status \in {"Connected", "WatchdogTimeout", "ApiReconnect", "ServerShutdown"} :
          status \in DOMAIN Usable
  BY DEF SaysLink, Usable

(* A step that leaves the links and all that is told as they are.          *)
LEMMA UsabilityKept ==
    ASSUME UsabilityInv, UNCHANGED <<pending, told>>, Len(clients') = Len(clients),
           \A c \in 1 .. MaxOpens : c <= Len(clients) =>
               /\ clients'[c].link = clients[c].link
               /\ clients'[c].serverId \in {clients[c].serverId, SessionId(c)}
    PROVE  UsabilityInv'
  <1> SUFFICES ASSUME NEW c \in 1 .. MaxOpens
               PROVE  IF c <= Len(clients) THEN ClientUsability(c)' ELSE NoClient(c)'
    BY DEF UsabilityInv
  <1>1. CASE c <= Len(clients)
    <2>1. ClientUsability(c)
      BY <1>1 DEF UsabilityInv
    <2> QED
      BY <1>1, <2>1 DEF ClientUsability
  <1>2. CASE ~(c <= Len(clients))
    BY <1>2 DEF UsabilityInv, NoClient
  <1> QED
    BY <1>1, <1>2

(* A step that makes a new Client: nothing waits for it, and Java was told *)
(* nothing of its session.                                                 *)
LEMMA UsabilityOfNew ==
    ASSUME Good, UsabilityInv, UNCHANGED <<pending, told>>,
           NEW r \in Clients, clients' = Append(clients, r), r.serverId = HostId
    PROVE  UsabilityInv'
  <1>1. /\ Len(clients') = Len(clients) + 1 /\ Len(clients) \in Nat
        /\ \A i \in 1 .. Len(clients) + 1 :
              clients'[i] = IF i = Len(clients) + 1 THEN r ELSE clients[i]
    BY ClientAdded DEF Good, SessionTypes
  <1> SUFFICES ASSUME NEW c \in 1 .. MaxOpens
               PROVE  IF c <= Len(clients') THEN ClientUsability(c)' ELSE NoClient(c)'
    BY DEF UsabilityInv
  <1>2. CASE c <= Len(clients)
    <2>1. ClientUsability(c) /\ clients'[c] = clients[c] /\ c <= Len(clients')
      BY <1>1, <1>2 DEF UsabilityInv
    <2> QED
      BY <2>1 DEF ClientUsability
  <1>3. CASE c = Len(clients) + 1
    <2>1. NoClient(c) /\ clients'[c] = r /\ c <= Len(clients')
      BY <1>1, <1>3 DEF UsabilityInv
    <2> QED
      BY <2>1 DEF ClientUsability, NoClient
  <1>4. CASE c > Len(clients) + 1
    <2>1. NoClient(c) /\ ~(c <= Len(clients'))
      BY <1>1, <1>4 DEF UsabilityInv
    <2> QED
      BY <2>1 DEF NoClient
  <1> QED
    BY <1>1, <1>2, <1>3, <1>4

(* A step of one Client or its session.                                    *)
LEMMA UsabilityOfOne ==
    ASSUME Good, UsabilityInv,
           NEW c \in 1 .. Len(clients), NEW r \in Clients, NEW q \in Seq(Statuses),
           clients' = [clients EXCEPT ![c] = r], pending' = [pending EXCEPT ![c] = q],
           \A d \in 1 .. MaxOpens : d # c =>
               /\ SessionId(d) \in DOMAIN told' <=> SessionId(d) \in DOMAIN told
               /\ SessionId(d) \in DOMAIN told => told'[SessionId(d)] = told[SessionId(d)],
           r.serverId \in {HostId, SessionId(c)},
           SessionId(c) \in DOMAIN told' => r.serverId = SessionId(c),
           q = <<>> => (SessionId(c) \in DOMAIN told' => told'[SessionId(c)] = (r.link = "up")),
           q # <<>> => SaysLink(Last(q), r.link)
    PROVE  UsabilityInv'
  <1>1. /\ Len(clients') = Len(clients) /\ Len(clients) \in Nat /\ Len(clients) <= MaxOpens
        /\ \A i \in 1 .. Len(clients) : clients'[i] = IF i = c THEN r ELSE clients[i]
    BY ClientChanged DEF Good, SessionTypes
  <1>2. /\ pending' \in [1 .. MaxOpens -> Seq(Statuses)]
        /\ \A d \in 1 .. MaxOpens : pending'[d] = IF d = c THEN q ELSE pending[d]
    BY DEF UsabilityInv
  <1> SUFFICES ASSUME NEW d \in 1 .. MaxOpens
               PROVE  IF d <= Len(clients) THEN ClientUsability(d)' ELSE NoClient(d)'
    BY <1>1, <1>2 DEF UsabilityInv
  <1>3. CASE d = c
    <2>1. clients'[d] = r /\ pending'[d] = q /\ d <= Len(clients)
      BY <1>1, <1>2, <1>3
    <2> QED
      BY <1>3, <2>1 DEF ClientUsability
  <1>4. CASE d # c /\ d <= Len(clients)
    <2>1. clients'[d] = clients[d] /\ pending'[d] = pending[d] /\ ClientUsability(d)
      BY <1>1, <1>2, <1>4 DEF UsabilityInv
    <2> QED
      BY <1>4, <2>1 DEF ClientUsability
  <1>5. CASE d # c /\ ~(d <= Len(clients))
    <2>1. pending'[d] = pending[d] /\ NoClient(d)
      BY <1>2, <1>5 DEF UsabilityInv
    <2> QED
      BY <1>5, <2>1 DEF NoClient
  <1> QED
    BY <1>3, <1>4, <1>5

(* What one change tells Java: something of the session it is a change of, *)
(* if Java knows that one by its own id, and nothing of the others.        *)
LEMMA Told ==
    ASSUME Good, UsabilityInv, NEW c \in 1 .. Len(clients), NEW status, TellJava(c, status)
    PROVE  /\ \A d \in 1 .. MaxOpens : d # c =>
                  /\ SessionId(d) \in DOMAIN told' <=> SessionId(d) \in DOMAIN told
                  /\ SessionId(d) \in DOMAIN told => told'[SessionId(d)] = told[SessionId(d)]
           /\ SessionId(c) \in DOMAIN told' => clients[c].serverId = SessionId(c)
           /\ (status \in DOMAIN Usable /\ SessionId(c) \in DOMAIN told')
                 => told'[SessionId(c)] = Usable[status]
  <1>1. Len(clients) \in Nat /\ Len(clients) <= MaxOpens /\ c \in 1 .. MaxOpens
    BY DEF Good, SessionTypes
  <1>2. ClientUsability(c)
    BY <1>1 DEF UsabilityInv
  <1>3. CASE status \notin DOMAIN Usable
    <2>1. told' = told
      BY <1>3 DEF TellJava
    <2> QED
      BY <1>2, <1>3, <2>1 DEF ClientUsability
  <1>4. CASE status \in DOMAIN Usable
    <2> DEFINE id == clients[c].serverId
    <2>1. told' = [i \in DOMAIN told \cup {id} |-> IF i = id THEN Usable[status] ELSE told[i]]
      BY <1>4 DEF TellJava
    <2>2. id \in {HostId, SessionId(c)} /\ (SessionId(c) \in DOMAIN told => id = SessionId(c))
      BY <1>2 DEF ClientUsability
    <2> HIDE DEF id
    <2>3. DOMAIN told' = DOMAIN told \cup {id}
      BY <2>1
    <2>4. ASSUME NEW d \in 1 .. MaxOpens, d # c
          PROVE  /\ SessionId(d) \in DOMAIN told' <=> SessionId(d) \in DOMAIN told
                 /\ SessionId(d) \in DOMAIN told => told'[SessionId(d)] = told[SessionId(d)]
      <3>1. SessionId(d) # id
        BY <2>2, <2>4, IdsDistinct
      <3>2. SessionId(d) \in DOMAIN told' <=> SessionId(d) \in DOMAIN told
        BY <2>3, <3>1
      <3> QED
        BY <2>1, <3>1, <3>2
    <2>5. SessionId(c) \in DOMAIN told' => id = SessionId(c)
      BY <2>2, <2>3
    <2>6. SessionId(c) \in DOMAIN told' => told'[SessionId(c)] = Usable[status]
      BY <2>1, <2>3, <2>5
    <2> QED
      BY <2>4, <2>5, <2>6 DEF id
  <1> QED
    BY <1>3, <1>4

LEMMA ChangeAppended ==
    ASSUME NEW q \in Seq(Statuses), NEW status \in Statuses
    PROVE  /\ Append(q, status) \in Seq(Statuses) /\ Append(q, status) # <<>>
           /\ Last(Append(q, status)) = status
  BY DEF Last

LEMMA ChangesAppended ==
    ASSUME NEW q \in Seq(Statuses),
           NEW statuses \in {<<"Connected">>, <<"NewSessionCreated", "Connected">>}
    PROVE  /\ q \o statuses \in Seq(Statuses) /\ q \o statuses # <<>>
           /\ Last(q \o statuses) = "Connected"
  <1>1. "Connected" \in Statuses /\ "NewSessionCreated" \in Statuses
    BY UsableStatuses DEF Statuses
  <1>2. statuses \in Seq(Statuses) /\ Len(statuses) > 0 /\ statuses[Len(statuses)] = "Connected"
    <2>1. CASE statuses = <<"Connected">>
      BY <1>1, <2>1
    <2>2. CASE statuses = <<"NewSessionCreated", "Connected">>
      BY <1>1, <2>2
    <2> QED
      BY <2>1, <2>2
  <1>3. /\ q \o statuses \in Seq(Statuses) /\ Len(q \o statuses) = Len(q) + Len(statuses)
        /\ (q \o statuses)[Len(q) + Len(statuses)] = statuses[Len(statuses)]
    BY <1>2
  <1> QED
    BY <1>2, <1>3 DEF Last

LEMMA ConnectedUsability ==
    ASSUME Good, UsabilityInv, Connected
    PROVE  UsabilityInv'
  <1> DEFINE r == [clients[server] EXCEPT !.session = "connected", !.link = "up"]
             q == Append(pending[server], "Connected")
  <1>1. pc = "connect" /\ told' = told
    BY DEF Connected
  <1>2. /\ server \in 1 .. Len(clients) /\ clients[server] \in Clients
        /\ server \in 1 .. MaxOpens /\ Len(clients) \in Nat
    BY <1>1, ClientInUse
  <1>3. clients' = [clients EXCEPT ![server] = r] /\ pending' = [pending EXCEPT ![server] = q]
    BY <1>2 DEF Connected, Good, SessionTypes
  <1>4. r \in Clients /\ r.link = "up" /\ r.serverId = clients[server].serverId
    <2>1. r \in Clients
      BY <1>2, ClientUpdated
    <2> QED
      BY <1>2, <2>1 DEF Clients
  <1>5. pending[server] \in Seq(Statuses) /\ ClientUsability(server)
    BY <1>2 DEF UsabilityInv
  <1>6. q \in Seq(Statuses) /\ q # <<>> /\ SaysLink(Last(q), "up")
    BY <1>5, ChangeAppended, UsableStatuses DEF Statuses
  <1> HIDE DEF r, q
  <1>7. /\ r.serverId \in {HostId, SessionId(server)}
        /\ SessionId(server) \in DOMAIN told' => r.serverId = SessionId(server)
    BY <1>1, <1>4, <1>5 DEF ClientUsability
  <1> QED
    BY <1>1, <1>2, <1>3, <1>4, <1>6, <1>7, UsabilityOfOne

LEMMA LinkUsability ==
    ASSUME Good, UsabilityInv, NEW c \in 1 .. Len(clients), NEW l \in {"up", "down"},
           NEW q \in Seq(Statuses), q # <<>>, SaysLink(Last(q), l),
           clients' = [clients EXCEPT ![c].link = l], pending' = [pending EXCEPT ![c] = q],
           told' = told
    PROVE  UsabilityInv'
  <1> DEFINE r == [clients[c] EXCEPT !.link = l]
  <1>1. clients[c] \in Clients /\ c \in 1 .. MaxOpens /\ c <= Len(clients)
    BY DEF Good, SessionTypes
  <1>2. r \in Clients /\ r.link = l /\ r.serverId = clients[c].serverId
    <2>1. r \in Clients
      BY <1>1, ClientUpdated
    <2> QED
      BY <1>1, <2>1 DEF Clients
  <1>3. clients' = [clients EXCEPT ![c] = r]
    OBVIOUS
  <1>4. ClientUsability(c)
    BY <1>1 DEF UsabilityInv
  <1> HIDE DEF r
  <1>5. /\ r.serverId \in {HostId, SessionId(c)}
        /\ SessionId(c) \in DOMAIN told' => r.serverId = SessionId(c)
    BY <1>2, <1>4 DEF ClientUsability
  <1> QED
    BY <1>2, <1>3, <1>5, UsabilityOfOne

LEMMA LinkLostUsability ==
    ASSUME Good, UsabilityInv, NEW c \in 1 .. Len(clients),
           NEW status \in {"WatchdogTimeout", "ApiReconnect", "ServerShutdown"},
           LinkLost(c, status)
    PROVE  UsabilityInv'
  <1> DEFINE q == Append(pending[c], status)
  <1>1. /\ clients' = [clients EXCEPT ![c].link = "down"] /\ told' = told
        /\ pending' = [pending EXCEPT ![c] = q]
    BY DEF LinkLost
  <1>2. c \in 1 .. MaxOpens
    BY DEF Good, SessionTypes
  <1>3. pending[c] \in Seq(Statuses) /\ status \in Statuses
    BY <1>2, UsableStatuses DEF UsabilityInv, Statuses
  <1>4. q \in Seq(Statuses) /\ q # <<>> /\ SaysLink(Last(q), "down")
    BY <1>3, ChangeAppended, UsableStatuses
  <1> HIDE DEF q
  <1> QED
    BY <1>1, <1>4, LinkUsability

LEMMA LinkBackUsability ==
    ASSUME Good, UsabilityInv, NEW c \in 1 .. Len(clients),
           NEW statuses \in {<<"Connected">>, <<"NewSessionCreated", "Connected">>},
           LinkBack(c, statuses)
    PROVE  UsabilityInv'
  <1> DEFINE q == pending[c] \o statuses
  <1>1. /\ clients' = [clients EXCEPT ![c].link = "up"] /\ told' = told
        /\ pending' = [pending EXCEPT ![c] = q]
    BY DEF LinkBack
  <1>2. c \in 1 .. MaxOpens
    BY DEF Good, SessionTypes
  <1>3. pending[c] \in Seq(Statuses)
    BY <1>2 DEF UsabilityInv
  <1>4. q \in Seq(Statuses) /\ q # <<>> /\ SaysLink(Last(q), "up")
    BY <1>3, ChangesAppended, UsableStatuses
  <1> HIDE DEF q
  <1> QED
    BY <1>1, <1>4, LinkUsability

(* A session that was closed: what waited of it is told no more, and the   *)
(* last that Java was told is that it cannot be used.                      *)
LEMMA CloseUsability ==
    ASSUME Good, UsabilityInv, CloseDisconnects
    PROVE  UsabilityInv'
  <1> DEFINE r == [clients[server] EXCEPT !.session = "none", !.link = "none",
                                          !.isListening = FALSE]
             q == <<>>
  <1>1. isOpened /\ TellJava(server, "Disconnected")
    BY DEF CloseDisconnects
  <1>2. /\ server \in 1 .. Len(clients) /\ clients[server] \in Clients
        /\ server \in 1 .. MaxOpens /\ Len(clients) \in Nat
    BY <1>1, ClientInUse
  <1>3. clients' = [clients EXCEPT ![server] = r] /\ pending' = [pending EXCEPT ![server] = q]
    BY <1>2 DEF CloseDisconnects, Good, SessionTypes
  <1>4. r \in Clients /\ r.link = "none" /\ r.serverId = clients[server].serverId
    <2>1. r \in Clients
      BY <1>2, ClientUpdated
    <2> QED
      BY <1>2, <2>1 DEF Clients
  <1>5. ClientUsability(server)
    BY <1>2 DEF UsabilityInv
  <1> HIDE DEF r
  <1>6. \A d \in 1 .. MaxOpens : d # server =>
            /\ SessionId(d) \in DOMAIN told' <=> SessionId(d) \in DOMAIN told
            /\ SessionId(d) \in DOMAIN told => told'[SessionId(d)] = told[SessionId(d)]
    BY <1>1, <1>2, Told
  <1>7. SessionId(server) \in DOMAIN told' => /\ r.serverId = SessionId(server)
                                              /\ told'[SessionId(server)] = (r.link = "up")
    BY <1>1, <1>2, <1>4, Told, UsableStatuses
  <1>8. r.serverId \in {HostId, SessionId(server)} /\ q \in Seq(Statuses)
    BY <1>4, <1>5 DEF ClientUsability
  <1> HIDE DEF q
  <1>9. q = <<>>
    BY DEF q
  <1> QED
    BY <1>2, <1>3, <1>4, <1>6, <1>7, <1>8, <1>9, UsabilityOfOne

(* A change that is told: if it was the last, it says whether the link is  *)
(* up; if not, the last still waits.                                       *)
LEMMA StatusUsability ==
    ASSUME Good, UsabilityInv, NEW c \in 1 .. Len(clients), ConnectionStatusChanged(c)
    PROVE  UsabilityInv'
  <1> DEFINE r == clients[c]
             s == pending[c]
             q == Tail(s)
  <1>1. s # <<>> /\ TellJava(c, Head(s)) /\ pending' = [pending EXCEPT ![c] = q]
        /\ clients' = clients
    BY DEF ConnectionStatusChanged
  <1>2. r \in Clients /\ clients \in Seq(Clients) /\ c \in 1 .. MaxOpens /\ c <= Len(clients)
    BY DEF Good, SessionTypes
  <1>3. s \in Seq(Statuses) /\ ClientUsability(c)
    BY <1>2 DEF UsabilityInv
  <1>4. clients' = [clients EXCEPT ![c] = r]
    BY <1>1, <1>2
  <1>5. r.serverId \in {HostId, SessionId(c)} /\ SaysLink(Last(s), r.link)
    BY <1>1, <1>3 DEF ClientUsability
  <1> HIDE DEF r
  <1>6. /\ \A d \in 1 .. MaxOpens : d # c =>
               /\ SessionId(d) \in DOMAIN told' <=> SessionId(d) \in DOMAIN told
               /\ SessionId(d) \in DOMAIN told => told'[SessionId(d)] = told[SessionId(d)]
        /\ SessionId(c) \in DOMAIN told' => r.serverId = SessionId(c)
        /\ (Head(s) \in DOMAIN Usable /\ SessionId(c) \in DOMAIN told')
              => told'[SessionId(c)] = Usable[Head(s)]
    BY <1>1, Told DEF r
  <1> HIDE DEF s
  <1>7. q \in Seq(Statuses) /\ (q = <<>> => Last(s) = Head(s)) /\ (q # <<>> => Last(q) = Last(s))
    <2>1. Len(s) \in Nat \ {0} /\ q \in Seq(Statuses) /\ Len(q) = Len(s) - 1
      BY <1>1, <1>3
    <2>2. q # <<>> => Len(q) > 0 /\ q[Len(q)] = s[Len(s)]
      BY <1>3, <2>1
    <2> HIDE DEF q
    <2>3. q = <<>> => Len(s) = 1
      BY <2>1
    <2> QED
      BY <1>3, <2>1, <2>2, <2>3 DEF Last
  <1>8. q = <<>> => (SessionId(c) \in DOMAIN told' => told'[SessionId(c)] = (r.link = "up"))
    BY <1>5, <1>6, <1>7 DEF SaysLink
  <1>9. q # <<>> => SaysLink(Last(q), r.link)
    BY <1>5, <1>7
  <1> HIDE DEF q
  <1> QED
    BY <1>1, <1>2, <1>4, <1>5, <1>6, <1>7, <1>8, <1>9, UsabilityOfOne

(* Steps of the Java thread that no change of a session comes with.        *)
LEMMA OtherUsability ==
    ASSUME Good, UsabilityInv,
           \/ Tick \/ Refused \/ UseWithoutSession \/ CloseFails \/ CloseWithoutSession
    PROVE  UsabilityInv'
  <1>1. UNCHANGED <<clients, pending, told>>
    BY DEF Tick, Refused, UseWithoutSession, CloseFails, CloseWithoutSession
  <1> QED
    BY <1>1, UsabilityKept

LEMMA OpenUsability ==
    ASSUME Good, UsabilityInv, Open \/ OpenWithoutHost
    PROVE  UsabilityInv'
  <1> DEFINE r == [NewClient EXCEPT !.session = "connecting"]
  <1>1. UNCHANGED <<pending, told>> /\ clients' \in {Append(clients, NewClient), Append(clients, r)}
    BY DEF Open, OpenWithoutHost
  <1>2. NewClient.serverId = HostId /\ r.serverId = HostId
    BY DEF NewClient
  <1>3. NewClient \in Clients /\ r \in Clients
    BY NewClientTyped
  <1> HIDE DEF r
  <1> QED
    BY <1>1, <1>2, <1>3, UsabilityOfNew

LEMMA UpdatedKeeps ==
    ASSUME Good, server \in 1 .. Len(clients), UsabilityInv, UNCHANGED <<pending, told>>,
           NEW r \in Clients, r.link = clients[server].link,
           r.serverId \in {clients[server].serverId, SessionId(server)},
           clients' = [clients EXCEPT ![server] = r]
    PROVE  UsabilityInv'
  <1>1. /\ Len(clients') = Len(clients)
        /\ \A i \in 1 .. Len(clients) : clients'[i] = IF i = server THEN r ELSE clients[i]
    BY ClientChanged DEF Good, SessionTypes
  <1>2. \A c \in 1 .. MaxOpens : c <= Len(clients) =>
            /\ clients'[c].link = clients[c].link
            /\ clients'[c].serverId \in {clients[c].serverId, SessionId(c)}
    BY <1>1 DEF Good, SessionTypes
  <1> QED
    BY <1>1, <1>2, UsabilityKept

LEMMA WakeUsability ==
    ASSUME Good, UsabilityInv, Wake
    PROVE  UsabilityInv'
  <1>1. pc = "sleep" /\ UNCHANGED <<pending, told>> /\ Attempt(server, clock, remainingTimeout)
    BY DEF Wake
  <1>2. server \in 1 .. Len(clients) /\ clients[server] \in Clients
    BY <1>1, ClientInUse
  <1>3. PICK s \in {"none", "connecting"} : clients' = [clients EXCEPT ![server].session = s]
    BY <1>1 DEF Attempt
  <1> DEFINE r == [clients[server] EXCEPT !.session = s]
  <1>4. r \in Clients /\ r.link = clients[server].link /\ r.serverId = clients[server].serverId
    <2>1. r \in Clients
      BY <1>2, ClientUpdated
    <2> QED
      BY <1>2, <2>1 DEF Clients
  <1>5. clients' = [clients EXCEPT ![server] = r]
    BY <1>3
  <1> HIDE DEF r
  <1> QED
    BY <1>1, <1>2, <1>4, <1>5, UpdatedKeeps

LEMMA OpenedUsability ==
    ASSUME Good, UsabilityInv, Opened
    PROVE  UsabilityInv'
  <1> DEFINE r == [clients[server] EXCEPT !.isListening = TRUE, !.serverId = SessionId(server)]
  <1>1. pc = "connected" /\ UNCHANGED <<pending, told>>
    BY DEF Opened
  <1>2. server \in 1 .. Len(clients) /\ clients[server] \in Clients /\ server \in 1 .. MaxOpens
    BY <1>1, ClientInUse
  <1>3. clients' = [clients EXCEPT ![server] = r]
    BY <1>2 DEF Opened, Good, SessionTypes
  <1>4. r \in Clients /\ r.link = clients[server].link /\ r.serverId = SessionId(server)
    <2>1. r \in Clients
      BY <1>2, ClientUpdated
    <2> QED
      BY <1>2, <2>1 DEF Clients
  <1> HIDE DEF r
  <1> QED
    BY <1>1, <1>2, <1>3, <1>4, UpdatedKeeps

LEMMA StepKeepsUsability ==
    ASSUME Good, UsabilityInv, [Next]_vars
    PROVE  UsabilityInv'
  <1>1. CASE UNCHANGED vars
    BY <1>1, UsabilityKept DEF vars
  <1>2. CASE Open \/ OpenWithoutHost
    BY <1>2, OpenUsability
  <1>3. CASE Tick \/ Refused \/ UseWithoutSession \/ CloseFails \/ CloseWithoutSession
    BY <1>3, OtherUsability
  <1>4. CASE Connected
    BY <1>4, ConnectedUsability
  <1>5. CASE Wake
    BY <1>5, WakeUsability
  <1>6. CASE Opened
    BY <1>6, OpenedUsability
  <1>7. CASE CloseDisconnects
    BY <1>7, CloseUsability
  <1>8. CASE Sdk
    BY <1>8, LinkLostUsability, LinkBackUsability, StatusUsability DEF Sdk
  <1> QED
    BY <1>1, <1>2, <1>3, <1>4, <1>5, <1>6, <1>7, <1>8 DEF Next

LEMMA InitUsability ==
    ASSUME Init
    PROVE  UsabilityInv
  <1>1. Len(clients) = 0 /\ DOMAIN told = {}
    BY DEF Init
  <1>2. /\ pending \in [1 .. MaxOpens -> Seq(Statuses)]
        /\ \A c \in 1 .. MaxOpens : pending[c] = <<>>
    BY DEF Init
  <1> QED
    BY <1>1, <1>2 DEF UsabilityInv, NoClient

(* However the link of a session comes and goes, whenever the changes are  *)
(* reported and whenever the session is closed or another one opened: when *)
(* nothing more waits to be reported, what Java was told of a session last *)
(* is true.                                                                *)
THEOREM UsabilityTrueCorrect == Spec => []UsabilityTrue
  <1>1. Good /\ UsabilityInv => UsabilityTrue
    <2> SUFFICES ASSUME Good, UsabilityInv, NEW c \in 1 .. Len(clients),
                        SessionId(c) \in DOMAIN told, pending[c] = <<>>
                 PROVE  told[SessionId(c)] = (clients[c].link = "up")
      BY DEF UsabilityTrue
    <2>1. c \in 1 .. MaxOpens /\ c <= Len(clients)
      BY SessionAssumption DEF Good, SessionTypes
    <2>2. ClientUsability(c)
      BY <2>1 DEF UsabilityInv
    <2> QED
      BY <2>2 DEF ClientUsability
  <1>2. Init => UsabilityInv
    BY InitUsability
  <1> QED
    BY <1>1, <1>2, SessionInvariant, StepKeepsUsability, PTL DEF Spec

=============================================================================
