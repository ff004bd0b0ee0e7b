------------------------- MODULE AgentRegistryProofs -------------------------
(***************************************************************************)
(* What a pod's own view of the agent is worth, for any number of pods,    *)
(* connections, faults and messages.                                       *)
(***************************************************************************)
EXTENDS AgentRegistry, TLAPS

(* What ListedHasRoute needs to be inductive: an entry that names its own pod
   is backed by a socket, and a listed agent has some route. *)
SelfRouteIsReal ==
  \A p \in Pods : podMap[p] = p => conns[p] # None \/ Registering(p)

ListedIsRouted ==
  \A p \in Pods : listed[p] => conns[p] # None \/ podMap[p] # None

(* The connection a pod holds is one that it serves, and only pods that are up
   serve connections. *)
SocketsOnUp ==
  /\ \A p \in Pods : conns[p] # None => st[conns[p]] = "serving" /\ at[conns[p]] = p
  /\ \A c \in Conns : st[c] \notin {"unused", "gone"} => phase[at[c]] = "up"

LocalView == HeldIsListed /\ SelfRouteIsReal /\ ListedIsRouted /\ SocketsOnUp

(* An event of another pod, in a pod's inbox, names a pod. *)
LEMMA HeadIsMessage ==
  ASSUME TypeOK, NEW p \in Pods, inbox[p] # <<>>
  PROVE  Head(inbox[p]) \in Messages /\ Tail(inbox[p]) \in Seq(Messages)
BY DEF TypeOK

(* Publishing and forwarding keep the inboxes well formed. *)
LEMMA InboxTypes ==
  ASSUME TypeOK
  PROVE  /\ \A p \in Pods : /\ Published(Connect(p)) \in [Pods -> Seq(Messages)]
                            /\ Published(Disconnect(p)) \in [Pods -> Seq(Messages)]
         /\ \A p \in Pods : ForwardedTo(p) \in [Pods -> Seq(Messages)]
<1>1. \A m \in Messages, p \in Pods : Append(inbox[p], m) \in Seq(Messages)
  BY DEF TypeOK
<1>2. Forward \in Messages /\ \A p \in Pods : Connect(p) \in Messages /\ Disconnect(p) \in Messages
  BY DEF Messages
<1> QED BY <1>1, <1>2 DEF TypeOK, Published, ForwardedTo

(* The steps of a connection's handler keep the types. *)
LEMMA ConnStepTyped ==
  ASSUME TypeOK, NEW c \in Conns, ConnStep(c)
  PROVE  TypeOK'
<1> USE RegistryAssumption DEF TypeOK, forwards, history, memory, redis
<1>1. ASSUME NEW p \in Pods, Register(c, p) PROVE TypeOK'
  <2>1. (raced \/ ~Delivered) \in BOOLEAN
    OBVIOUS
  <2> QED BY <1>1, <2>1 DEF Register
<1>2. CASE SetConnection(c)
  BY <1>2 DEF SetConnection
<1>3. CASE UnregisterConn(c)
  BY <1>3 DEF UnregisterConn, MarkDisconnected
<1>4. CASE DelPresence(c)
  <2>1. faults' \in Nat /\ presence' \in Pods \cup {None}
    BY <1>4 DEF DelPresence, Fault
  <2> QED BY <1>4, <2>1 DEF DelPresence
<1>5. CASE PublishDisconnect(c)
  <2>1. faults' \in Nat
    BY <1>5 DEF PublishDisconnect, Fault
  <2>2. inbox' \in [Pods -> Seq(Messages)]
    BY <1>5, InboxTypes DEF PublishDisconnect
  <2> QED BY <1>5, <2>1, <2>2 DEF PublishDisconnect
<1> QED BY <1>1, <1>2, <1>3, <1>4, <1>5 DEF ConnStep

(* The steps of a pod's goroutines and of its faults keep the types. *)
LEMMA PodStepTyped ==
  ASSUME TypeOK, NEW p \in Pods, PodStep(p)
  PROVE  TypeOK'
<1> USE RegistryAssumption DEF TypeOK, forwards, history, memory, redis, sockets
<1>1. CASE SetPresence(p)
  <2>1. faults' \in Nat /\ announcing' \in [Pods -> Nat] /\ presence' \in Pods \cup {None}
    BY <1>1 DEF SetPresence, Fault
  <2>2. setting[p] - 1 \in Nat
    BY <1>1 DEF SetPresence
  <2>3. setting' \in [Pods -> Nat]
    BY <1>1, <2>2 DEF SetPresence
  <2> QED BY <1>1, <2>1, <2>3 DEF SetPresence
<1>2. CASE PublishConnect(p)
  <2>1. faults' \in Nat
    BY <1>2 DEF PublishConnect, Fault
  <2>2. inbox' \in [Pods -> Seq(Messages)]
    BY <1>2, InboxTypes DEF PublishConnect
  <2>3. announcing[p] - 1 \in Nat
    BY <1>2 DEF PublishConnect
  <2>4. announcing' \in [Pods -> Nat]
    BY <1>2, <2>3 DEF PublishConnect
  <2> QED BY <1>2, <2>1, <2>2, <2>4 DEF PublishConnect
<1>3. CASE HandleConnect(p)
  <2>1. Head(inbox[p]) \in Messages /\ Head(inbox[p]).type = "connect"
    BY <1>3, HeadIsMessage DEF HandleConnect, Received
  <2>2. Head(inbox[p]).pod \in Pods
    BY <2>1 DEF Messages, Connect, Disconnect, Forward
  <2>3. inbox' \in [Pods -> Seq(Messages)]
    BY <1>3, HeadIsMessage DEF HandleConnect, Received
  <2>4. listed' \in [Pods -> BOOLEAN] /\ podMap' \in [Pods -> Pods \cup {None}] /\ conns' = conns
    BY <1>3, <2>2 DEF HandleConnect
  <2> QED BY <1>3, <2>3, <2>4 DEF HandleConnect
<1>4. CASE HandleDisconnect(p)
  <2>1. inbox' \in [Pods -> Seq(Messages)]
    BY <1>4, HeadIsMessage DEF HandleDisconnect, Received
  <2>2. listed' \in [Pods -> BOOLEAN] /\ podMap' \in [Pods -> Pods \cup {None}] /\ conns' = conns
    BY <1>4 DEF HandleDisconnect
  <2> QED BY <1>4, <2>1, <2>2 DEF HandleDisconnect
<1>5. CASE HandleForward(p)
  <2>1. Tail(inbox[p]) \in Seq(Messages) /\ Forward \in Messages
    BY <1>5, HeadIsMessage DEF HandleForward, Received, Messages
  <2>2. \A s \in Seq(Messages) : Append(s, Forward) \in Seq(Messages)
    BY <2>1
  <2> DEFINE rest == [inbox EXCEPT ![p] = Tail(@)]
  <2>5. rest \in [Pods -> Seq(Messages)]
    BY <2>1
  <2>6. \A q \in Pods : [rest EXCEPT ![q] = Append(@, Forward)] \in [Pods -> Seq(Messages)]
    BY <2>2, <2>5
  <2>3. inbox' \in [Pods -> Seq(Messages)]
    <3>1. CASE ~Forwardable(p)
      BY <1>5, <2>5, <3>1 DEF HandleForward
    <3>2. CASE Forwardable(p)
      <4>1. podMap[p] \in Pods
        BY <3>2 DEF Forwardable
      <4>2. \/ inbox' = rest
            \/ inbox' = [rest EXCEPT ![podMap[p]] = Append(@, Forward)]
        BY <1>5, <3>2 DEF HandleForward
      <4> HIDE DEF rest
      <4> QED BY <2>5, <2>6, <4>1, <4>2
    <3> QED BY <3>1, <3>2
  <2>4. visited' \subseteq Pods
    BY <1>5 DEF HandleForward
  <2> QED BY <1>5, <2>3, <2>4 DEF HandleForward
<1>6. CASE SendRemote(p)
  <2>1. podMap[p] \in Pods
    BY <1>6 DEF SendRemote, Forwardable
  <2>2. inbox' \in [Pods -> Seq(Messages)]
    BY <1>6, <2>1, InboxTypes DEF SendRemote
  <2> QED BY <1>6, <2>2 DEF SendRemote
<1>7. CASE LoseEvent(p)
  <2>1. inbox' \in [Pods -> Seq(Messages)] /\ faults' \in Nat
    BY <1>7, HeadIsMessage DEF LoseEvent, Fault
  <2> QED BY <1>7, <2>1 DEF LoseEvent
<1>8. CASE Crash(p)
  <2>1. inbox' \in [Pods -> Seq(Messages)]
    BY <1>8 DEF Crash
  <2>2. faults' \in Nat /\ link' \in Conns \cup {None}
    BY <1>8 DEF Crash, Fault
  <2> QED BY <1>8, <2>1, <2>2 DEF Crash, MarkDisconnected
<1>9. CASE SnapshotPresence(p)
  BY <1>9 DEF SnapshotPresence
<1>10. CASE Subscribe(p)
  BY <1>10 DEF Subscribe
<1> QED BY <1>1, <1>2, <1>3, <1>4, <1>5, <1>6, <1>7, <1>8, <1>9, <1>10 DEF PodStep

(* TypeOK holds in every reachable state. *)
THEOREM RegistryTyped == Spec => []TypeOK
<1>1. Init => TypeOK
  <2> SUFFICES ASSUME Init PROVE TypeOK
    OBVIOUS
  <2>1. <<>> \in Seq(Messages)
    OBVIOUS
  <2>2. inbox \in [Pods -> Seq(Messages)]
    BY <2>1 DEF Init
  <2>3. /\ phase \in [Pods -> {"down", "loaded", "up"}]
        /\ conns \in [Pods -> Conns \cup {None}] /\ listed \in [Pods -> BOOLEAN]
        /\ podMap \in [Pods -> Pods \cup {None}] /\ presence \in Pods \cup {None}
        /\ setting \in [Pods -> Nat] /\ announcing \in [Pods -> Nat]
    BY DEF Init
  <2>4. /\ st \in [Conns -> {"unused", "registered", "serving", "deleting", "leaving", "gone"}]
        /\ at \in [Conns -> Pods \cup {None}] /\ \A c \in Conns : st[c] = "unused"
    BY DEF Init
  <2> QED BY <2>2, <2>3, <2>4 DEF Init, TypeOK
<1>2. TypeOK /\ [Next]_vars => TypeOK'
  <2> SUFFICES ASSUME TypeOK, [Next]_vars PROVE TypeOK'
    OBVIOUS
  <2>1. CASE LinkLost
    BY <2>1 DEF LinkLost, TypeOK, forwards, history, memory, redis
  <2>2. CASE ExpirePresence
    BY <2>2 DEF ExpirePresence, TypeOK, forwards, history, memory, sockets
  <2>3. CASE UNCHANGED vars
    BY <2>3 DEF vars, TypeOK, forwards, history, memory, redis, sockets
  <2> QED BY <2>1, <2>2, <2>3, ConnStepTyped, PodStepTyped DEF Next
<1> QED BY <1>1, <1>2, PTL DEF Spec

-----------------------------------------------------------------------------
(* A pod lists the agent when it holds a connection, and only when a message
   has somewhere to go.  The event of another pod never names this one, and a
   disconnect elsewhere does not touch a pod that holds a connection. *)
LEMMA LocalViewStep ==
  ASSUME TypeOK, LocalView, [Next]_vars
  PROVE  LocalView'
<1> USE RegistryAssumption
    DEF TypeOK, LocalView, HeldIsListed, SelfRouteIsReal, ListedIsRouted, SocketsOnUp
<1>1. ASSUME NEW c \in Conns, NEW p \in Pods, Register(c, p) PROVE LocalView'
  <2>1. Registering(p)'
    BY <1>1 DEF Register, Registering
  <2>2. \A q \in Pods : Registering(q) => Registering(q)'
    BY <1>1 DEF Register, Registering
  <2> QED BY <1>1, <2>1, <2>2 DEF Register
<1>2. ASSUME NEW c \in Conns, SetConnection(c) PROVE LocalView'
  <2>1. \A q \in Pods : q # at[c] /\ Registering(q) => Registering(q)'
    BY <1>2 DEF SetConnection, Registering
  <2> QED BY <1>2, <2>1 DEF SetConnection
<1>3. ASSUME NEW c \in Conns, UnregisterConn(c) PROVE LocalView'
  <2>1. \A q \in Pods : Registering(q) => Registering(q)'
    BY <1>3 DEF UnregisterConn, Registering
  <2>2. at[c] \in Pods /\ phase' = phase /\ at' = at
    BY <1>3 DEF UnregisterConn
  <2>3. SocketsOnUp'
    BY <1>3, <2>2 DEF UnregisterConn, MarkDisconnected, Superseded, memory
  <2>4. CASE UNCHANGED memory
    BY <2>1, <2>3, <2>4 DEF memory
  <2>5. CASE MarkDisconnected(at[c])
    BY <2>1, <2>2, <2>3, <2>5 DEF MarkDisconnected
  <2> QED BY <1>3, <2>4, <2>5 DEF UnregisterConn
<1>4. ASSUME NEW c \in Conns, DelPresence(c) \/ PublishDisconnect(c) PROVE LocalView'
  <2>1. \A q \in Pods : Registering(q) => Registering(q)'
    BY <1>4 DEF DelPresence, PublishDisconnect, Registering
  <2> QED BY <1>4, <2>1 DEF DelPresence, PublishDisconnect, memory
<1>5. ASSUME NEW p \in Pods, HandleConnect(p) PROVE LocalView'
  <2>1. \A q \in Pods : Registering(q) => Registering(q)'
    BY <1>5 DEF HandleConnect, Registering, sockets
  <2>2. Head(inbox[p]) \in Messages /\ Head(inbox[p]).type = "connect"
    BY <1>5, HeadIsMessage DEF HandleConnect, Received
  <2>3. Head(inbox[p]).pod \in Pods
    BY <2>2 DEF Messages, Connect, Disconnect, Forward
  <2>4. phase' = phase /\ st' = st /\ at' = at
    BY <1>5 DEF HandleConnect, sockets
  <2>5. CASE UNCHANGED memory
    BY <2>1, <2>4, <2>5 DEF memory
  <2>6. CASE /\ Head(inbox[p]).pod # p /\ conns' = conns
             /\ listed' = [listed EXCEPT ![p] = TRUE]
             /\ podMap' = [podMap EXCEPT ![p] = Head(inbox[p]).pod]
    <3> DEFINE e == Head(inbox[p]).pod
    <3> HIDE DEF e
    <3>1. e \in Pods /\ e # p /\ podMap' = [podMap EXCEPT ![p] = e]
      BY <2>3, <2>6 DEF e
    <3> QED BY <2>1, <2>4, <2>6, <3>1
  <2> QED BY <1>5, <2>5, <2>6 DEF HandleConnect, IgnoredEvent
<1>6. ASSUME NEW p \in Pods, HandleDisconnect(p) PROVE LocalView'
  <2>1. \A q \in Pods : Registering(q) => Registering(q)'
    BY <1>6 DEF HandleDisconnect, Registering, sockets
  <2>2. phase' = phase /\ st' = st /\ at' = at
    BY <1>6 DEF HandleDisconnect, sockets
  <2>3. CASE UNCHANGED memory
    BY <2>1, <2>2, <2>3 DEF memory
  <2>4. CASE /\ conns[p] = None /\ conns' = conns
             /\ listed' = [listed EXCEPT ![p] = FALSE]
             /\ podMap' = [podMap EXCEPT ![p] = None]
    BY <2>1, <2>2, <2>4
  <2> QED BY <1>6, <2>3, <2>4 DEF HandleDisconnect, IgnoredEvent, Received
<1>7. ASSUME NEW p \in Pods, Crash(p) PROVE LocalView'
  <2>1. \A q \in Pods : q # p /\ Registering(q) => Registering(q)'
    BY <1>7 DEF Crash, Registering
  <2> QED BY <1>7, <2>1 DEF Crash, MarkDisconnected
<1>8. ASSUME NEW p \in Pods, SnapshotPresence(p) PROVE LocalView'
  <2>1. \A q \in Pods : Registering(q) => Registering(q)'
    BY <1>8 DEF SnapshotPresence, Registering, sockets
  <2>2. conns' = conns /\ st' = st /\ at' = at /\ phase[p] = "down"
    BY <1>8 DEF SnapshotPresence, sockets
  <2>3. conns[p] # None => phase[p] = "up"
    OBVIOUS
  <2>4. conns[p] = None /\ conns' = conns /\ st' = st /\ at' = at
    BY <2>2, <2>3
  <2>5. SocketsOnUp'
    <3>1. \A c \in Conns : st[c] \notin {"unused", "gone"} => at[c] # p /\ at[c] \in Pods
      BY <2>2
    <3>2. phase' = [phase EXCEPT ![p] = "loaded"]
      BY <1>8 DEF SnapshotPresence
    <3> QED BY <2>4, <3>1, <3>2
  <2>6. SelfRouteIsReal'
    BY <1>8, <2>1, <2>4 DEF SnapshotPresence
  <2>7. HeldIsListed'
    BY <1>8, <2>4 DEF SnapshotPresence
  <2>8. ListedIsRouted'
    <3>1. listed'[p] => presence \notin {None, p}
      BY <1>8 DEF SnapshotPresence
    <3>2. presence \notin {None, p} => podMap'[p] # None
      BY <1>8 DEF SnapshotPresence
    <3>3. \A q \in Pods : q # p => listed'[q] = listed[q] /\ podMap'[q] = podMap[q]
      BY <1>8 DEF SnapshotPresence
    <3> QED BY <2>4, <3>1, <3>2, <3>3
  <2> QED BY <2>5, <2>6, <2>7, <2>8
<1>9. ASSUME NEW p \in Pods, Subscribe(p) PROVE LocalView'
  <2>1. \A q \in Pods : Registering(q) => Registering(q)'
    BY <1>9 DEF Subscribe, Registering, sockets
  <2> QED BY <1>9, <2>1 DEF Subscribe, memory, sockets
<1>10. CASE UNCHANGED <<phase, memory, st, at>>
  <2>1. \A q \in Pods : Registering(q) => Registering(q)'
    BY <1>10 DEF Registering
  <2> QED BY <1>10, <2>1 DEF memory
<1>11. ASSUME NEW p \in Pods,
              \/ SetPresence(p) \/ PublishConnect(p) \/ HandleForward(p)
              \/ SendRemote(p) \/ LoseEvent(p)
       PROVE  UNCHANGED <<phase, memory, st, at>>
  BY <1>11 DEF SetPresence, PublishConnect, HandleForward, SendRemote, LoseEvent, sockets
<1>12. LinkLost \/ ExpirePresence \/ UNCHANGED vars => UNCHANGED <<phase, memory, st, at>>
  BY DEF LinkLost, ExpirePresence, vars, sockets
<1> QED BY <1>1, <1>2, <1>3, <1>4, <1>5, <1>6, <1>7, <1>8, <1>9, <1>10, <1>11, <1>12
        DEF Next, ConnStep, PodStep

THEOREM LocalViewHolds == Spec => []LocalView
<1>1. Init => LocalView
  BY RegistryAssumption
     DEF Init, LocalView, HeldIsListed, SelfRouteIsReal, ListedIsRouted, SocketsOnUp
<1>2. TypeOK /\ LocalView /\ [Next]_vars => LocalView'
  BY LocalViewStep
<1> QED BY <1>1, <1>2, RegistryTyped, PTL DEF Spec

(* HeldIsListed: a pod that holds a connection lists the agent. *)
THEOREM HolderLists == Spec => []HeldIsListed
<1>1. LocalView => HeldIsListed
  BY DEF LocalView
<1> QED BY <1>1, LocalViewHolds, PTL

(* ListedHasRoute: a listed agent can be sent to, as far as its pod knows. *)
THEOREM ListedCanBeSentTo == Spec => []ListedHasRoute
<1>1. LocalView => ListedHasRoute
  BY DEF LocalView, SelfRouteIsReal, ListedIsRouted, ListedHasRoute
<1> QED BY <1>1, LocalViewHolds, PTL

(* LiveSocketKept: nothing but the loss of the connection leaves a pod without
   the socket it shares with the agent.  A teardown spares it because the
   connection it tears down is not the agent's. *)
THEOREM LiveSocketSafe == Spec => LiveSocketKept
<1>1. TypeOK /\ LocalView /\ [Next]_vars
        => \A p \in Pods : conns[p] # None /\ conns[p] = link /\ link' = link => conns'[p] # None
  <2> SUFFICES ASSUME TypeOK, LocalView, [Next]_vars,
                      NEW p \in Pods, conns[p] # None, conns[p] = link, link' = link
               PROVE  conns'[p] # None
    OBVIOUS
  <2> USE RegistryAssumption DEF TypeOK
  <2>1. ASSUME NEW c \in Conns, NEW q \in Pods, Register(c, q) PROVE conns' = conns
    BY <2>1 DEF Register
  <2>2. ASSUME NEW c \in Conns, SetConnection(c) PROVE conns'[p] # None
    BY <2>2 DEF SetConnection
  <2>3. ASSUME NEW c \in Conns, UnregisterConn(c) PROVE conns'[p] # None
    BY <2>3 DEF UnregisterConn, Superseded, MarkDisconnected, memory
  <2>4. ASSUME NEW c \in Conns, DelPresence(c) \/ PublishDisconnect(c) PROVE conns' = conns
    BY <2>4 DEF DelPresence, PublishDisconnect, memory
  <2>5. ASSUME NEW q \in Pods, Crash(q) PROVE conns'[p] # None
    <3>1. at[link] = p
      BY DEF LocalView, SocketsOnUp
    <3> QED BY <2>5, <3>1 DEF Crash, MarkDisconnected
  <2>6. ASSUME NEW q \in Pods,
               \/ SetPresence(q) \/ PublishConnect(q) \/ HandleConnect(q) \/ HandleDisconnect(q)
               \/ HandleForward(q) \/ SendRemote(q) \/ LoseEvent(q)
               \/ SnapshotPresence(q) \/ Subscribe(q)
        PROVE  conns' = conns
    BY <2>6 DEF SetPresence, PublishConnect, HandleConnect, HandleDisconnect, HandleForward,
                SendRemote, LoseEvent, SnapshotPresence, Subscribe, memory
  <2>7. LinkLost \/ ExpirePresence \/ UNCHANGED vars => conns' = conns
    BY DEF LinkLost, ExpirePresence, vars, memory
  <2> QED BY <2>1, <2>2, <2>3, <2>4, <2>5, <2>6, <2>7 DEF Next, ConnStep, PodStep
<1> QED BY <1>1, RegistryTyped, LocalViewHolds, PTL DEF Spec, LiveSocketKept

-----------------------------------------------------------------------------
(* What the pods agree on, when no change overtakes another and nothing fails.
   Since the last connection came, the events are those of the pod h that took
   it: its connects, and after them at most its disconnect. *)
Calm == ~raced /\ faults = 0

Active(c) == st[c] \notin {"unused", "gone"}

\* Pod q knows nothing of the agent, or would forward to h.
Forgot(q) == ~listed[q] /\ podMap[q] = None
Knows(q, h) == listed[q] /\ podMap[q] = h

\* The agent is nowhere but on h.
OnlyOn(h) ==
  /\ \A q \in Pods : phase[q] = "up"
  /\ \A q \in Pods \ {h} : /\ setting[q] = 0 /\ announcing[q] = 0 /\ conns[q] = None
                           /\ Forgot(q) \/ Knows(q, h)
  /\ presence \in {None, h}
  /\ \A c, d \in Conns : Active(c) /\ Active(d) => c = d
  /\ \A c \in Conns : Active(c) => at[c] = h
  /\ link # None => st[link] \in {"registered", "serving"}

Ordered(s, h) ==
  \A i, j \in DOMAIN s : i < j /\ s[i] = Disconnect(h) => s[j] # Connect(h)

EventsOf(h) ==
  \A q \in Pods : /\ Range(inbox[q]) \subseteq {Forward, Connect(h), Disconnect(h)}
                  /\ Ordered(inbox[q], h)

Has(q, m) == m \in Range(inbox[q])

\* h has the agent, and once it has announced it every pod knows or will.
Holds(h) ==
  /\ \E c \in Conns : /\ st[c] \in {"registered", "serving"}
                      /\ conns[h] = IF st[c] = "serving" THEN c ELSE None
  /\ Knows(h, h)
  /\ \A q \in Pods : ~Has(q, Disconnect(h))
  /\ setting[h] = 0 /\ announcing[h] = 0
       => \A q \in Pods \ {h} : Knows(q, h) \/ Has(q, Connect(h))

Released(h) == conns[h] = None /\ Forgot(h) /\ setting[h] = 0 /\ announcing[h] = 0

\* h has lost the agent, and has not said so.
Leaves(h) ==
  /\ \E c \in Conns : /\ st[c] \in {"deleting", "leaving"}
                      /\ st[c] = "leaving" => presence = None
  /\ Released(h)
  /\ \A q \in Pods : ~Has(q, Disconnect(h))

\* The agent is nowhere, and every pod has forgotten it or will.
HasLeft(h) ==
  /\ \A c \in Conns : ~Active(c)
  /\ Released(h) /\ presence = None
  /\ \A q \in Pods \ {h} : Has(q, Disconnect(h)) \/ (Forgot(q) /\ ~Has(q, Connect(h)))

Home(h) == OnlyOn(h) /\ EventsOf(h) /\ (Holds(h) \/ Leaves(h) \/ HasLeft(h))

Tracked == Calm /\ Pods # {} => \E h \in Pods : Home(h)

-----------------------------------------------------------------------------
(* Events at the ends of an inbox. *)
LEMMA MessagesApart ==
  ASSUME NEW h \in Pods
  PROVE  /\ Connect(h) # Forward /\ Disconnect(h) # Forward /\ Connect(h) # Disconnect(h)
         /\ Connect(h) \in Messages /\ Disconnect(h) \in Messages /\ Forward \in Messages
BY DEF Connect, Disconnect, Forward, Messages

LEMMA RangeAppend ==
  ASSUME NEW s \in Seq(Messages), NEW m \in Messages
  PROVE  Range(Append(s, m)) = Range(s) \cup {m}
<1>1. /\ Append(s, m) \in Seq(Messages) /\ Len(Append(s, m)) = Len(s) + 1 /\ Len(s) \in Nat
      /\ \A i \in 1 .. Len(s) : Append(s, m)[i] = s[i]
      /\ Append(s, m)[Len(s) + 1] = m
  OBVIOUS
<1>2. DOMAIN Append(s, m) = 1 .. Len(s) + 1 /\ DOMAIN s = 1 .. Len(s)
  OBVIOUS
<1>3. DOMAIN Append(s, m) = DOMAIN s \cup {Len(s) + 1}
  BY <1>1, <1>2
<1> QED BY <1>1, <1>2, <1>3 DEF Range

LEMMA OrderedAppend ==
  ASSUME NEW s \in Seq(Messages), NEW h \in Pods, NEW m \in Messages, Ordered(s, h),
         m # Connect(h) \/ Disconnect(h) \notin Range(s)
  PROVE  Ordered(Append(s, m), h)
<1>1. /\ Append(s, m) \in Seq(Messages) /\ Len(Append(s, m)) = Len(s) + 1 /\ Len(s) \in Nat
      /\ \A i \in 1 .. Len(s) : Append(s, m)[i] = s[i]
      /\ Append(s, m)[Len(s) + 1] = m
  OBVIOUS
<1>2. DOMAIN Append(s, m) = 1 .. Len(s) + 1 /\ DOMAIN s = 1 .. Len(s)
  OBVIOUS
<1> SUFFICES ASSUME NEW i \in 1 .. Len(s) + 1, NEW j \in 1 .. Len(s) + 1, i < j,
                    Append(s, m)[i] = Disconnect(h)
             PROVE  Append(s, m)[j] # Connect(h)
  BY <1>2 DEF Ordered
<1>3. i \in DOMAIN s /\ s[i] = Disconnect(h)
  BY <1>1, <1>2
<1>4. CASE j \in DOMAIN s
  BY <1>1, <1>2, <1>3, <1>4 DEF Ordered
<1>5. CASE j \notin DOMAIN s
  <2>1. Append(s, m)[j] = m
    BY <1>1, <1>2, <1>5
  <2>2. Disconnect(h) \in Range(s)
    BY <1>3 DEF Range
  <2> QED BY <2>1, <2>2
<1> QED BY <1>4, <1>5

LEMMA RangeTail ==
  ASSUME NEW s \in Seq(Messages), s # <<>>
  PROVE  Range(s) = {Head(s)} \cup Range(Tail(s))
<1>1. /\ Tail(s) \in Seq(Messages) /\ Len(Tail(s)) = Len(s) - 1 /\ Len(s) \in Nat \ {0}
      /\ \A i \in 1 .. Len(s) - 1 : Tail(s)[i] = s[i + 1]
      /\ Head(s) = s[1]
  OBVIOUS
<1>2. DOMAIN Tail(s) = 1 .. Len(s) - 1 /\ DOMAIN s = 1 .. Len(s)
  BY <1>1
<1>3. Range(s) \subseteq {Head(s)} \cup Range(Tail(s))
  <2> SUFFICES ASSUME NEW i \in 1 .. Len(s), i # 1 PROVE s[i] \in Range(Tail(s))
    BY <1>1, <1>2 DEF Range
  <2>1. i - 1 \in 1 .. Len(s) - 1 /\ Tail(s)[i - 1] = s[i]
    BY <1>1
  <2> QED BY <1>2, <2>1 DEF Range
<1>4. Range(Tail(s)) \subseteq Range(s)
  <2> SUFFICES ASSUME NEW i \in 1 .. Len(s) - 1 PROVE Tail(s)[i] \in Range(s)
    BY <1>2 DEF Range
  <2>1. i + 1 \in 1 .. Len(s) /\ Tail(s)[i] = s[i + 1]
    BY <1>1
  <2> QED BY <1>2, <2>1 DEF Range
<1>5. Head(s) \in Range(s)
  BY <1>1, <1>2 DEF Range
<1> QED BY <1>3, <1>4, <1>5

LEMMA OrderedTail ==
  ASSUME NEW s \in Seq(Messages), s # <<>>, NEW h \in Pods, Ordered(s, h)
  PROVE  /\ Ordered(Tail(s), h)
         /\ Head(s) = Disconnect(h) => Connect(h) \notin Range(Tail(s))
<1>1. /\ Tail(s) \in Seq(Messages) /\ Len(Tail(s)) = Len(s) - 1 /\ Len(s) \in Nat \ {0}
      /\ \A i \in 1 .. Len(s) - 1 : Tail(s)[i] = s[i + 1]
      /\ Head(s) = s[1]
  OBVIOUS
<1>2. DOMAIN Tail(s) = 1 .. Len(s) - 1 /\ DOMAIN s = 1 .. Len(s)
  BY <1>1
<1>3. ASSUME NEW i \in 1 .. Len(s) - 1, NEW j \in 1 .. Len(s) - 1, i < j, Tail(s)[i] = Disconnect(h)
      PROVE  Tail(s)[j] # Connect(h)
  <2>1. /\ i + 1 \in DOMAIN s /\ j + 1 \in DOMAIN s /\ i + 1 < j + 1
        /\ s[i + 1] = Disconnect(h) /\ Tail(s)[j] = s[j + 1]
    BY <1>1, <1>2, <1>3
  <2> QED BY <2>1 DEF Ordered
<1>4. ASSUME NEW j \in 1 .. Len(s) - 1, s[1] = Disconnect(h) PROVE Tail(s)[j] # Connect(h)
  <2>1. 1 \in DOMAIN s /\ j + 1 \in DOMAIN s /\ 1 < j + 1 /\ Tail(s)[j] = s[j + 1]
    BY <1>1, <1>2
  <2> QED BY <1>4, <2>1 DEF Ordered
<1>5. Ordered(Tail(s), h)
  BY <1>2, <1>3 DEF Ordered
<1>6. Head(s) = Disconnect(h) => Connect(h) \notin Range(Tail(s))
  BY <1>1, <1>2, <1>4 DEF Range
<1> QED BY <1>5, <1>6

\* A forwarded message is no event.
LEMMA ForwardsAreNoEvents ==
  ASSUME NEW s \in Seq(Messages), NEW h \in Pods, Ordered(s, h),
         Range(s) \subseteq {Forward, Connect(h), Disconnect(h)},
         NEW t, t = Append(s, Forward) \/ (s # <<>> /\ Head(s) = Forward /\ t = Tail(s))
  PROVE  /\ Range(t) \subseteq {Forward, Connect(h), Disconnect(h)} /\ Ordered(t, h)
         /\ Connect(h) \in Range(t) <=> Connect(h) \in Range(s)
         /\ Disconnect(h) \in Range(t) <=> Disconnect(h) \in Range(s)
<1>1. CASE t = Append(s, Forward)
  BY <1>1, MessagesApart, RangeAppend, OrderedAppend
<1>2. CASE s # <<>> /\ Head(s) = Forward /\ t = Tail(s)
  BY <1>2, MessagesApart, RangeTail, OrderedTail
<1> QED BY <1>1, <1>2

-----------------------------------------------------------------------------
(* The connection's handler, with every earlier change delivered and no fault. *)
LEMMA CalmBefore == TypeOK /\ [Next]_vars /\ Calm' => Calm /\ faults' = faults
<1> SUFFICES ASSUME TypeOK, [Next]_vars, Calm' PROVE Calm /\ faults' = faults
  OBVIOUS
<1>1. (raced => raced') /\ (faults' = faults \/ faults' = faults + 1)
  <2> USE DEF history, Fault
  <2>1. ASSUME NEW c \in Conns, ConnStep(c) PROVE (raced => raced') /\ (faults' = faults \/ faults' = faults + 1)
    <3>1. ASSUME NEW p \in Pods, Register(c, p) PROVE (raced => raced') /\ faults' = faults
      BY <3>1 DEF Register
    <3>2. UnregisterConn(c) => (raced => raced') /\ faults' = faults
      BY DEF UnregisterConn
    <3>3. SetConnection(c) \/ DelPresence(c) \/ PublishDisconnect(c)
            => raced' = raced /\ (faults' = faults \/ faults' = faults + 1)
      BY DEF SetConnection, DelPresence, PublishDisconnect
    <3> QED BY <2>1, <3>1, <3>2, <3>3 DEF ConnStep
  <2>2. ASSUME NEW p \in Pods, PodStep(p) PROVE (raced => raced') /\ (faults' = faults \/ faults' = faults + 1)
    BY <2>2 DEF PodStep, SetPresence, PublishConnect, HandleConnect, HandleDisconnect, HandleForward,
                SendRemote, LoseEvent, Crash, SnapshotPresence, Subscribe
  <2> QED BY <2>1, <2>2 DEF Next, LinkLost, ExpirePresence, vars
<1> QED BY <1>1 DEF Calm, TypeOK

\* With one connection at a time, the step of one tells how far the pod is.
LEMMA OneConnection ==
  ASSUME TypeOK, NEW h \in Pods, Home(h), NEW c \in Conns, Active(c)
  PROVE  /\ at[c] = h /\ \A d \in Conns : Active(d) => d = c
         /\ st[c] \in {"registered", "serving"}
              => Holds(h) /\ conns[h] = (IF st[c] = "serving" THEN c ELSE None)
         /\ st[c] \in {"deleting", "leaving"}
              => Leaves(h) /\ link = None /\ (st[c] = "leaving" => presence = None)
<1>1. at[c] = h /\ \A d \in Conns : Active(d) => d = c
  BY DEF Home, OnlyOn
<1>2. Holds(h) \/ Leaves(h)
  BY DEF Home, HasLeft
<1>3. Holds(h) => st[c] \in {"registered", "serving"} /\ conns[h] = (IF st[c] = "serving" THEN c ELSE None)
  BY <1>1 DEF Holds, Active
<1>4. Leaves(h) => st[c] \in {"deleting", "leaving"} /\ (st[c] = "leaving" => presence = None)
  BY <1>1 DEF Leaves, Active
<1>5. st[c] \in {"deleting", "leaving"} => link = None
  BY <1>1 DEF Home, OnlyOn, TypeOK, Active
<1> QED BY <1>1, <1>2, <1>3, <1>4, <1>5

\* A connection that finds everything delivered finds the agent nowhere.
LEMMA RegisterHome ==
  ASSUME TypeOK, NEW h \in Pods, Home(h), Delivered, NEW c \in Conns, NEW p \in Pods, Register(c, p)
  PROVE  Home(p)'
<1> USE RegistryAssumption DEF TypeOK
<1>1. link = None /\ \A d \in Conns : ~Active(d)
  BY DEF Register, Delivered, Active
<1>2. HasLeft(h) /\ OnlyOn(h)
  BY <1>1 DEF Home, Holds, Leaves, Active
<1>3. \A q \in Pods, r \in Pods : ~Has(q, Connect(r)) /\ ~Has(q, Disconnect(r))
  BY MessagesApart DEF Delivered, Has
<1>4. /\ \A q \in Pods : conns[q] = None /\ setting[q] = 0 /\ announcing[q] = 0 /\ Forgot(q) /\ phase[q] = "up"
      /\ presence = None
  BY <1>2, <1>3 DEF HasLeft, Released, OnlyOn
<1>5. /\ link' = c /\ st' = [st EXCEPT ![c] = "registered"] /\ at' = [at EXCEPT ![c] = p]
      /\ listed' = [listed EXCEPT ![p] = TRUE] /\ podMap' = [podMap EXCEPT ![p] = p]
      /\ setting' = [setting EXCEPT ![p] = @ + 1]
      /\ UNCHANGED <<phase, conns, presence, inbox, announcing>>
  BY DEF Register
<1>6. OnlyOn(p)'
  <2>1. \A d \in Conns : Active(d)' => d = c
    BY <1>1, <1>5 DEF Active
  <2>2. \A q \in Pods \ {p} : setting'[q] = 0 /\ announcing'[q] = 0 /\ conns'[q] = None /\ Forgot(q)'
    BY <1>4, <1>5 DEF Forgot
  <2> QED BY <1>4, <1>5, <2>1, <2>2 DEF OnlyOn
<1>7. EventsOf(p)'
  <2>1. \A q \in Pods : Range(inbox[q]) \subseteq {Forward} /\ Disconnect(p) \notin Range(inbox[q])
    BY <1>3 DEF Delivered, Has
  <2>2. \A q \in Pods : Ordered(inbox[q], p)
    BY <2>1 DEF Ordered, Range
  <2> QED BY <1>5, <2>1, <2>2 DEF EventsOf
<1>8. Holds(p)'
  <2>1. st'[c] = "registered" /\ conns'[p] = None /\ Knows(p, p)' /\ setting'[p] # 0
    BY <1>4, <1>5 DEF Knows
  <2>2. \A q \in Pods : ~Has(q, Disconnect(p))'
    BY <1>3, <1>5 DEF Has
  <2> QED BY <2>1, <2>2 DEF Holds
<1> QED BY <1>6, <1>7, <1>8 DEF Home

LEMMA SetConnectionHome ==
  ASSUME TypeOK, NEW h \in Pods, Home(h), NEW c \in Conns, SetConnection(c)
  PROVE  Home(h)'
<1> USE RegistryAssumption DEF TypeOK
<1>1. Active(c) /\ st[c] = "registered"
  BY DEF SetConnection, Active
<1>2. at[c] = h /\ Holds(h) /\ OnlyOn(h) /\ EventsOf(h)
  BY <1>1, OneConnection DEF Home
<1>3. /\ st' = [st EXCEPT ![c] = "serving"] /\ conns' = [conns EXCEPT ![h] = c]
      /\ listed' = [listed EXCEPT ![h] = TRUE] /\ podMap' = [podMap EXCEPT ![h] = h]
      /\ setting' = [setting EXCEPT ![h] = @ + 1]
      /\ UNCHANGED <<phase, presence, inbox, announcing, at, link>>
  BY <1>2 DEF SetConnection
<1>4. OnlyOn(h)'
  <2>1. \A d \in Conns : Active(d)' => Active(d)
    BY <1>1, <1>3 DEF Active
  <2>2. link' # None => st'[link'] \in {"registered", "serving"}
    BY <1>2, <1>3 DEF OnlyOn
  <2>3. \A q \in Pods \ {h} : setting'[q] = setting[q] /\ conns'[q] = conns[q]
                              /\ (Forgot(q)' <=> Forgot(q)) /\ (Knows(q, h)' <=> Knows(q, h))
    BY <1>3 DEF Forgot, Knows
  <2> QED BY <1>2, <1>3, <2>1, <2>2, <2>3 DEF OnlyOn
<1>5. EventsOf(h)'
  BY <1>2, <1>3 DEF EventsOf
<1>6. Holds(h)'
  <2>1. st'[c] = "serving" /\ conns'[h] = c /\ Knows(h, h)' /\ setting'[h] # 0
    BY <1>3 DEF Knows
  <2>2. \A q \in Pods : ~Has(q, Disconnect(h))'
    BY <1>2, <1>3 DEF Holds, Has
  <2> QED BY <2>1, <2>2 DEF Holds
<1> QED BY <1>4, <1>5, <1>6 DEF Home

\* A teardown that no announcement overlaps is of the only connection.
LEMMA UnregisterHome ==
  ASSUME TypeOK, NEW h \in Pods, Home(h), NEW c \in Conns, UnregisterConn(c), Calm'
  PROVE  Home(h)'
<1> USE RegistryAssumption DEF TypeOK
<1>1. Active(c) /\ st[c] = "serving" /\ link # c
  BY DEF UnregisterConn, Active
<1>2. /\ at[c] = h /\ Holds(h) /\ OnlyOn(h) /\ EventsOf(h) /\ conns[h] = c
      /\ \A d \in Conns : Active(d) => d = c
  BY <1>1, OneConnection DEF Home
<1>3. setting[h] = 0 /\ announcing[h] = 0
  <2>1. ~(setting[h] + announcing[h] > 0)
    BY <1>2 DEF UnregisterConn, Calm
  <2>2. setting[h] \in Nat /\ announcing[h] \in Nat
    OBVIOUS
  <2> QED BY <2>1, <2>2
<1>4. /\ st' = [st EXCEPT ![c] = "deleting"] /\ conns' = [conns EXCEPT ![h] = None]
      /\ podMap' = [podMap EXCEPT ![h] = None] /\ listed' = [listed EXCEPT ![h] = FALSE]
      /\ UNCHANGED <<phase, inbox, presence, setting, announcing, at, link>>
  BY <1>2 DEF UnregisterConn, Superseded, MarkDisconnected, redis
<1>5. link = None
  <2>1. link # None => Active(link)
    BY <1>2 DEF OnlyOn, Active
  <2> QED BY <1>1, <1>2, <2>1
<1>6. OnlyOn(h)'
  <2>1. \A d \in Conns : Active(d)' => Active(d)
    BY <1>1, <1>4 DEF Active
  <2>2. \A q \in Pods \ {h} : conns'[q] = conns[q]
                              /\ (Forgot(q)' <=> Forgot(q)) /\ (Knows(q, h)' <=> Knows(q, h))
    BY <1>4 DEF Forgot, Knows
  <2> QED BY <1>2, <1>4, <1>5, <2>1, <2>2 DEF OnlyOn
<1>7. EventsOf(h)'
  BY <1>2, <1>4 DEF EventsOf
<1>8. Leaves(h)'
  <2>1. st'[c] = "deleting" /\ Released(h)'
    BY <1>3, <1>4 DEF Released, Forgot
  <2>2. \A q \in Pods : ~Has(q, Disconnect(h))'
    BY <1>2, <1>4 DEF Holds, Has
  <2> QED BY <2>1, <2>2 DEF Leaves
<1> QED BY <1>6, <1>7, <1>8 DEF Home

LEMMA DelPresenceHome ==
  ASSUME TypeOK, NEW h \in Pods, Home(h), NEW c \in Conns, DelPresence(c), faults' = faults
  PROVE  Home(h)'
<1> USE RegistryAssumption DEF TypeOK
<1>1. Active(c) /\ st[c] = "deleting"
  BY DEF DelPresence, Active
<1>2. Leaves(h) /\ OnlyOn(h) /\ EventsOf(h) /\ link = None
  BY <1>1, OneConnection DEF Home
<1>3. /\ st' = [st EXCEPT ![c] = "leaving"] /\ presence' = None
      /\ UNCHANGED <<phase, conns, listed, podMap, inbox, setting, announcing, at, link>>
  BY DEF DelPresence, Fault, memory
<1>4. OnlyOn(h)'
  <2>1. \A d \in Conns : Active(d)' => Active(d)
    BY <1>1, <1>3 DEF Active
  <2> QED BY <1>2, <1>3, <2>1 DEF OnlyOn, Forgot, Knows
<1>5. EventsOf(h)'
  BY <1>2, <1>3 DEF EventsOf
<1>6. Leaves(h)'
  <2>1. st'[c] = "leaving"
    BY <1>3
  <2> QED BY <1>2, <1>3, <2>1 DEF Leaves, Released, Forgot, Has
<1> QED BY <1>4, <1>5, <1>6 DEF Home

LEMMA PublishDisconnectHome ==
  ASSUME TypeOK, NEW h \in Pods, Home(h), NEW c \in Conns, PublishDisconnect(c), faults' = faults
  PROVE  Home(h)'
<1> USE RegistryAssumption DEF TypeOK
<1>1. Active(c) /\ st[c] = "leaving"
  BY DEF PublishDisconnect, Active
<1>2. /\ Leaves(h) /\ OnlyOn(h) /\ EventsOf(h) /\ link = None /\ at[c] = h /\ presence = None
      /\ \A d \in Conns : Active(d) => d = c
  BY <1>1, OneConnection DEF Home
<1>3. /\ st' = [st EXCEPT ![c] = "gone"] /\ inbox' = Published(Disconnect(h))
      /\ UNCHANGED <<phase, conns, listed, podMap, presence, setting, announcing, at, link>>
  BY <1>2 DEF PublishDisconnect, Fault, memory, redis
<1>4. \A d \in Conns : ~Active(d)'
  BY <1>2, <1>3 DEF Active
<1>5. OnlyOn(h)'
  BY <1>2, <1>3, <1>4 DEF OnlyOn, Forgot, Knows
<1>6. \A q \in Pods : inbox'[q] = Append(inbox[q], Disconnect(h))
  BY <1>2, <1>3 DEF Published, OnlyOn
<1>7. \A q \in Pods : /\ Range(inbox'[q]) = Range(inbox[q]) \cup {Disconnect(h)}
                      /\ Ordered(inbox'[q], h)
  <2> SUFFICES ASSUME NEW q \in Pods
               PROVE  /\ Range(Append(inbox[q], Disconnect(h))) = Range(inbox[q]) \cup {Disconnect(h)}
                      /\ Ordered(Append(inbox[q], Disconnect(h)), h)
    BY <1>6
  <2>1. inbox[q] \in Seq(Messages) /\ Ordered(inbox[q], h)
        /\ Disconnect(h) \in Messages /\ Disconnect(h) # Connect(h)
    BY <1>2, MessagesApart DEF EventsOf
  <2> QED BY <2>1, RangeAppend, OrderedAppend
<1>8. EventsOf(h)'
  <2>1. \A q \in Pods : Range(inbox[q]) \subseteq {Forward, Connect(h), Disconnect(h)}
    BY <1>2 DEF EventsOf
  <2> QED BY <1>7, <2>1 DEF EventsOf
<1>9. HasLeft(h)'
  <2>1. Released(h)'
    BY <1>2, <1>3 DEF Leaves, Released, Forgot
  <2>2. \A q \in Pods : Has(q, Disconnect(h))'
    BY <1>7 DEF Has
  <2> QED BY <1>2, <1>3, <1>4, <2>1, <2>2 DEF HasLeft
<1> QED BY <1>5, <1>8, <1>9 DEF Home

-----------------------------------------------------------------------------
(* The announcements and the subscriptions. *)
LEMMA AnnounceHome ==
  ASSUME TypeOK, NEW h \in Pods, Home(h), NEW p \in Pods, SetPresence(p) \/ PublishConnect(p), faults' = faults
  PROVE  Home(h)'
<1> USE RegistryAssumption DEF TypeOK
<1>1. OnlyOn(h) /\ EventsOf(h)
  BY DEF Home
<1>2. p = h /\ Holds(h)
  BY DEF SetPresence, PublishConnect, Home, OnlyOn, Leaves, HasLeft, Released
<1>3. UNCHANGED <<phase, conns, listed, podMap, st, at, link>>
  BY DEF SetPresence, PublishConnect, memory, sockets
<1>4. CASE SetPresence(p)
  <2>1. /\ setting' = [setting EXCEPT ![h] = @ - 1] /\ presence' = h
        /\ announcing' = [announcing EXCEPT ![h] = @ + 1] /\ inbox' = inbox
    BY <1>2, <1>4 DEF SetPresence, Fault
  <2>2. OnlyOn(h)'
    BY <1>1, <1>3, <2>1 DEF OnlyOn, Active, Forgot, Knows
  <2>3. EventsOf(h)'
    BY <1>1, <2>1 DEF EventsOf
  <2>4. announcing'[h] # 0
    BY <2>1
  <2>5. Holds(h)'
    BY <1>2, <1>3, <2>1, <2>4 DEF Holds, Knows, Has
  <2> QED BY <2>2, <2>3, <2>5 DEF Home
<1>5. CASE PublishConnect(p)
  <2>1. /\ announcing' = [announcing EXCEPT ![h] = @ - 1] /\ inbox' = Published(Connect(h))
        /\ UNCHANGED <<presence, setting>>
    BY <1>2, <1>5 DEF PublishConnect, Fault
  <2>2. OnlyOn(h)'
    BY <1>1, <1>3, <2>1 DEF OnlyOn, Active, Forgot, Knows
  <2>3. \A q \in Pods : inbox'[q] = Append(inbox[q], Connect(h)) /\ Disconnect(h) \notin Range(inbox[q])
    BY <1>1, <1>2, <2>1 DEF Published, OnlyOn, Holds, Has
  <2>4. \A q \in Pods : /\ Range(inbox'[q]) = Range(inbox[q]) \cup {Connect(h)}
                        /\ Ordered(inbox'[q], h)
    <3> SUFFICES ASSUME NEW q \in Pods
                 PROVE  /\ Range(Append(inbox[q], Connect(h))) = Range(inbox[q]) \cup {Connect(h)}
                        /\ Ordered(Append(inbox[q], Connect(h)), h)
      BY <2>3
    <3>1. inbox[q] \in Seq(Messages) /\ Ordered(inbox[q], h) /\ Disconnect(h) \notin Range(inbox[q])
          /\ Connect(h) \in Messages
      BY <1>1, <2>3, MessagesApart DEF EventsOf
    <3> QED BY <3>1, RangeAppend, OrderedAppend
  <2>5. EventsOf(h)'
    BY <1>1, <2>4 DEF EventsOf
  <2>6. \A q \in Pods : Has(q, Connect(h))' /\ ~Has(q, Disconnect(h))'
    BY <2>3, <2>4, MessagesApart DEF Has
  <2>7. Holds(h)'
    BY <1>2, <1>3, <2>6 DEF Holds, Knows
  <2> QED BY <2>2, <2>5, <2>7 DEF Home
<1> QED BY <1>4, <1>5

LEMMA HandleHome ==
  ASSUME TypeOK, NEW h \in Pods, Home(h), NEW p \in Pods, HandleConnect(p) \/ HandleDisconnect(p)
  PROVE  Home(h)'
<1> USE RegistryAssumption DEF TypeOK
<1>1. OnlyOn(h) /\ EventsOf(h)
  BY DEF Home
<1>2. /\ inbox[p] # <<>> /\ inbox' = [inbox EXCEPT ![p] = Tail(@)]
      /\ UNCHANGED <<phase, conns, presence, setting, announcing, st, at, link>>
  BY DEF HandleConnect, HandleDisconnect, Received, memory, redis, sockets
<1>3. inbox'[p] = Tail(inbox[p]) /\ \A q \in Pods \ {p} : inbox'[q] = inbox[q]
  BY <1>2
<1>4. /\ Range(inbox[p]) = {Head(inbox[p])} \cup Range(Tail(inbox[p]))
      /\ Ordered(Tail(inbox[p]), h)
      /\ Head(inbox[p]) = Disconnect(h) => Connect(h) \notin Range(Tail(inbox[p]))
  BY <1>1, <1>2, RangeTail, OrderedTail DEF EventsOf
<1>5. EventsOf(h)'
  BY <1>1, <1>3, <1>4 DEF EventsOf
<1>6. \A q \in Pods, m \in Messages : Has(q, m)' => Has(q, m)
  BY <1>3, <1>4 DEF Has
<1>7. Head(inbox[p]) \in {Forward, Connect(h), Disconnect(h)}
  BY <1>1, <1>4 DEF EventsOf
<1>8. CASE HandleConnect(p)
  <2>1. Head(inbox[p]) = Connect(h) /\ Has(p, Connect(h)) /\ Head(inbox[p]).type = "connect" /\ Head(inbox[p]).pod = h
    BY <1>4, <1>7, <1>8 DEF HandleConnect, Received, Connect, Disconnect, Forward, Has
  <2>2. /\ p = h => UNCHANGED memory
        /\ p # h => Knows(p, h)' /\ \A q \in Pods \ {p} : listed'[q] = listed[q] /\ podMap'[q] = podMap[q]
    BY <1>8, <2>1 DEF HandleConnect, IgnoredEvent, Knows
  <2>3. \A q \in Pods \ {h} : (Knows(q, h) => Knows(q, h)') /\ (q # p => (Forgot(q) <=> Forgot(q)'))
    BY <2>2 DEF Knows, Forgot, memory
  <2>4. Knows(h, h) => Knows(h, h)'
    BY <2>2 DEF Knows, memory
  <2>5. Forgot(h) => Forgot(h)'
    BY <2>2 DEF Forgot, memory
  <2>6. OnlyOn(h)'
    <3>1. \A q \in Pods \ {h} : Forgot(q)' \/ Knows(q, h)'
      BY <1>1, <2>2, <2>3 DEF OnlyOn
    <3> QED BY <1>1, <1>2, <3>1 DEF OnlyOn, Active
  <2>7. CASE Holds(h)
    <3>1. \A q \in Pods \ {h} : Knows(q, h) \/ Has(q, Connect(h)) => Knows(q, h)' \/ Has(q, Connect(h))'
      BY <1>3, <2>2, <2>3 DEF Has
    <3>2. \A q \in Pods : ~Has(q, Disconnect(h))'
      BY <1>6, <2>7, MessagesApart DEF Holds
    <3>3. Holds(h)'
      BY <1>2, <2>4, <2>7, <3>1, <3>2 DEF Holds
    <3> QED BY <1>5, <2>6, <3>3 DEF Home
  <2>8. CASE Leaves(h)
    <3>1. \A q \in Pods : ~Has(q, Disconnect(h))'
      BY <1>6, <2>8, MessagesApart DEF Leaves
    <3>2. Leaves(h)'
      BY <1>2, <2>5, <2>8, <3>1 DEF Leaves, Released
    <3> QED BY <1>5, <2>6, <3>2 DEF Home
  <2>9. CASE HasLeft(h)
    <3>1. p # h => Has(p, Disconnect(h))'
      BY <1>3, <1>4, <2>1, <2>9, MessagesApart DEF HasLeft, Has
    <3>2. \A q \in Pods \ {h, p} : (Has(q, Disconnect(h))' <=> Has(q, Disconnect(h)))
                                   /\ (Has(q, Connect(h))' <=> Has(q, Connect(h)))
      BY <1>3 DEF Has
    <3>3. \A q \in Pods \ {h} : Has(q, Disconnect(h))' \/ (Forgot(q)' /\ ~Has(q, Connect(h))')
      BY <2>3, <2>9, <3>1, <3>2 DEF HasLeft
    <3>4. HasLeft(h)'
      BY <1>2, <2>5, <2>9, <3>3 DEF HasLeft, Released, Active
    <3> QED BY <1>5, <2>6, <3>4 DEF Home
  <2> QED BY <2>7, <2>8, <2>9 DEF Home
<1>9. CASE HandleDisconnect(p)
  <2>1. Head(inbox[p]) = Disconnect(h) /\ Has(p, Disconnect(h)) /\ Head(inbox[p]).type = "disconnect" /\ Head(inbox[p]).pod = h
    BY <1>4, <1>7, <1>9 DEF HandleDisconnect, Received, Connect, Disconnect, Forward, Has
  <2>2. HasLeft(h)
    BY <2>1 DEF Home, Holds, Leaves
  <2>3. /\ p = h => UNCHANGED memory
        /\ p # h => Forgot(p)' /\ \A q \in Pods \ {p} : listed'[q] = listed[q] /\ podMap'[q] = podMap[q]
    BY <1>1, <1>9, <2>1 DEF HandleDisconnect, IgnoredEvent, Forgot, OnlyOn
  <2>4. \A q \in Pods \ {p} : (Forgot(q)' <=> Forgot(q)) /\ (Knows(q, h)' <=> Knows(q, h))
    BY <2>3 DEF Forgot, Knows, memory
  <2>5. Forgot(h)'
    BY <2>2, <2>3 DEF HasLeft, Released, Forgot, memory
  <2>6. OnlyOn(h)'
    <3>1. \A q \in Pods \ {h} : Forgot(q)' \/ Knows(q, h)'
      BY <1>1, <2>3, <2>4 DEF OnlyOn
    <3> QED BY <1>1, <1>2, <3>1 DEF OnlyOn, Active
  <2>7. \A q \in Pods \ {h} : Has(q, Disconnect(h))' \/ (Forgot(q)' /\ ~Has(q, Connect(h))')
    <3>1. ~Has(p, Connect(h))'
      BY <1>3, <1>4, <2>1 DEF Has
    <3>2. \A q \in Pods \ {h, p} : (Has(q, Disconnect(h))' <=> Has(q, Disconnect(h)))
                                   /\ (Has(q, Connect(h))' <=> Has(q, Connect(h)))
      BY <1>3 DEF Has
    <3> QED BY <2>2, <2>3, <2>4, <3>1, <3>2 DEF HasLeft
  <2>8. HasLeft(h)'
    BY <1>2, <2>2, <2>5, <2>7 DEF HasLeft, Released, Active
  <2> QED BY <1>5, <2>6, <2>8 DEF Home
<1> QED BY <1>8, <1>9

\* What no step of this kind does is to change an event, or who knows what.
LEMMA SameEventsHome ==
  ASSUME TypeOK, NEW h \in Pods, Home(h), UNCHANGED <<phase, memory, setting, announcing, st, at>>,
         link' \in {link, None}, presence' \in {presence, None}, EventsOf(h)',
         \A q \in Pods : /\ Has(q, Connect(h))' <=> Has(q, Connect(h))
                         /\ Has(q, Disconnect(h))' <=> Has(q, Disconnect(h))
  PROVE  Home(h)'
<1> USE DEF memory
<1>1. OnlyOn(h)'
  BY DEF Home, OnlyOn, Active, Forgot, Knows
<1>2. Holds(h) => Holds(h)'
  BY DEF Holds, Knows
<1>3. Leaves(h) => Leaves(h)'
  BY DEF Leaves, Released, Forgot
<1>4. HasLeft(h) => HasLeft(h)'
  BY DEF HasLeft, Released, Forgot, Active
<1> QED BY <1>1, <1>2, <1>3, <1>4 DEF Home

LEMMA ForwardHome ==
  ASSUME TypeOK, NEW h \in Pods, Home(h), NEW p \in Pods, HandleForward(p) \/ SendRemote(p)
  PROVE  Home(h)'
<1> USE RegistryAssumption DEF TypeOK
<1>1. UNCHANGED <<phase, memory, setting, announcing, st, at, link, presence>>
  BY DEF HandleForward, SendRemote, redis, sockets
<1>2. \A q \in Pods : \/ inbox'[q] = inbox[q] \/ inbox'[q] = Append(inbox[q], Forward)
                      \/ inbox[q] # <<>> /\ Head(inbox[q]) = Forward /\ inbox'[q] = Tail(inbox[q])
  <2>1. CASE HandleForward(p)
    <3>1. inbox[p] # <<>> /\ Head(inbox[p]) \in Messages /\ Head(inbox[p]).type = "forward"
      BY <2>1, HeadIsMessage DEF HandleForward, Received
    <3>2. Head(inbox[p]) = Forward
      BY <3>1 DEF Messages, Connect, Disconnect, Forward
    <3> DEFINE rest == [inbox EXCEPT ![p] = Tail(@)]
    <3>3. rest[p] = Tail(inbox[p]) /\ \A q \in Pods \ {p} : rest[q] = inbox[q]
      OBVIOUS
    <3>4. \/ inbox' = rest
          \/ podMap[p] \in Pods \ {p} /\ inbox' = [rest EXCEPT ![podMap[p]] = Append(@, Forward)]
      BY <2>1 DEF HandleForward, Forwardable
    <3>5. DOMAIN rest = Pods
      OBVIOUS
    <3> HIDE DEF rest
    <3>6. CASE inbox' = rest
      BY <3>1, <3>2, <3>3, <3>6
    <3>7. ASSUME NEW r \in Pods \ {p}, inbox' = [rest EXCEPT ![r] = Append(@, Forward)]
          PROVE  /\ inbox'[p] = rest[p] /\ inbox'[r] = Append(rest[r], Forward)
                 /\ \A q \in Pods \ {p, r} : inbox'[q] = rest[q]
      <4>1. inbox' = [q \in Pods |-> IF q = r THEN Append(rest[q], Forward) ELSE rest[q]]
        BY <3>5, <3>7
      <4> QED BY <4>1
    <3> QED BY <3>1, <3>2, <3>3, <3>4, <3>6, <3>7
  <2>2. CASE SendRemote(p)
    BY <2>2 DEF SendRemote, ForwardedTo
  <2> QED BY <2>1, <2>2
<1>3. EventsOf(h)' /\ \A q \in Pods : /\ Has(q, Connect(h))' <=> Has(q, Connect(h))
                                      /\ Has(q, Disconnect(h))' <=> Has(q, Disconnect(h))
  <2> SUFFICES ASSUME NEW q \in Pods
               PROVE  /\ Range(inbox'[q]) \subseteq {Forward, Connect(h), Disconnect(h)}
                      /\ Ordered(inbox'[q], h)
                      /\ Connect(h) \in Range(inbox'[q]) <=> Connect(h) \in Range(inbox[q])
                      /\ Disconnect(h) \in Range(inbox'[q]) <=> Disconnect(h) \in Range(inbox[q])
    BY DEF EventsOf, Has
  <2>1. /\ inbox[q] \in Seq(Messages) /\ Ordered(inbox[q], h)
        /\ Range(inbox[q]) \subseteq {Forward, Connect(h), Disconnect(h)}
    BY DEF Home, EventsOf
  <2>2. CASE inbox'[q] = inbox[q]
    BY <2>1, <2>2
  <2>3. CASE inbox'[q] # inbox[q]
    <3>1. \/ inbox'[q] = Append(inbox[q], Forward)
          \/ inbox[q] # <<>> /\ Head(inbox[q]) = Forward /\ inbox'[q] = Tail(inbox[q])
      BY <1>2, <2>3
    <3> QED BY <2>1, <3>1, ForwardsAreNoEvents
  <2> QED BY <2>2, <2>3
<1> QED BY <1>1, <1>3, SameEventsHome

LEMMA TrackedStep == TypeOK /\ Tracked /\ [Next]_vars => Tracked'
<1> SUFFICES ASSUME TypeOK, Tracked, [Next]_vars, Calm', Pods # {} PROVE \E p \in Pods : Home(p)'
  BY DEF Tracked
<1>1. Calm /\ faults' = faults
  BY CalmBefore
<1>2. PICK h \in Pods : Home(h)
  BY <1>1 DEF Tracked
<1>3. ~Fault
  BY <1>1 DEF Fault, TypeOK
<1>4. ASSUME NEW c \in Conns, ConnStep(c) PROVE \E p \in Pods : Home(p)'
  <2>1. ASSUME NEW p \in Pods, Register(c, p) PROVE Home(p)'
    <3>1. Delivered
      BY <2>1 DEF Register, Calm
    <3> QED BY <1>2, <2>1, <3>1, RegisterHome
  <2>2. CASE SetConnection(c)
    BY <1>2, <2>2, SetConnectionHome
  <2>3. CASE UnregisterConn(c)
    BY <1>2, <2>3, UnregisterHome
  <2>4. CASE DelPresence(c)
    BY <1>1, <1>2, <2>4, DelPresenceHome
  <2>5. CASE PublishDisconnect(c)
    BY <1>1, <1>2, <2>5, PublishDisconnectHome
  <2> QED BY <1>4, <2>1, <2>2, <2>3, <2>4, <2>5 DEF ConnStep
<1>5. ASSUME NEW p \in Pods, PodStep(p) PROVE Home(h)'
  <2>1. CASE SetPresence(p) \/ PublishConnect(p)
    BY <1>1, <1>2, <2>1, AnnounceHome
  <2>2. CASE HandleConnect(p) \/ HandleDisconnect(p)
    BY <1>2, <2>2, HandleHome
  <2>3. CASE HandleForward(p) \/ SendRemote(p)
    BY <1>2, <2>3, ForwardHome
  <2>4. ~LoseEvent(p) /\ ~Crash(p)
    BY <1>3 DEF LoseEvent, Crash
  <2>5. ~SnapshotPresence(p) /\ ~Subscribe(p)
    BY <1>2 DEF Home, OnlyOn, SnapshotPresence, Subscribe
  <2> QED BY <1>5, <2>1, <2>2, <2>3, <2>4, <2>5 DEF PodStep
<1>6. CASE LinkLost \/ ExpirePresence \/ UNCHANGED vars
  <2>1. /\ UNCHANGED <<phase, memory, inbox, setting, announcing, st, at>>
        /\ link' \in {link, None} /\ presence' \in {presence, None}
    BY <1>6 DEF LinkLost, ExpirePresence, vars, redis, sockets
  <2>2. EventsOf(h)'
    BY <1>2, <2>1 DEF Home, EventsOf
  <2>3. Home(h)'
    BY <1>2, <2>1, <2>2, SameEventsHome DEF Has
  <2> QED BY <2>3
<1> QED BY <1>4, <1>5, <1>6 DEF Next

(* PodsAgree: without a fault and without two changes on their way at once,
   every pod comes to know where the agent is. *)
THEOREM PodsComeToAgree == Spec => []PodsAgree
<1>1. Init => Tracked
  <2> SUFFICES ASSUME Init, NEW h \in Pods PROVE Home(h)
    BY DEF Tracked
  <2>1. \A q \in Pods : inbox[q] = <<>> /\ Range(inbox[q]) = {} /\ Ordered(inbox[q], h)
    BY DEF Init, Range, Ordered
  <2>2. \A c \in Conns : ~Active(c)
    BY DEF Init, Active
  <2> QED BY <2>1, <2>2 DEF Init, Home, OnlyOn, EventsOf, HasLeft, Released, Forgot, Has
<1>2. TypeOK /\ Tracked => PodsAgree
  <2> SUFFICES ASSUME TypeOK, Tracked, Delivered, Calm
               PROVE  /\ \A p \in Pods : /\ listed[p] = (link # None)
                                         /\ podMap[p] = IF link = None THEN None ELSE at[link]
                      /\ presence \in {None, IF link = None THEN None ELSE at[link]}
    BY DEF PodsAgree, Calm
  <2>1. CASE Pods = {}
    BY <2>1 DEF TypeOK
  <2>2. CASE Pods # {}
    <3>1. PICK h \in Pods : Home(h)
      BY <2>2 DEF Tracked
    <3>2. \A q \in Pods : ~Has(q, Connect(h)) /\ ~Has(q, Disconnect(h))
      BY MessagesApart DEF Delivered, Has
    <3>3. \A c \in Conns : Active(c) => st[c] = "serving" /\ link = c
      BY DEF Delivered, Active
    <3>4. ~Leaves(h)
      BY <3>3 DEF Leaves, Active
    <3>5. CASE Holds(h)
      <4>1. PICK c \in Conns : Active(c)
        BY <3>5 DEF Holds, Active
      <4>2. link = c /\ link # None /\ at[link] = h
        BY <3>1, <3>3, <4>1, RegistryAssumption DEF Home, OnlyOn
      <4>3. \A p \in Pods : Knows(p, h)
        BY <3>2, <3>5 DEF Holds, Delivered
      <4> QED BY <3>1, <4>2, <4>3 DEF Knows, Home, OnlyOn, TypeOK
    <3>6. CASE HasLeft(h)
      <4>1. link = None
        BY <3>1, <3>6 DEF HasLeft, Home, OnlyOn, Active, TypeOK
      <4>2. \A p \in Pods : Forgot(p)
        BY <3>2, <3>6 DEF HasLeft, Released
      <4> QED BY <3>6, <4>1, <4>2 DEF HasLeft, Forgot, TypeOK
    <3> QED BY <3>1, <3>4, <3>5, <3>6 DEF Home
  <2> QED BY <2>1, <2>2
<1> QED BY <1>1, <1>2, TrackedStep, RegistryTyped, PTL DEF Spec
=============================================================================
