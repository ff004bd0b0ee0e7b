---------------------------- MODULE AgentRegistry ----------------------------
(***************************************************************************)
(* The agent registry of several server pods that share one Redis, for one *)
(* agent.  A pod holds the agent's WebSocket, or knows from the events of  *)
(* the other pods, or from the presence record it read at startup, which   *)
(* pod does.  A pod that has no socket forwards a message to the pod it    *)
(* believes has one.                                                       *)
(*                                                                         *)
(* The memory of a pod changes under its mutex, the presence record and    *)
(* the events afterwards: a connection announces itself from goroutines,   *)
(* a teardown inline.                                                      *)
(***************************************************************************)
EXTENDS Naturals, Sequences, Functions

CONSTANTS
  Pods,      \* server processes, named by POD_ID
  Conns,     \* WebSocket connections the agent may open, in any order
  None,      \* no connection, no pod
  MaxFaults, \* pod crashes, failed Redis calls and lost events
  MaxSends   \* messages that are forwarded between pods

ASSUME RegistryAssumption ==
  /\ None \notin Pods \cup Conns
  /\ MaxFaults \in Nat /\ MaxSends \in Nat

VARIABLES
  phase,      \* phase[p]: a pod is down, has read the snapshot, or is up
  conns,      \* conns[p]: the connection p writes to
  listed,     \* listed[p]: meta.Connected
  podMap,     \* podMap[p]: the pod p would forward to
  presence,   \* the pod named by the agent's record in Redis
  inbox,      \* inbox[p]: what p's subscription has not handled
  setting,    \* setting[p]: setPresence goroutines before the HSet
  announcing, \* announcing[p]: setPresence goroutines before the publish
  st,         \* st[c]: how far ServeWS is with connection c
  at,         \* at[c]: the pod that serves c
  link,       \* the connection the agent uses
  visited,    \* pods that have forwarded the current message
  sends,      \* messages sent
  faults,     \* faults that have happened
  raced       \* a connection came or went while an earlier change was on its way

memory == <<conns, listed, podMap>>
redis == <<presence, setting, announcing>>
sockets == <<st, at, link>>
forwards == <<visited, sends>>
history == <<faults, raced>>
vars == <<phase, memory, inbox, redis, sockets, forwards, history>>

Connect(p) == [type |-> "connect", pod |-> p]
Disconnect(p) == [type |-> "disconnect", pod |-> p]
Forward == [type |-> "forward", pod |-> None]

Messages == {Connect(p) : p \in Pods} \cup {Disconnect(p) : p \in Pods} \cup {Forward}

TypeOK ==
  /\ phase \in [Pods -> {"down", "loaded", "up"}]
  /\ conns \in [Pods -> Conns \cup {None}]
  /\ listed \in [Pods -> BOOLEAN]
  /\ podMap \in [Pods -> Pods \cup {None}]
  /\ presence \in Pods \cup {None}
  /\ inbox \in [Pods -> Seq(Messages)]
  /\ setting \in [Pods -> Nat] /\ announcing \in [Pods -> Nat]
  /\ st \in [Conns -> {"unused", "registered", "serving", "deleting", "leaving", "gone"}]
  /\ at \in [Conns -> Pods \cup {None}]
  /\ \A c \in Conns : st[c] # "unused" => at[c] \in Pods
  /\ link \in Conns \cup {None}
  /\ visited \subseteq Pods /\ sends \in Nat
  /\ faults \in Nat /\ raced \in BOOLEAN

(* The fleet starts with an empty Redis and every pod subscribed. *)
Init ==
  /\ phase = [p \in Pods |-> "up"]
  /\ conns = [p \in Pods |-> None]
  /\ listed = [p \in Pods |-> FALSE]
  /\ podMap = [p \in Pods |-> None]
  /\ presence = None
  /\ inbox = [p \in Pods |-> <<>>]
  /\ setting = [p \in Pods |-> 0] /\ announcing = [p \in Pods |-> 0]
  /\ st = [c \in Conns |-> "unused"] /\ at = [c \in Conns |-> None]
  /\ link = None
  /\ visited = {} /\ sends = 0
  /\ faults = 0 /\ raced = FALSE

-----------------------------------------------------------------------------
(* A handler of c is between Register and SetConnection on p. *)
Registering(p) == \E c \in Conns : st[c] = "registered" /\ at[c] = p

(* Every change has reached Redis and every pod, and no dead connection
   waits for its teardown: what is left is forwarded messages. *)
Delivered ==
  /\ \A p \in Pods : /\ phase[p] = "up" /\ setting[p] = 0 /\ announcing[p] = 0
                     /\ Range(inbox[p]) \subseteq {Forward}
  /\ \A c \in Conns : st[c] \in {"unused", "gone"} \/ (st[c] = "serving" /\ link = c)

(* An event goes to every subscribed pod, its publisher included. *)
Published(e) ==
  [p \in Pods |-> IF phase[p] = "up" THEN Append(inbox[p], e) ELSE inbox[p]]

(* A message on the channel of pod q: lost unless q is subscribed. *)
ForwardedTo(q) ==
  IF phase[q] = "up" THEN [inbox EXCEPT ![q] = Append(@, Forward)] ELSE inbox

Fault == faults < MaxFaults /\ faults' = faults + 1

-----------------------------------------------------------------------------
(* ServeWS: upgrade, Register, SetConnection, read loop, teardown. *)

Register(c, p) ==
  /\ phase[p] = "up" /\ st[c] = "unused" /\ link = None
  /\ link' = c
  /\ st' = [st EXCEPT ![c] = "registered"] /\ at' = [at EXCEPT ![c] = p]
  /\ listed' = [listed EXCEPT ![p] = TRUE]
  /\ podMap' = [podMap EXCEPT ![p] = p]
  /\ setting' = [setting EXCEPT ![p] = @ + 1]
  /\ raced' = (raced \/ ~Delivered)
  /\ UNCHANGED <<phase, conns, presence, inbox, announcing, forwards, faults>>

SetConnection(c) ==
  LET p == at[c] IN
  /\ st[c] = "registered"
  /\ st' = [st EXCEPT ![c] = "serving"]
  /\ conns' = [conns EXCEPT ![p] = c]
  /\ listed' = [listed EXCEPT ![p] = TRUE]
  /\ podMap' = [podMap EXCEPT ![p] = p]
  /\ setting' = [setting EXCEPT ![p] = @ + 1]
  /\ UNCHANGED <<phase, presence, inbox, announcing, at, link, forwards, history>>

(* The connection breaks; the agent will dial again. *)
LinkLost ==
  /\ link # None
  /\ link' = None
  /\ UNCHANGED <<phase, memory, inbox, redis, st, at, forwards, history>>

(* Mutant: the route survives the connection. *)
MarkDisconnectedKeepsRoute(p) ==
  /\ conns' = [conns EXCEPT ![p] = None]
  /\ listed' = [listed EXCEPT ![p] = FALSE]
  /\ UNCHANGED podMap

MarkDisconnected(p) ==
  /\ conns' = [conns EXCEPT ![p] = None]
  /\ podMap' = [podMap EXCEPT ![p] = None]
  /\ listed' = [listed EXCEPT ![p] = FALSE]

(* Mutant: Unregister instead of UnregisterConn. *)
NeverSuperseded(c) == FALSE

(* A newer connection owns the slot. *)
Superseded(c) == conns[at[c]] \notin {None, c}

(* The read loop of c has ended. *)
UnregisterConn(c) ==
  /\ st[c] = "serving" /\ link # c
  /\ \/ /\ Superseded(c)
        /\ st' = [st EXCEPT ![c] = "gone"]
        /\ UNCHANGED memory
     \/ /\ ~Superseded(c)
        /\ st' = [st EXCEPT ![c] = "deleting"]
        /\ MarkDisconnected(at[c])
  /\ raced' = (raced \/ setting[at[c]] + announcing[at[c]] > 0)
  /\ UNCHANGED <<phase, inbox, redis, at, link, forwards, faults>>

(* removePresence: the record first; if that fails there is no event. *)
DelPresence(c) ==
  /\ st[c] = "deleting"
  /\ \/ /\ st' = [st EXCEPT ![c] = "leaving"] /\ presence' = None
        /\ UNCHANGED faults
     \/ /\ Fault
        /\ st' = [st EXCEPT ![c] = "gone"] /\ UNCHANGED presence
  /\ UNCHANGED <<phase, memory, inbox, setting, announcing, at, link, forwards, raced>>

PublishDisconnect(c) ==
  /\ st[c] = "leaving"
  /\ st' = [st EXCEPT ![c] = "gone"]
  /\ \/ inbox' = Published(Disconnect(at[c])) /\ UNCHANGED faults
     \/ Fault /\ UNCHANGED inbox
  /\ UNCHANGED <<phase, memory, redis, at, link, forwards, raced>>

-----------------------------------------------------------------------------
(* setPresence, in a goroutine of Register and one of SetConnection. *)

SetPresence(p) ==
  /\ setting[p] > 0
  /\ setting' = [setting EXCEPT ![p] = @ - 1]
  /\ \/ /\ presence' = p /\ announcing' = [announcing EXCEPT ![p] = @ + 1]
        /\ UNCHANGED faults
     \/ Fault /\ UNCHANGED <<presence, announcing>>
  /\ UNCHANGED <<phase, memory, inbox, sockets, forwards, raced>>

PublishConnect(p) ==
  /\ announcing[p] > 0
  /\ announcing' = [announcing EXCEPT ![p] = @ - 1]
  /\ \/ inbox' = Published(Connect(p)) /\ UNCHANGED faults
     \/ Fault /\ UNCHANGED inbox
  /\ UNCHANGED <<phase, memory, presence, setting, sockets, forwards, raced>>

(* The record lives five minutes and is written on connect only. *)
ExpirePresence ==
  /\ presence # None
  /\ presence' = None
  /\ UNCHANGED <<phase, memory, inbox, setting, announcing, sockets, forwards, history>>

-----------------------------------------------------------------------------
(* handlePubSubMessage *)

Received(p, type) == inbox[p] # <<>> /\ Head(inbox[p]).type = type

(* Mutant: a pod applies its own events. *)
OwnEventsApplied(p, e) == e.type = "disconnect" /\ conns[p] # None

(* Mutant: a disconnect elsewhere overrides a connection of this pod. *)
LocalConnOverridden(p, e) == e.pod = p

(* A pod's own events say nothing new, and may come out of order; a disconnect
   elsewhere says nothing about a connection of this pod. *)
IgnoredEvent(p, e) ==
  e.pod = p \/ (e.type = "disconnect" /\ conns[p] # None)

HandleConnect(p) ==
  /\ Received(p, "connect")
  /\ inbox' = [inbox EXCEPT ![p] = Tail(@)]
  /\ LET e == Head(inbox[p]) IN
     IF IgnoredEvent(p, e) THEN UNCHANGED memory
     ELSE /\ listed' = [listed EXCEPT ![p] = TRUE]
          /\ podMap' = [podMap EXCEPT ![p] = e.pod]
          /\ UNCHANGED conns
  /\ UNCHANGED <<phase, redis, sockets, forwards, history>>

HandleDisconnect(p) ==
  /\ Received(p, "disconnect")
  /\ inbox' = [inbox EXCEPT ![p] = Tail(@)]
  /\ IF IgnoredEvent(p, Head(inbox[p])) THEN UNCHANGED memory
     ELSE /\ listed' = [listed EXCEPT ![p] = FALSE]
          /\ podMap' = [podMap EXCEPT ![p] = None]
          /\ UNCHANGED conns
  /\ UNCHANGED <<phase, redis, sockets, forwards, history>>

(* publishForward refuses a route to its own pod. *)
Forwardable(p) == conns[p] = None /\ podMap[p] \notin {None, p}

(* A caller on p sends to the agent and p has no socket for it. *)
SendRemote(p) ==
  /\ phase[p] = "up" /\ sends < MaxSends /\ Forwardable(p)
  /\ inbox' = ForwardedTo(podMap[p])
  /\ visited' = {p} /\ sends' = sends + 1
  /\ UNCHANGED <<phase, memory, redis, sockets, history>>

(* The pod that gets the message sends it in its turn: to its socket, or on. *)
HandleForward(p) ==
  LET rest == [inbox EXCEPT ![p] = Tail(@)] IN
  /\ Received(p, "forward")
  /\ \/ /\ ~Forwardable(p)
        /\ inbox' = rest /\ UNCHANGED visited
     \/ /\ Forwardable(p)
        /\ inbox' = IF phase[podMap[p]] = "up"
                    THEN [rest EXCEPT ![podMap[p]] = Append(@, Forward)]
                    ELSE rest
        /\ visited' = visited \cup {p}
  /\ UNCHANGED <<phase, memory, redis, sockets, sends, history>>

-----------------------------------------------------------------------------
(* Faults *)

(* The subscription of p drops an event. *)
LoseEvent(p) ==
  /\ Fault /\ inbox[p] # <<>>
  /\ inbox' = [inbox EXCEPT ![p] = Tail(@)]
  /\ UNCHANGED <<phase, memory, redis, sockets, forwards, raced>>

Crash(p) ==
  /\ Fault /\ phase[p] = "up"
  /\ phase' = [phase EXCEPT ![p] = "down"]
  /\ MarkDisconnected(p)
  /\ inbox' = [inbox EXCEPT ![p] = <<>>]
  /\ setting' = [setting EXCEPT ![p] = 0]
  /\ announcing' = [announcing EXCEPT ![p] = 0]
  /\ st' = [c \in Conns |-> IF at[c] = p THEN "gone" ELSE st[c]]
  /\ link' = IF link # None /\ at[link] = p THEN None ELSE link
  /\ UNCHANGED <<presence, at, forwards, raced>>

(* A record that names this pod is of the process it replaces. *)
SnapshotPresence(p) ==
  /\ phase[p] = "down"
  /\ phase' = [phase EXCEPT ![p] = "loaded"]
  /\ listed' = [listed EXCEPT ![p] = presence \notin {None, p}]
  /\ podMap' = [podMap EXCEPT ![p] = IF presence = p THEN None ELSE presence]
  /\ UNCHANGED <<conns, inbox, redis, sockets, forwards, history>>

Subscribe(p) ==
  /\ phase[p] = "loaded"
  /\ phase' = [phase EXCEPT ![p] = "up"]
  /\ UNCHANGED <<memory, inbox, redis, sockets, forwards, history>>

-----------------------------------------------------------------------------
ConnStep(c) ==
  \/ \E p \in Pods : Register(c, p)
  \/ SetConnection(c) \/ UnregisterConn(c)
  \/ DelPresence(c) \/ PublishDisconnect(c)

PodStep(p) ==
  \/ SetPresence(p) \/ PublishConnect(p)
  \/ HandleConnect(p) \/ HandleDisconnect(p) \/ HandleForward(p)
  \/ SendRemote(p)
  \/ LoseEvent(p) \/ Crash(p) \/ SnapshotPresence(p) \/ Subscribe(p)

Next ==
  \/ LinkLost \/ ExpirePresence
  \/ \E c \in Conns : ConnStep(c)
  \/ \E p \in Pods : PodStep(p)

Spec == Init /\ [][Next]_vars

-----------------------------------------------------------------------------
(* Once a pod writes to the connection that the agent uses, no event and no
   teardown of an earlier connection leaves the pod without one: this is what
   UnregisterConn promises of a reconnect (registry.go:256-268). *)
LiveSocketKept ==
  [][\A p \in Pods : conns[p] # None /\ conns[p] = link /\ link' = link
                       => conns'[p] # None]_vars

(* A pod that holds a connection says so, whatever the other pods publish:
   IsConnected, the pill and the counts read the same fact. *)
HeldIsListed == \A p \in Pods : conns[p] # None => listed[p]

(* A pod lists the agent only if a message has somewhere to go: a socket, one
   about to be stored, or another pod.  This is the ghost entry that ignoring
   the pod's own events prevents (registry.go:471-480). *)
ListedHasRoute ==
  \A p \in Pods : listed[p] => \/ conns[p] # None
                               \/ Registering(p)
                               \/ podMap[p] \notin {None, p}

(* If connections never came or went while an earlier change was on its way,
   and nothing failed, then once the dust has settled every pod knows where
   the agent is, or that it is nowhere, and the record says the same until it
   expires. *)
PodsAgree ==
  LET home == IF link = None THEN None ELSE at[link] IN
  Delivered /\ ~raced /\ faults = 0
    => /\ \A p \in Pods : listed[p] = (link # None) /\ podMap[p] = home
       /\ presence \in {None, home}

(* "The agent then holds a perfectly live WebSocket while the registry insists
   it is disconnected" (registry.go:265-266) does not happen: with every
   change delivered and no fault, every pod lists a connected agent. *)
LiveAgentIsListed ==
  Delivered /\ faults = 0 /\ link # None => \A p \in Pods : listed[p]

(* The other way round: with every change delivered and no fault, no pod lists
   an agent that is gone. *)
NoGhostListed ==
  Delivered /\ faults = 0 /\ link = None => \A p \in Pods : ~listed[p]

(* With every change delivered, a pod does not forward a message a second
   time: it would go round for ever, "an unbounded loop that wedges the pubsub
   consumer" (registry.go:591-592). *)
NoForwardLoop ==
  Delivered => \A p \in visited : inbox[p] = <<>> \/ ~Forwardable(p)

=============================================================================
