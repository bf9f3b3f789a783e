--------------------------- MODULE WebSocketBridge ---------------------------
(***************************************************************************)
(* Live updates: app/websocket/ in the API process.  redis_pubsub_listener *)
(* takes messages off the dashboard:updates channel and broadcasts them to *)
(* the sockets of ConnectionManager; dashboard_socket registers a socket   *)
(* and takes it out again; main.lifespan starts and ends the listener.     *)
(*                                                                         *)
(* One event loop runs them all.  broadcast iterates over the very set     *)
(* connect and disconnect change, and gives up the loop in every send.  A  *)
(* Python set iterator compares the set's size with the one it started     *)
(* from and raises RuntimeError if it differs; an addition made up for by  *)
(* a removal goes unnoticed, and what is left to visit may be any of them  *)
(* (the table may have been rebuilt).                                      *)
(***************************************************************************)
EXTENDS Integers, Sequences, FiniteSets

CONSTANTS
  Sockets,      \* WebSocket objects, one per handshake with a valid token
  MaxMessages   \* bound: messages published to the channel

ASSUME BridgeAssumption == IsFiniteSet(Sockets) /\ MaxMessages \in Nat

VARIABLES
  socket,        \* the network's side of a socket
  route,         \* its dashboard_socket call
  connections,   \* ConnectionManager._connections
  channel,       \* messages Redis has delivered to the listener
  published,     \* messages published so far
  redisUp,       \* the listener's Redis connection still answers
  listener,      \* the listener task
  sending,       \* the socket broadcast is awaiting a send to ({}: none)
  todo,          \* the sockets the iterator has yet to visit
  size,          \* the size of the set when the iterator was made
  dead,          \* broadcast's list of sockets whose send raised
  api,           \* the API process: its lifespan
  got,           \* history: who has received the message being broadcast
  stayed         \* history: who was connected when the broadcast began and no
                 \* socket was added since

network == <<socket, route>>
redis == <<channel, published, redisUp>>
broadcasting == <<sending, todo, size, dead, got>>
vars == <<socket, route, connections, channel, published, redisUp, listener,
          sending, todo, size, dead, api, got, stayed>>

-----------------------------------------------------------------------------
(* dashboard_socket and ConnectionManager *)

\* The handshake is accepted and the socket added.
Connect(s) ==
  /\ api = "running"
  /\ socket[s] = "new"
  /\ socket' = [socket EXCEPT ![s] = "open"]
  /\ route' = [route EXCEPT ![s] = "receiving"]
  /\ connections' = connections \cup {s}
  /\ todo' \in IF sending = {} THEN {todo} ELSE SUBSET connections'
  /\ stayed' = {}
  /\ UNCHANGED <<redis, listener, sending, size, dead, got, api>>

\* The client goes away.
Close(s) ==
  /\ socket[s] = "open"
  /\ socket' = [socket EXCEPT ![s] = "closed"]
  /\ UNCHANGED <<route, connections, redis, listener, broadcasting, api, stayed>>

\* disconnect(): the socket leaves the set, which an iterator may be visiting.
Disconnect(S) ==
  /\ connections' = connections \ S
  /\ stayed' = stayed \ S

\* receive_text raises WebSocketDisconnect.
RouteDisconnects(s) ==
  /\ route[s] = "receiving" /\ socket[s] = "closed"
  /\ route' = [route EXCEPT ![s] = "ended"]
  /\ Disconnect({s})
  /\ todo' = todo \ {s}
  /\ UNCHANGED <<socket, redis, listener, sending, size, dead, got, api>>

\* receive_text raises something else (a frame that is not text): the call ends,
\* the server closes the socket, and it stays in the set.
RouteCrashes(s) ==
  /\ route[s] = "receiving" /\ socket[s] = "open"
  /\ route' = [route EXCEPT ![s] = "ended"]
  /\ socket' = [socket EXCEPT ![s] = "closed"]
  /\ UNCHANGED <<connections, redis, listener, broadcasting, api, stayed>>

-----------------------------------------------------------------------------
(* The channel *)

\* A handler publishes; Redis keeps nothing for a listener that is not there.
PublishUpdate ==
  /\ published < MaxMessages
  /\ published' = published + 1
  /\ channel' = IF listener \in {"listening", "broadcasting"} /\ redisUp
                THEN Append(channel, published + 1) ELSE channel
  /\ UNCHANGED <<network, connections, redisUp, listener, broadcasting, api, stayed>>

LoseRedis ==
  /\ redisUp
  /\ redisUp' = FALSE
  /\ UNCHANGED <<network, connections, channel, published, listener, broadcasting, api, stayed>>

-----------------------------------------------------------------------------
(* redis_pubsub_listener and broadcast *)

\* Mutation: the listener ends without its `finally`.
EndedSubscribed(how) ==
  /\ listener' = how
  /\ sending' = {} /\ todo' = {} /\ size' = 0 /\ dead' = {} /\ got' = {}
  /\ stayed' = {}
  /\ UNCHANGED channel

\* The `finally` of the listener: unsubscribed, nothing more to visit.
Ended(how) ==
  /\ listener' = how
  /\ channel' = <<>>
  /\ sending' = {} /\ todo' = {} /\ size' = 0 /\ dead' = {} /\ got' = {}
  /\ stayed' = {}

Subscribe ==
  /\ listener = "starting"
  /\ IF redisUp
     THEN /\ listener' = "listening"
          /\ UNCHANGED <<channel, broadcasting, stayed>>
     ELSE Ended("dead")
  /\ UNCHANGED <<network, connections, published, redisUp, api>>

\* listen() raises: the connection is gone.
ListenFails ==
  /\ listener = "listening" /\ ~redisUp
  /\ Ended("dead")
  /\ UNCHANGED <<network, connections, published, redisUp, api>>

\* Mutation: a message is dropped while another is being broadcast.
DropMalformedAnyTime ==
  /\ listener \in {"listening", "broadcasting"} /\ channel # <<>>
  /\ channel' = Tail(channel)
  /\ UNCHANGED <<network, connections, published, redisUp, listener, broadcasting, api, stayed>>

\* A message that is not JSON is dropped.
DropMalformed ==
  /\ listener = "listening" /\ channel # <<>>
  /\ channel' = Tail(channel)
  /\ UNCHANGED <<network, connections, published, redisUp, listener, broadcasting, api, stayed>>

\* A broadcast begins: to the first socket, or to nobody.
BroadcastBegins ==
  /\ listener = "listening" /\ channel # <<>>
  /\ IF connections = {}
     THEN /\ channel' = Tail(channel)
          /\ UNCHANGED <<listener, broadcasting, stayed>>
     ELSE \E s \in connections :
            /\ listener' = "broadcasting"
            /\ sending' = {s} /\ todo' = connections \ {s} /\ size' = Cardinality(connections)
            /\ dead' = {} /\ got' = {}
            /\ stayed' = connections
            /\ UNCHANGED channel
  /\ UNCHANGED <<network, connections, published, redisUp, api>>

\* After a send: the iterator raises, goes on, or is done and the dead sockets
\* are disconnected.
VisitNext(failed, reached) ==
  \/ /\ Cardinality(connections) # size
     /\ Ended("dead")
     /\ UNCHANGED connections
  \/ /\ Cardinality(connections) = size
     /\ \E s \in todo :
          /\ sending' = {s} /\ todo' = todo \ {s}
          /\ dead' = failed /\ got' = reached
          /\ UNCHANGED <<listener, channel, connections, size, stayed>>
  \/ /\ Cardinality(connections) = size
     /\ todo = {}
     /\ listener' = "listening"
     /\ channel' = Tail(channel)
     /\ Disconnect(failed)
     /\ sending' = {} /\ size' = 0 /\ dead' = {} /\ got' = reached
     /\ UNCHANGED todo

\* Mutation: a send that raises ends the loop over the sockets.
SendRaisesOut ==
  /\ listener = "broadcasting"
  /\ \E s \in sending :
       /\ socket[s] = "closed"
       /\ listener' = "listening"
       /\ channel' = Tail(channel)
       /\ Disconnect({s})
       /\ sending' = {} /\ todo' = {} /\ size' = 0 /\ dead' = {}
       /\ UNCHANGED got
  /\ UNCHANGED <<network, published, redisUp, api>>

\* Mutation: a socket is listed as dead whether its send raised or not.
SendReturnsListed ==
  /\ listener = "broadcasting"
  /\ VisitNext(dead \cup sending, got \cup sending)
  /\ UNCHANGED <<network, published, redisUp, api>>

\* send_text returns; to a socket that has closed it may, too.
SendReturns ==
  /\ listener = "broadcasting"
  /\ VisitNext(dead, got \cup sending)
  /\ UNCHANGED <<network, published, redisUp, api>>

\* send_text raises.
SendRaises ==
  /\ listener = "broadcasting"
  /\ \A s \in sending : socket[s] = "closed"
  /\ VisitNext(dead \cup sending, got)
  /\ UNCHANGED <<network, published, redisUp, api>>

-----------------------------------------------------------------------------
(* lifespan *)

\* The server has ended every WebSocket call and stops: the listener is
\* cancelled and awaited.  If it had died, or cannot unsubscribe, an exception
\* other than CancelledError comes out of the await, past publisher.stop().
Shutdown ==
  /\ api = "running"
  /\ \A s \in Sockets : route[s] # "receiving"
  /\ IF listener = "dead"
     THEN /\ api' = "failed"
          /\ UNCHANGED <<listener, channel, broadcasting, stayed>>
     ELSE /\ api' = IF redisUp \/ listener = "starting" THEN "stopped" ELSE "failed"
          /\ Ended("cancelled")
  /\ UNCHANGED <<network, connections, published, redisUp>>

-----------------------------------------------------------------------------

Init ==
  /\ socket = [s \in Sockets |-> "new"]
  /\ route = [s \in Sockets |-> "none"]
  /\ connections = {}
  /\ channel = <<>>
  /\ published = 0
  /\ redisUp \in BOOLEAN
  /\ listener = "starting"
  /\ sending = {} /\ todo = {} /\ size = 0 /\ dead = {} /\ got = {}
  /\ api = "running"
  /\ stayed = {}

\* A step of the listener task.
Listen ==
  \/ Subscribe
  \/ ListenFails
  \/ DropMalformed
  \/ BroadcastBegins
  \/ SendReturns
  \/ SendRaises

Next ==
  \/ \E s \in Sockets :
       \/ Connect(s)
       \/ Close(s)
       \/ RouteDisconnects(s)
       \/ RouteCrashes(s)
  \/ PublishUpdate
  \/ LoseRedis
  \/ Listen
  \/ Shutdown

Spec == Init /\ [][Next]_vars

\* The event loop runs the listener whenever it can take a step: a send ends,
\* because the server closes a client that answers no ping.
FairSpec == Spec /\ WF_vars(Listen)

-----------------------------------------------------------------------------
(* Properties *)

\* Every variable has its type, and a broadcast is under way exactly while a
\* send is awaited.
TypeOK ==
  /\ socket \in [Sockets -> {"new", "open", "closed"}]
  /\ route \in [Sockets -> {"none", "receiving", "ended"}]
  /\ connections \subseteq Sockets /\ stayed \subseteq connections
  /\ channel \in Seq(1..MaxMessages) /\ published \in 0..MaxMessages
  /\ redisUp \in BOOLEAN
  /\ listener \in {"starting", "listening", "broadcasting", "dead", "cancelled"}
  /\ sending \subseteq Sockets /\ todo \subseteq connections
  /\ size \in 0..Cardinality(Sockets)
  /\ dead \subseteq Sockets /\ got \subseteq Sockets
  /\ api \in {"running", "stopped", "failed"}
  /\ (listener = "broadcasting") <=> (Cardinality(sending) = 1)
  /\ (listener = "broadcasting") => channel # <<>>

\* A client that is still there stays registered: whatever joins, leaves or
\* fails during a broadcast, only a socket that has closed is taken out of the
\* set (connect, disconnect, and broadcast's list of dead ones).
LiveIsRegistered ==
  \A s \in Sockets : socket[s] = "open" => s \in connections

\* A broadcast that comes to its end has reached every socket that was in the
\* set all along, or has dropped it: one that fails keeps no message from the
\* others, and an iterator that lost its place never passes for a finished one
\* unless a socket was added meanwhile.
BroadcastReachesAll ==
  [][listener = "broadcasting" /\ listener' = "listening"
       => \A s \in stayed : s \in got' \/ s \notin connections']_vars

\* What the listener has received does not pile up: it is broadcast or dropped,
\* or the listener ends and with it its subscription.
MessagesDrain == channel # <<>> ~> channel = <<>>

\* Violated.  The listener calls broadcast for every message received, and a
\* socket that fails is dropped (docs/WebSocket.md:26-29, the warning of
\* broadcast): only the loss of Redis ends it.  A client that comes or goes
\* while a send is awaited ends it as well, for every client and for good.
BridgeSurvives == listener = "dead" => ~redisUp

=============================================================================
