----------------------------- MODULE DashboardProofs ------------------------
(***************************************************************************)
(* Of Dashboard, for any number of sockets, messages, requests and changes *)
(* of the tables: its types, that a live client never loses its place in   *)
(* the connection set, and that a broadcast that ends has reached all who  *)
(* stayed.                                                                 *)
(***************************************************************************)
EXTENDS Dashboard, FiniteSetTheorems, TLAPS

\* What the steps need of Cardinality.
LEMMA Cards ==
  /\ Cardinality({}) = 0
  /\ \A s : Cardinality({s}) = 1
  /\ Cardinality(Sockets) \in Nat
  /\ \A S \in SUBSET Sockets : Cardinality(S) \in 0..Cardinality(Sockets)
<1>1. Cardinality({}) = 0
  BY FS_EmptySet
<1>2. \A s : Cardinality({s}) = 1
  BY FS_Singleton
<1>3. IsFiniteSet(Sockets)
  BY BridgeAssumption
<1>4. Cardinality(Sockets) \in Nat
  BY <1>3, FS_CardinalityType
<1>5. ASSUME NEW S \in SUBSET Sockets
      PROVE  Cardinality(S) \in 0..Cardinality(Sockets)
  <2>1. IsFiniteSet(S) /\ Cardinality(S) <= Cardinality(Sockets)
    BY <1>3, FS_Subset
  <2>2. Cardinality(S) \in Nat
    BY <2>1, FS_CardinalityType
  <2> QED
    BY <2>1, <2>2, <1>4
<1> QED
  BY <1>1, <1>2, <1>4, <1>5

LEMMA AppendFills ==
  ASSUME NEW S, NEW seq \in Seq(S), NEW x \in S
  PROVE  Append(seq, x) \in Seq(S) /\ Append(seq, x) # <<>>
<1>1. Append(seq, x) \in Seq(S) /\ Len(Append(seq, x)) = Len(seq) + 1 /\ Len(seq) \in Nat
  OBVIOUS
<1>2. Len(<<>>) = 0
  OBVIOUS
<1> QED
  BY <1>1, <1>2

\* The listener's end leaves nothing of a broadcast.
LEMMA EndedType ==
  ASSUME TypeOK, NEW how \in {"dead", "cancelled"}, Ended(how)
  PROVE  /\ listener' \in {"dead", "cancelled"}
         /\ channel' \in Seq(1..MaxMessages)
         /\ sending' = {} /\ todo' = {} /\ size' = 0 /\ dead' = {} /\ got' = {}
         /\ stayed' = {}
         /\ Cardinality(sending') = 0
BY Cards DEF Ended

LEMMA VisitNextType ==
  ASSUME TypeOK, listener = "broadcasting",
         NEW failed \in SUBSET Sockets, NEW reached \in SUBSET Sockets,
         VisitNext(failed, reached),
         UNCHANGED <<network, published, redisUp, api>>
  PROVE  TypeOK'
<1> USE BridgeAssumption, Cards DEF TypeOK, VisitNext, network
<1>1. CASE Ended("dead") /\ UNCHANGED connections
  BY <1>1, EndedType
<1>2. CASE /\ \E s \in todo :
                /\ sending' = {s} /\ todo' = todo \ {s}
                /\ dead' = failed /\ got' = reached
                /\ UNCHANGED <<listener, channel, connections, size, stayed>>
  BY <1>2
<1>3. CASE /\ listener' = "listening"
           /\ channel' = Tail(channel)
           /\ Disconnect(failed)
           /\ sending' = {} /\ size' = 0 /\ dead' = {} /\ got' = reached
           /\ todo = {} /\ UNCHANGED todo
  BY <1>3 DEF Disconnect
<1> QED
  BY <1>1, <1>2, <1>3

LEMMA BridgeTypeInit == Init => TypeOK
BY BridgeAssumption, Cards DEF Init, TypeOK

LEMMA BridgeTypeStep == TypeOK /\ [Next]_vars => TypeOK'
<1> SUFFICES ASSUME TypeOK, [Next]_vars
             PROVE  TypeOK'
  OBVIOUS
<1> USE BridgeAssumption, Cards DEF TypeOK, network, redis, broadcasting
<1>1. ASSUME NEW s \in Sockets, Connect(s)
      PROVE  TypeOK'
  BY <1>1 DEF Connect
<1>2. ASSUME NEW s \in Sockets, Close(s)
      PROVE  TypeOK'
  BY <1>2 DEF Close
<1>3. ASSUME NEW s \in Sockets, RouteDisconnects(s)
      PROVE  TypeOK'
  BY <1>3 DEF RouteDisconnects, Disconnect
<1>4. ASSUME NEW s \in Sockets, RouteCrashes(s)
      PROVE  TypeOK'
  BY <1>4 DEF RouteCrashes
<1>5. CASE PublishUpdate
  <2>1. published + 1 \in 1..MaxMessages /\ published' \in 0..MaxMessages
    BY <1>5 DEF PublishUpdate
  <2>2. channel' = channel \/ channel' = Append(channel, published + 1)
    BY <1>5 DEF PublishUpdate
  <2>3. channel \in Seq(1..MaxMessages)
    OBVIOUS
  <2>4. channel' \in Seq(1..MaxMessages) /\ (channel # <<>> => channel' # <<>>)
    <3> HIDE DEF TypeOK
    <3>1. \A S : \A seq \in Seq(S) : \A x \in S :
            Append(seq, x) \in Seq(S) /\ Append(seq, x) # <<>>
      BY AppendFills, Zenon
    <3> QED
      BY <3>1, <2>1, <2>2, <2>3, Zenon
  <2> QED
    BY <1>5, <2>1, <2>4 DEF PublishUpdate
<1>6. CASE LoseRedis
  BY <1>6 DEF LoseRedis
<1>7. CASE Subscribe
  <2>1. CASE redisUp
    BY <1>7, <2>1 DEF Subscribe
  <2>2. CASE ~redisUp
    BY <1>7, <2>2, EndedType DEF Subscribe
  <2> QED
    BY <2>1, <2>2
<1>8. CASE ListenFails
  BY <1>8, EndedType DEF ListenFails
<1>9. CASE DropMalformed
  BY <1>9 DEF DropMalformed
<1>10. CASE BroadcastBegins
  <2>1. channel \in Seq(1..MaxMessages) /\ channel # <<>> /\ listener = "listening"
    BY <1>10 DEF BroadcastBegins
  <2>2. CASE connections = {}
    <3>1. channel' = Tail(channel) /\ UNCHANGED <<listener, sending, todo, size, dead, got, stayed>>
      BY <1>10, <2>2 DEF BroadcastBegins
    <3>2. UNCHANGED <<socket, route, connections, published, redisUp, api>>
      BY <1>10 DEF BroadcastBegins
    <3>3. channel' \in Seq(1..MaxMessages)
      BY <2>1, <3>1
    <3> QED
      BY <2>1, <3>1, <3>2, <3>3
  <2>3. CASE connections # {}
    <3>1. PICK s \in connections :
            /\ listener' = "broadcasting"
            /\ sending' = {s} /\ todo' = connections \ {s} /\ size' = Cardinality(connections)
            /\ dead' = {} /\ got' = {}
            /\ stayed' = connections
            /\ UNCHANGED channel
      BY <1>10, <2>3 DEF BroadcastBegins
    <3>2. UNCHANGED <<socket, route, connections, published, redisUp, api>>
      BY <1>10 DEF BroadcastBegins
    <3>3. Cardinality(connections) \in 0..Cardinality(Sockets) /\ Cardinality({s}) = 1
      BY Cards
    <3> QED
      BY <2>1, <3>1, <3>2, <3>3
  <2> QED
    BY <2>2, <2>3
<1>11. CASE SendReturns
  <2>1. dead \in SUBSET Sockets /\ got \cup sending \in SUBSET Sockets
    OBVIOUS
  <2> QED
    BY <1>11, <2>1, VisitNextType DEF SendReturns
<1>12. CASE SendRaises
  <2>1. dead \cup sending \in SUBSET Sockets /\ got \in SUBSET Sockets
    OBVIOUS
  <2> QED
    BY <1>12, <2>1, VisitNextType DEF SendRaises
<1>13. CASE Shutdown
  <2>1. CASE listener = "dead"
    BY <1>13, <2>1 DEF Shutdown
  <2>2. CASE listener # "dead"
    BY <1>13, <2>2, EndedType DEF Shutdown
  <2> QED
    BY <2>1, <2>2
<1>14. CASE UNCHANGED vars
  BY <1>14 DEF vars
<1> QED
  BY <1>1, <1>2, <1>3, <1>4, <1>5, <1>6, <1>7, <1>8, <1>9, <1>10, <1>11, <1>12, <1>13, <1>14
  DEF Next, Listen

\* Every state holds values of the declared types, and a send is awaited
\* exactly while a broadcast is under way.
THEOREM BridgeType == Spec => []TypeOK
BY BridgeTypeInit, BridgeTypeStep, PTL DEF Spec

-----------------------------------------------------------------------------
(* Who is registered *)

\* The inductive invariant of the registration: what a broadcast will take out
\* of the set at its end has closed.
Registered == LiveIsRegistered /\ \A s \in dead : socket[s] = "closed"

LEMMA VisitNextRegistered ==
  ASSUME TypeOK, Registered, NEW failed, \A s \in failed : socket[s] = "closed",
         NEW reached, VisitNext(failed, reached), UNCHANGED socket
  PROVE  Registered'
BY DEF TypeOK, Registered, LiveIsRegistered, VisitNext, Ended, Disconnect

LEMMA RegisteredStep == TypeOK /\ Registered /\ [Next]_vars => Registered'
<1> SUFFICES ASSUME TypeOK, Registered, [Next]_vars
             PROVE  Registered'
  OBVIOUS
<1> USE DEF TypeOK, Registered, LiveIsRegistered, network, redis, broadcasting
<1>1. ASSUME NEW s \in Sockets, Connect(s)
      PROVE  Registered'
  BY <1>1 DEF Connect
<1>2. ASSUME NEW s \in Sockets, Close(s) \/ RouteCrashes(s)
      PROVE  Registered'
  BY <1>2 DEF Close, RouteCrashes
<1>3. ASSUME NEW s \in Sockets, RouteDisconnects(s)
      PROVE  Registered'
  BY <1>3 DEF RouteDisconnects, Disconnect
<1>4. CASE PublishUpdate \/ LoseRedis \/ DropMalformed
  BY <1>4 DEF PublishUpdate, LoseRedis, DropMalformed
<1>5. CASE Subscribe \/ ListenFails \/ Shutdown
  BY <1>5 DEF Subscribe, ListenFails, Shutdown, Ended
<1>6. CASE BroadcastBegins
  BY <1>6 DEF BroadcastBegins
<1>7. CASE SendReturns
  BY <1>7, VisitNextRegistered DEF SendReturns
<1>8. CASE SendRaises
  <2>1. \A s \in dead \cup sending : socket[s] = "closed"
    BY <1>8 DEF SendRaises
  <2> QED
    BY <1>8, <2>1, VisitNextRegistered DEF SendRaises
<1>9. CASE UNCHANGED vars
  BY <1>9 DEF vars
<1> QED
  BY <1>1, <1>2, <1>3, <1>4, <1>5, <1>6, <1>7, <1>8, <1>9 DEF Next, Listen

\* Whatever joins, leaves or fails during a broadcast, a client that is still
\* there keeps its place in the connection set.
THEOREM BridgeLiveIsRegistered == Spec => []LiveIsRegistered
<1>1. Init => Registered
  BY DEF Init, Registered, LiveIsRegistered
<1>2. Registered => LiveIsRegistered
  BY DEF Registered
<1> QED
  BY <1>1, <1>2, RegisteredStep, BridgeType, PTL DEF Spec
-----------------------------------------------------------------------------
(* Who is reached *)

\* The inductive invariant of a broadcast: a socket that was in the set when it
\* began, and has been since, has the message, or its send raised or is awaited,
\* or the iterator has yet to visit it.
Covered == listener = "broadcasting" => stayed \subseteq got \cup dead \cup sending \cup todo

LEMMA VisitNextCovers ==
  ASSUME Covered, listener = "broadcasting", NEW failed, NEW reached,
         got \cup dead \cup sending \subseteq failed \cup reached,
         VisitNext(failed, reached)
  PROVE  /\ Covered'
         /\ listener' = "listening" => \A s \in stayed : s \in got' \/ s \notin connections'
BY DEF Covered, VisitNext, Ended, Disconnect

LEMMA CoveredStep == Covered /\ [Next]_vars => Covered'
<1> SUFFICES ASSUME Covered, [Next]_vars PROVE Covered'
  OBVIOUS
<1> USE DEF Covered, network, redis, broadcasting
<1>1. ASSUME NEW s \in Sockets, Connect(s) PROVE Covered'
  BY <1>1 DEF Connect
<1>2. ASSUME NEW s \in Sockets, Close(s) \/ RouteCrashes(s) PROVE Covered'
  BY <1>2 DEF Close, RouteCrashes
<1>3. ASSUME NEW s \in Sockets, RouteDisconnects(s) PROVE Covered'
  BY <1>3 DEF RouteDisconnects, Disconnect
<1>4. CASE PublishUpdate \/ LoseRedis \/ DropMalformed
  BY <1>4 DEF PublishUpdate, LoseRedis, DropMalformed
<1>5. CASE Subscribe \/ ListenFails \/ Shutdown
  BY <1>5 DEF Subscribe, ListenFails, Shutdown, Ended
<1>6. CASE BroadcastBegins
  BY <1>6 DEF BroadcastBegins
<1>7. CASE SendReturns \/ SendRaises
  BY <1>7, VisitNextCovers DEF SendReturns, SendRaises
<1>8. CASE UNCHANGED vars
  BY <1>8 DEF vars
<1> QED
  BY <1>1, <1>2, <1>3, <1>4, <1>5, <1>6, <1>7, <1>8 DEF Next, Listen

\* A broadcast that comes to its end has reached every socket that was in the set
\* all along, or has dropped it, for any number of sockets: no send that fails,
\* and no socket that leaves, keeps the message from another.
THEOREM BridgeBroadcastReachesAll == Spec => BroadcastReachesAll
<1>1. Init => Covered
  BY DEF Init, Covered
<1>2. Covered /\ [Next]_vars =>
        [listener = "broadcasting" /\ listener' = "listening"
           => \A s \in stayed : s \in got' \/ s \notin connections']_vars
  <2> SUFFICES ASSUME Covered, Next, listener = "broadcasting", listener' = "listening"
               PROVE  \A s \in stayed : s \in got' \/ s \notin connections'
    OBVIOUS
  <2>1. SendReturns \/ SendRaises
    BY DEF Next, Listen, Connect, Close, RouteDisconnects, RouteCrashes, PublishUpdate,
       LoseRedis, Subscribe, ListenFails, DropMalformed, BroadcastBegins, Shutdown, Ended
  <2> QED
    BY <2>1, VisitNextCovers DEF SendReturns, SendRaises
<1> QED
  BY <1>1, <1>2, CoveredStep, PTL DEF Spec, BroadcastReachesAll
-----------------------------------------------------------------------------
(* The summary *)

LEMMA SummaryTypeInit == Cached!Init => Cached!TypeOK
BY DashboardAssumption DEF Cached!Init, Cached!TypeOK, Cached!Request, Cached!Idle

LEMMA SummaryTypeStep == Cached!TypeOK /\ [Cached!Next]_(Cached!vars) => Cached!TypeOK'
<1> SUFFICES ASSUME Cached!TypeOK, [Cached!Next]_(Cached!vars) PROVE Cached!TypeOK'
  OBVIOUS
<1>0. /\ \A c \in Clients : req[c] \in Cached!Request
      /\ Cached!Idle \in Cached!Request /\ Cached!Idle.pc = "idle"
      /\ version \in 0..MaxChanges /\ MaxChanges \in Nat
      /\ \A f \in Cached!Figures : f.first \in 0..MaxChanges /\ f.last \in 0..MaxChanges
      /\ req \in [Clients -> Cached!Request]
  BY DashboardAssumption DEF Cached!TypeOK, Cached!Request, Cached!Idle, Cached!Figures
<1>1. \A q \in Cached!Request :
        /\ q.pc = "last" => q.first \in 0..MaxChanges
        /\ q.pc = "set" => q.summary \in Cached!Figures
  BY DEF Cached!Request, Cached!Idle
<1>2. ASSUME NEW c \in Clients, NEW q \in Cached!Request, Cached!Continue(c, q),
             UNCHANGED version, cache' \in Cached!Figures \cup {Cached!NoKey},
             cache' # Cached!NoKey => cache'.first <= cache'.last /\ cache'.last <= version,
             q.pc = "last" => q.first <= version,
             q.pc = "set" => q.summary.first <= q.summary.last /\ q.summary.last <= version
      PROVE  Cached!TypeOK'
  <2>1. req' \in [Clients -> Cached!Request] /\ \A d \in Clients : req'[d] = IF d = c THEN q ELSE req[d]
    BY <1>0, <1>2 DEF Cached!Continue
  <2>2. \A d \in Clients :
          /\ req'[d].pc = "last" => req'[d].first <= version
          /\ req'[d].pc = "set" => /\ req'[d].summary.first <= req'[d].summary.last
                                   /\ req'[d].summary.last <= version
    BY <1>2, <2>1 DEF Cached!TypeOK
  <2>3. version' \in 0..MaxChanges /\ version' = version
    BY <1>0, <1>2
  <2>4. Cached!NoKey' = Cached!NoKey
    BY DEF Cached!NoKey
  <2> QED
    BY <1>2, <2>1, <2>2, <2>3, <2>4 DEF Cached!TypeOK
<1>3. CASE Cached!Change
  <2>1. version' = version + 1 /\ version' \in 0..MaxChanges /\ UNCHANGED <<cache, req>>
    BY <1>0, <1>3 DEF Cached!Change
  <2>2. \A n \in 0..MaxChanges : n <= version => n <= version'
    BY <1>0, <2>1
  <2>3. cache # Cached!NoKey => cache.last \in 0..MaxChanges
    BY <1>0 DEF Cached!TypeOK
  <2>4. \A c \in Clients : /\ req[c].pc = "last" => req[c].first \in 0..MaxChanges
                           /\ req[c].pc = "set" => req[c].summary.last \in 0..MaxChanges
    BY <1>0, <1>1
  <2> QED
    BY <2>1, <2>2, <2>3, <2>4 DEF Cached!TypeOK, Cached!NoKey
<1>4. CASE Cached!Expire
  BY <1>4 DEF Cached!Expire, Cached!TypeOK, Cached!NoKey
<1>5. ASSUME NEW c \in Clients, Cached!Miss(c) PROVE Cached!TypeOK'
  <2>1. PICK q \in Cached!Request : q = [pc |-> "first"]
    BY DEF Cached!Request
  <2> QED
    BY <1>2, <1>5, <2>1 DEF Cached!Miss, Cached!TypeOK
<1>6. ASSUME NEW c \in Clients, Cached!SelectFirst(c) PROVE Cached!TypeOK'
  <2>1. PICK q \in Cached!Request : q = [pc |-> "last", first |-> version]
    BY <1>0 DEF Cached!Request
  <2>2. q.first <= version /\ q.pc = "last"
    BY <1>0, <2>1
  <2> QED
    BY <1>2, <1>6, <2>1, <2>2 DEF Cached!SelectFirst, Cached!TypeOK
<1>7. ASSUME NEW c \in Clients, Cached!SelectLast(c) PROVE Cached!TypeOK'
  <2>1. req[c].first \in 0..MaxChanges /\ req[c].first <= version
    BY <1>0, <1>1, <1>7 DEF Cached!SelectLast, Cached!TypeOK
  <2>2. PICK q \in Cached!Request :
          q = [pc |-> "set", summary |-> [first |-> req[c].first, last |-> version]]
    BY <1>0, <2>1 DEF Cached!Request, Cached!Figures
  <2>3. q.pc = "set" /\ q.summary.first <= q.summary.last /\ q.summary.last <= version
    BY <1>0, <2>1, <2>2
  <2> QED
    BY <1>2, <1>7, <2>2, <2>3 DEF Cached!SelectLast, Cached!TypeOK
<1>8. ASSUME NEW c \in Clients, Cached!SetSummary(c) PROVE Cached!TypeOK'
  <2>1. /\ req[c].summary \in Cached!Figures
        /\ req[c].summary.first <= req[c].summary.last /\ req[c].summary.last <= version
    BY <1>0, <1>1, <1>8 DEF Cached!SetSummary, Cached!TypeOK
  <2> QED
    BY <1>0, <1>2, <1>8, <2>1 DEF Cached!SetSummary
<1>9. ASSUME NEW c \in Clients, Cached!Fail(c) PROVE Cached!TypeOK'
  BY <1>0, <1>2, <1>9 DEF Cached!Fail, Cached!TypeOK
<1>10. CASE UNCHANGED Cached!vars
  BY <1>10 DEF Cached!vars, Cached!TypeOK, Cached!NoKey
<1> QED
  BY <1>3, <1>4, <1>5, <1>6, <1>7, <1>8, <1>9, <1>10 DEF Cached!Next, Cached!Step

\* However requests overlap, fail and store late, the cached summary is put
\* together from figures that the tables did hold, the first no younger than the
\* last.
THEOREM SummaryType == Cached!Spec => []Cached!TypeOK
BY SummaryTypeInit, SummaryTypeStep, PTL DEF Cached!Spec
-----------------------------------------------------------------------------
(* What a client is served *)

\* Updates and summary keep their types side by side, the live updates and the
\* requests for the summary running in one process.
THEOREM DashboardType == DashboardSpec => []DashboardTypeOK
<1>1. DashboardInit => Init /\ Cached!Init
  BY DEF DashboardInit
<1>2. ASSUME [DashboardNext]_<<focus, vars, summaryVars>>
      PROVE  [Next]_vars /\ [Cached!Next]_(Cached!vars)
  BY <1>2 DEF DashboardNext, vars, summaryVars, Cached!vars
<1>3. TypeOK /\ Cached!TypeOK => DashboardTypeOK
  BY DEF DashboardTypeOK
<1> QED
  BY <1>1, <1>2, <1>3, BridgeTypeInit, BridgeTypeStep, SummaryTypeInit, SummaryTypeStep, PTL
  DEF DashboardSpec
=============================================================================
