------------------------ MODULE EventConsumerProofs ------------------------
(***************************************************************************)
(* Theorems of EventConsumer, for every set of topics and events, every    *)
(* retry limit and every bound on records and process exits.               *)
(***************************************************************************)
EXTENDS EventConsumer, TLAPS


-----------------------------------------------------------------------------
(* Types *)

\* The record in process is one of the log.
LEMMA CurIdType == TypeOK /\ pc \in InProcess => CurId \in Ids /\ cur.topic \in Topics
BY DEF TypeOK, Types, Offsets, CurId, Place

LEMMA NoneType == None \in Place
BY ConsumerAssumption DEF None, Place

LEMMA TypesStep == TypeOK /\ [Next]_vars => Types'
<1> SUFFICES ASSUME Types, TypeOK, [Next]_vars PROVE Types'
  BY DEF TypeOK
<1>1. ASSUME NEW id \in Ids, Produce(id) PROVE Types'
  BY <1>1, ConsumerAssumption DEF Produce, Types, redis, history
<1>2. CASE AutoCommit
  BY <1>2 DEF AutoCommit, Types, env, redis, history
<1>3. ASSUME NEW t \in Topics, Fetch(t) PROVE Types'
  <2>1. position' \in [Topics -> Nat] /\ log[t][position[t] + 1] \in Ids
    BY <1>3 DEF Fetch, Types
  <2>2. [topic |-> t, offset |-> position[t] + 1] \in Place
    BY DEF Place, Types
  <2>3. \/ /\ cur' = None /\ attempt' = 0 /\ pc' = "dead"
           /\ committed' \in {committed, position'}
           /\ brokenOff' = brokenOff \cup {log[t][position[t] + 1]}
        \/ /\ cur' = [topic |-> t, offset |-> position[t] + 1]
           /\ pc' \in InProcess
           /\ UNCHANGED <<committed, attempt, brokenOff>>
    BY <1>3 DEF Fetch, TaskDies, InProcess
  <2>4. /\ cur' \in Place
        /\ committed' \in [Topics -> Nat]
        /\ brokenOff' \subseteq Ids
        /\ pc' \in InProcess \cup {"dead"}
    BY <2>1, <2>2, <2>3, NoneType DEF Types
  <2>5. attempt' \in 0..MaxRetries
    BY <2>3, ConsumerAssumption DEF Types
  <2> QED
    BY <1>3, <2>1, <2>4, <2>5 DEF Fetch, Types, env, redis
<1>12. ASSUME NEW t \in Topics, Discard(t) PROVE Types'
  <2>1. position' \in [Topics -> Nat] /\ log[t][position[t] + 1] \in Ids
    BY <1>12 DEF Discard, Types
  <2>2. /\ cur' = None /\ attempt' = 0 /\ pc' = "dead"
        /\ committed' \in {committed, position'}
    BY <1>12 DEF Discard, TaskDies
  <2>3. attempt' \in 0..MaxRetries /\ committed' \in [Topics -> Nat]
    BY <2>1, <2>2, ConsumerAssumption DEF Types
  <2> QED
    BY <1>12, <2>1, <2>2, <2>3, NoneType DEF Discard, Types, env, redis
<1>4. CASE MarkSeen \/ MarkFails
  <2>1. CurId \in Ids
    BY <1>4, CurIdType DEF MarkSeen, MarkFails, InProcess
  <2>2. /\ cur' \in Place
        /\ seen' \subseteq Ids
        /\ brokenOff' \subseteq Ids
        /\ uncovered' \subseteq Ids
        /\ attempt' \in 0..MaxRetries
        /\ pc' \in InProcess \cup {"polling"}
    BY <1>4, <2>1, NoneType, ConsumerAssumption
       DEF MarkSeen, MarkFails, Finish, Types, InProcess, history
  <2> QED
    BY <1>4, <2>2 DEF MarkSeen, MarkFails, Types, env
<1>5. CASE Handle \/ HandleFails
  <2>1. CurId \in Ids
    BY <1>5, CurIdType DEF Handle, HandleFails, InProcess
  <2>2. applied' \in [Ids -> Nat]
    <3>1. applied \in [Ids -> Nat]
      BY DEF Types
    <3>2. \/ applied' = applied
          \/ applied' = [applied EXCEPT ![CurId] = @ + 1]
      BY <1>5 DEF Handle, HandleFails
    <3> QED
      BY <2>1, <3>1, <3>2
  <2>3. /\ cur' \in Place
        /\ uncovered' \subseteq Ids
        /\ attempt' \in 0..MaxRetries
        /\ pc' \in InProcess \cup {"polling"}
    BY <1>5, <2>1, NoneType, ConsumerAssumption
       DEF Handle, HandleFails, Finish, Types, InProcess, history
  <2> QED
    BY <1>5, <2>2, <2>3 DEF Handle, HandleFails, Types, env, redis, history
<1>6. CASE SendDeadLetter \/ DeadLetterFails
  <2>1. CurId \in Ids /\ Filed \in DeadLetter
    BY <1>6, CurIdType, ConsumerAssumption
       DEF SendDeadLetter, DeadLetterFails, Filed, DeadLetter, InProcess
  <2>2. /\ cur' \in Place
        /\ dlq' \subseteq DeadLetter
        /\ brokenOff' \subseteq Ids
        /\ committed' \in [Topics -> Nat]
        /\ attempt' \in 0..MaxRetries
        /\ pc' \in {"polling", "dead"}
    BY <1>6, <2>1, NoneType, ConsumerAssumption
       DEF SendDeadLetter, DeadLetterFails, Finish, TaskDies, Types, history
  <2> QED
    BY <1>6, <2>2 DEF SendDeadLetter, DeadLetterFails, Types, env, redis, history
<1>7. CASE Shutdown
  BY <1>7 DEF Shutdown, Types, env, redis, history
<1>8. CASE Exit
  <2>1. brokenOff' \subseteq Ids
    BY <1>8, CurIdType DEF Exit, Types
  <2> QED
    BY <1>8, <2>1, NoneType, ConsumerAssumption DEF Exit, Types, redis
<1>9. CASE Start
  BY <1>9 DEF Start, Types, env, redis, history
<1>10. ASSUME NEW id \in Ids, Expire(id) PROVE Types'
  BY <1>10 DEF Expire, Types, env
<1>11. CASE UNCHANGED vars
  BY <1>11 DEF vars, Types
<1> QED
  BY <1>1, <1>2, <1>3, <1>4, <1>5, <1>6, <1>7, <1>8, <1>9, <1>10, <1>11, <1>12 DEF Next, Work

LEMMA OffsetsStep == TypeOK /\ [Next]_vars => Offsets'
<1> SUFFICES ASSUME Types, Offsets, [Next]_vars PROVE Offsets'
  BY DEF TypeOK
<1>0. /\ \A t \in Topics : committed[t] \in Nat /\ position[t] \in Nat /\ Len(log[t]) \in Nat
      /\ cur.topic \in Topics /\ cur.offset \in Nat
  BY DEF Types, Place
<1>1. ASSUME NEW id \in Ids, Produce(id) PROVE Offsets'
  <2>1. /\ UNCHANGED <<committed, position, pc, cur>>
        /\ \A t \in Topics : Len(log'[t]) \in Nat /\ Len(log'[t]) >= Len(log[t])
    BY <1>1, ConsumerAssumption DEF Produce, Types
  <2> QED
    BY <1>0, <2>1 DEF Offsets
<1>2. CASE AutoCommit
  BY <1>0, <1>2 DEF AutoCommit, Offsets, env
<1>3. ASSUME NEW t \in Topics, Fetch(t) \/ Discard(t) PROVE Offsets'
  <2>1. /\ UNCHANGED log
        /\ position[t] < Len(log[t])
        /\ position' = [position EXCEPT ![t] = @ + 1]
        /\ committed' \in {committed, position'}
        /\ pc' \in InProcess => cur' = [topic |-> t, offset |-> position[t] + 1]
    BY <1>3, ConsumerAssumption DEF Fetch, Discard, TaskDies, env, InProcess
  <2>2. position'[t] = position[t] + 1 /\ \A u \in Topics : u # t => position'[u] = position[u]
    BY <2>1 DEF Types
  <2>3. \A u \in Topics : committed'[u] <= position'[u] /\ position'[u] <= Len(log'[u])
    <3> SUFFICES ASSUME NEW u \in Topics PROVE committed'[u] <= position'[u] /\ position'[u] <= Len(log'[u])
      OBVIOUS
    <3>1. committed[u] <= position[u] /\ position[u] <= Len(log[u])
      BY DEF Offsets
    <3>2. position[u] \in Nat /\ position'[u] \in Nat /\ Len(log[u]) \in Nat
      BY <1>0, <2>2
    <3>3. position[u] <= position'[u] /\ position'[u] <= Len(log[u])
      BY <1>0, <2>1, <2>2, <3>1, <3>2
    <3>4. committed'[u] \in {committed[u], position'[u]} /\ committed[u] \in Nat
      BY <1>0, <2>1
    <3> QED
      BY <2>1, <3>1, <3>2, <3>3, <3>4
  <2>4. pc' \in InProcess => 1 <= cur'.offset /\ cur'.offset <= position'[cur'.topic]
    BY <1>0, <2>1, <2>2
  <2> QED
    BY <2>3, <2>4 DEF Offsets
<1>4. ASSUME \/ UNCHANGED committed
             \/ committed' \in {committed, position},
             UNCHANGED <<log, position>>, pc \in InProcess, pc' \in InProcess => cur' = cur
      PROVE  Offsets'
  BY <1>0, <1>4 DEF Offsets
<1>5. CASE MarkSeen \/ MarkFails \/ Handle \/ HandleFails \/ SendDeadLetter \/ DeadLetterFails
  BY <1>4, <1>5 DEF MarkSeen, MarkFails, Handle, HandleFails, SendDeadLetter, DeadLetterFails,
     Finish, TaskDies, InProcess, env, redis, history
<1>6. CASE Shutdown
  BY <1>0, <1>6 DEF Shutdown, Offsets, env
<1>7. CASE Exit
  BY <1>0, <1>7 DEF Exit, Offsets, InProcess
<1>8. CASE Start
  <2>1. \A t \in Topics : position'[t] = committed[t]
    BY <1>8 DEF Start
  <2> QED
    BY <1>0, <1>8, <2>1 DEF Start, Offsets, InProcess, env
<1>9. ASSUME NEW id \in Ids, Expire(id) PROVE Offsets'
  BY <1>9 DEF Expire, Offsets, env
<1>10. CASE UNCHANGED vars
  BY <1>10 DEF vars, Offsets
<1> QED
  BY <1>1, <1>2, <1>3, <1>5, <1>6, <1>7, <1>8, <1>9, <1>10 DEF Next, Work

\* Every state holds values of the declared types, with committed offsets
\* behind positions and positions within the log.
THEOREM ConsumerType == Spec => []TypeOK
<1>1. Init => Types
  <2> SUFFICES ASSUME Init PROVE Types
    OBVIOUS
  <2>1. /\ log \in [Topics -> Seq(Ids)]
        /\ committed \in [Topics -> Nat]
        /\ position \in [Topics -> Nat]
        /\ applied \in [Ids -> Nat]
    BY DEF Init
  <2>2. cur \in Place
    BY NoneType DEF Init
  <2>3. attempt \in 0..MaxRetries /\ exits \in 0..MaxExits
    BY ConsumerAssumption DEF Init
  <2> QED
    BY <2>1, <2>2, <2>3 DEF Init, Types
<1>2. Init => Offsets
  <2> SUFFICES ASSUME Init PROVE Offsets
    OBVIOUS
  <2>1. \A t \in Topics : committed[t] = 0 /\ position[t] = 0 /\ Len(log[t]) = 0
    BY DEF Init
  <2> QED
    BY <2>1 DEF Init, Offsets, InProcess
<1>3. TypeOK /\ [Next]_vars => TypeOK'
  BY TypesStep, OffsetsStep DEF TypeOK
<1> QED
  BY <1>1, <1>2, <1>3, PTL DEF Spec, TypeOK

-----------------------------------------------------------------------------
(* Nothing is lost that was not broken off *)

\* A key in Redis speaks of an event that has its outcome, is about to, or was
\* broken off.
SeenAccounted ==
  \A id \in seen :
    \/ Outcome(id)
    \/ pc \in {"handle", "deadLetter"} /\ CurId = id
    \/ id \in brokenOff

Accounts == AccountedFor /\ SeenAccounted

\* An event keeps its outcome.
LEMMA OutcomeStable ==
  ASSUME TypeOK, [Next]_vars, NEW id \in Ids, Outcome(id)
  PROVE  Outcome(id)'
<1>1. \A x \in Ids : applied[x] \in Nat
  BY DEF TypeOK, Types
<1>2. \/ applied' = applied
      \/ CurId \in Ids /\ applied' = [applied EXCEPT ![CurId] = @ + 1]
  BY CurIdType DEF Next, Work, vars, Produce, AutoCommit, Fetch, Discard, MarkSeen, MarkFails,
     Handle, HandleFails, SendDeadLetter, DeadLetterFails, Shutdown, Exit, Start, Expire,
     InProcess, env, redis
<1>3. applied'[id] >= applied[id]
  <2>1. applied \in [Ids -> Nat]
    BY DEF TypeOK, Types
  <2> QED
    BY <1>1, <1>2, <2>1
<1>4. dlq \subseteq dlq'
  BY DEF Next, Work, vars, Produce, AutoCommit, Fetch, Discard, MarkSeen, MarkFails,
     Handle, HandleFails, SendDeadLetter, DeadLetterFails, Shutdown, Exit, Start, Expire
<1>5. applied[id] > 0 => applied'[id] > 0
  BY <1>1, <1>2, <1>3 DEF TypeOK, Types
<1> QED
  BY <1>4, <1>5 DEF Outcome

\* The log only grows: the record in process stays the one it was.
LEMMA LogGrows ==
  ASSUME TypeOK, [Next]_vars, NEW t \in Topics, NEW n \in 1..Len(log[t])
  PROVE  log'[t][n] = log[t][n]
<1>1. log \in [Topics -> Seq(Ids)]
  BY DEF TypeOK, Types
<1>2. \/ log' = log
      \/ \E id \in Ids : log' = [log EXCEPT ![TopicOf[id]] = Append(@, id)]
  BY DEF Next, Work, vars, Produce, AutoCommit, Fetch, Discard, MarkSeen, MarkFails,
     Handle, HandleFails, SendDeadLetter, DeadLetterFails, Shutdown, Exit, Start, Expire, env
<1>3. ASSUME NEW id \in Ids, log' = [log EXCEPT ![TopicOf[id]] = Append(@, id)]
      PROVE  log'[t][n] = log[t][n]
  <2>1. log[t] \in Seq(Ids)
    BY <1>1
  <2>2. Append(log[t], id)[n] = log[t][n]
    BY <2>1
  <2>3. log'[t] = IF t = TopicOf[id] THEN Append(log[t], id) ELSE log[t]
    BY <1>1, <1>3
  <2> QED
    BY <2>2, <2>3
<1> QED
  BY <1>2, <1>3

\* The event has its outcome or was broken off.
Settled(id) == Outcome(id) \/ id \in brokenOff

LEMMA SettledStable ==
  ASSUME TypeOK, [Next]_vars, NEW id \in Ids, Settled(id)
  PROVE  Settled(id)'
<1>1. brokenOff \subseteq brokenOff'
  BY DEF Next, Work, vars, Produce, AutoCommit, Fetch, Discard, TaskDies, MarkSeen, MarkFails,
     Handle, HandleFails, SendDeadLetter, DeadLetterFails, Shutdown, Exit, Start, Expire,
     history
<1> QED
  BY <1>1, OutcomeStable DEF Settled

\* A step that delivers nothing keeps the accounts if it settles what it stops
\* processing.
LEMMA AccountsKept ==
  ASSUME TypeOK, Accounts, [Next]_vars,
         \A t \in Topics : position'[t] \in Nat /\ position'[t] <= position[t],
         \A id \in Ids : pc \in InProcess /\ CurId = id =>
           \/ Settled(id)'
           \/ /\ pc' \in InProcess /\ cur' = cur
              /\ pc \in {"handle", "deadLetter"} => pc' \in {"handle", "deadLetter"},
         \A id \in seen' \ seen :
           Settled(id)' \/ (pc' \in {"handle", "deadLetter"} /\ CurId' = id)
  PROVE  Accounts'
<1>1. /\ seen \subseteq Ids
      /\ \A t \in Topics : log[t] \in Seq(Ids) /\ position[t] \in Nat /\ position[t] <= Len(log[t])
  BY DEF TypeOK, Types, Offsets
<1>2. pc \in InProcess /\ cur' = cur => CurId' = CurId
  <2> SUFFICES ASSUME pc \in InProcess, cur' = cur PROVE log'[cur.topic][cur.offset] = log[cur.topic][cur.offset]
    BY DEF CurId
  <2>1. cur.topic \in Topics /\ cur.offset \in Nat
    BY DEF TypeOK, Types, Place
  <2>2. cur.offset \in 1..Len(log[cur.topic])
    BY <1>1, <2>1 DEF TypeOK, Offsets
  <2> QED
    BY <2>1, <2>2, LogGrows
<1>3. AccountedFor'
  <2> SUFFICES ASSUME NEW t \in Topics, NEW n \in 1..position'[t]
               PROVE  \/ Settled(log[t][n])'
                      \/ pc' \in InProcess /\ cur' = [topic |-> t, offset |-> n]
    BY DEF AccountedFor, Settled
  <2>1. n \in 1..position[t] /\ n \in 1..Len(log[t]) /\ log[t][n] \in Ids
    BY <1>1
  <2>2. log'[t][n] = log[t][n]
    BY <2>1, LogGrows
  <2>3. CASE Settled(log[t][n])
    BY <2>1, <2>2, <2>3, SettledStable DEF Settled, Outcome
  <2>4. CASE pc \in InProcess /\ cur = [topic |-> t, offset |-> n]
    <3>1. CurId = log[t][n]
      BY <2>4 DEF CurId
    <3> QED
      BY <2>1, <2>2, <2>4, <3>1 DEF Settled, Outcome
  <2> QED
    BY <2>1, <2>3, <2>4 DEF Accounts, AccountedFor, Settled
<1>4. SeenAccounted'
  <2> SUFFICES ASSUME NEW id \in seen'
               PROVE  \/ Settled(id)'
                      \/ pc' \in {"handle", "deadLetter"} /\ CurId' = id
    BY DEF SeenAccounted, Settled
  <2>1. CASE id \in seen /\ Settled(id)
    BY <1>1, <2>1, SettledStable
  <2>2. CASE pc \in {"handle", "deadLetter"} /\ CurId = id
    BY <1>1, <1>2, <2>2, CurIdType DEF InProcess
  <2> QED
    BY <2>1, <2>2 DEF Accounts, SeenAccounted, Settled
<1> QED
  BY <1>3, <1>4 DEF Accounts

LEMMA AccountsStep == TypeOK /\ Accounts /\ [Next]_vars => Accounts'
<1> SUFFICES ASSUME TypeOK, Accounts, [Next]_vars PROVE Accounts'
  OBVIOUS
<1>0. /\ \A t \in Topics : /\ position[t] \in Nat /\ committed[t] \in Nat
                           /\ committed[t] <= position[t]
      /\ seen \subseteq Ids
      /\ pc \in InProcess => CurId \in Ids
  BY CurIdType DEF TypeOK, Types, Offsets
<1>1. ASSUME UNCHANGED <<position, pc, cur>>, seen' \subseteq seen PROVE Accounts'
  BY <1>0, <1>1, AccountsKept
<1>2. CASE \/ \E id \in Ids : Produce(id) \/ Expire(id)
           \/ AutoCommit \/ Shutdown \/ UNCHANGED vars
  BY <1>1, <1>2 DEF Produce, AutoCommit, Shutdown, Expire, vars, redis, env
<1>3. ASSUME NEW t \in Topics, Fetch(t) \/ Discard(t) PROVE Accounts'
  <2> DEFINE id == log[t][position[t] + 1]
  <2>1. /\ position[t] + 1 \in 1..Len(log[t])
        /\ log \in [Topics -> Seq(Ids)]
        /\ position \in [Topics -> Nat]
    BY <1>3 DEF Fetch, Discard, TypeOK, Types
  <2>2. /\ UNCHANGED <<log, applied, dlq, seen>>
        /\ position' = [position EXCEPT ![t] = @ + 1]
        /\ pc = "polling"
        /\ brokenOff \subseteq brokenOff'
        /\ \/ id \in brokenOff'
           \/ pc' \in InProcess /\ cur' = [topic |-> t, offset |-> position[t] + 1]
    BY <1>3 DEF Fetch, Discard, env, redis, TaskDies, InProcess
  <2>3. AccountedFor'
    <3> SUFFICES ASSUME NEW u \in Topics, NEW n \in 1..position'[u]
                 PROVE  \/ Outcome(log[u][n])' \/ log'[u][n] \in brokenOff'
                        \/ pc' \in InProcess /\ cur' = [topic |-> u, offset |-> n]
      BY DEF AccountedFor
    <3>1. CASE n \in 1..position[u]
      <4>1. Outcome(log[u][n]) \/ log[u][n] \in brokenOff
        BY <2>2, <3>1 DEF Accounts, AccountedFor, InProcess
      <4> QED
        BY <2>2, <4>1 DEF Outcome
    <3>2. CASE n \notin 1..position[u]
      <4>1. u = t /\ n = position[t] + 1
        BY <2>1, <2>2, <3>2
      <4> QED
        BY <2>2, <4>1
    <3> QED
      BY <3>1, <3>2
  <2>4. SeenAccounted'
    BY <2>2 DEF Accounts, SeenAccounted, Outcome
  <2> QED
    BY <2>3, <2>4 DEF Accounts
<1>4. CASE MarkSeen
  <2>1. CASE CurId \in seen
    <3>1. Settled(CurId)
      BY <1>4, <2>1 DEF MarkSeen, Accounts, SeenAccounted, Settled
    <3>2. \A id \in Ids : CurId = id => Settled(id)'
      BY <3>1, SettledStable
    <3> QED
      BY <1>0, <1>4, <2>1, <3>2, AccountsKept DEF MarkSeen, env
  <2>2. CASE CurId \notin seen
    <3>1. /\ UNCHANGED <<position, log, cur>>
          /\ pc = "mark" /\ pc' = "handle" /\ seen' = seen \cup {CurId}
      BY <1>4, <2>2 DEF MarkSeen, env
    <3>2. CurId' = CurId
      BY <3>1 DEF CurId
    <3> QED
      BY <1>0, <3>1, <3>2, AccountsKept DEF InProcess
  <2> QED
    BY <2>1, <2>2
<1>5. CASE MarkFails
  <2>1. /\ UNCHANGED <<position, cur>>
        /\ pc = "mark" /\ pc' \in {"mark", "handle"}
        /\ \A id \in seen' \ seen : id \in brokenOff'
    BY <1>5 DEF MarkFails, env
  <2> QED
    BY <1>0, <2>1, AccountsKept DEF InProcess, Settled
<1>6. CASE Handle
  <2>1. \A id \in Ids : CurId = id => Settled(id)'
    BY <1>6 DEF Handle, Settled, Outcome, TypeOK, Types
  <2> QED
    BY <1>0, <1>6, <2>1, AccountsKept DEF Handle
<1>7. CASE HandleFails
  <2>1. /\ UNCHANGED <<position, cur, seen>>
        /\ pc = "handle" /\ pc' \in {"handle", "deadLetter"}
    BY <1>7 DEF HandleFails
  <2> QED
    BY <1>0, <2>1, AccountsKept DEF InProcess
<1>8. CASE SendDeadLetter \/ DeadLetterFails
  <2>1. \A id \in Ids : CurId = id => Settled(id)'
    <3>1. \/ CurId \in brokenOff'
          \/ Filed \in dlq'
      BY <1>8 DEF SendDeadLetter, DeadLetterFails
    <3>2. Filed.id = CurId
      BY DEF Filed
    <3> QED
      BY <3>1, <3>2 DEF Settled, Outcome
  <2>2. UNCHANGED <<position, seen>>
    BY <1>8 DEF SendDeadLetter, DeadLetterFails, redis
  <2> QED
    <3>1. \A t \in Topics : position'[t] \in Nat /\ position'[t] <= position[t]
      BY <1>0, <2>2
    <3> QED
      BY <2>1, <2>2, <3>1, AccountsKept
<1>9. CASE Exit
  <2>1. pc \in InProcess => \A id \in Ids : CurId = id => Settled(id)'
    BY <1>9 DEF Exit, Settled
  <2> QED
    BY <1>0, <1>9, <2>1, AccountsKept DEF Exit, redis
<1>10. CASE Start
  BY <1>0, <1>10, AccountsKept DEF Start, redis, InProcess
<1> QED
  BY <1>2, <1>3, <1>4, <1>5, <1>6, <1>7, <1>8, <1>9, <1>10 DEF Next, Work

\* Every event the consumer has been given has an outcome, is in process, or
\* was broken off by a crash, by an end or the stop of its task, or by a lost
\* answer of Redis: retries, duplicates and dead-lettering lose nothing.  The invariant needs the keys in Redis as well:
\* a duplicate is dropped on the word of its key.
THEOREM ConsumerAccountedFor == Spec => []AccountedFor
<1>1. Init => Accounts
  BY DEF Init, Accounts, AccountedFor, SeenAccounted
<1> QED
  BY <1>1, AccountsStep, ConsumerType, PTL DEF Spec, Accounts

-----------------------------------------------------------------------------
(* Nothing is applied twice while its key stands *)

\* An event dedup protects was applied at most once, its key standing since
\* before the handler first ran; a handler runs on a key set for it.
OnceByKey ==
  \A id \in Ids \ uncovered :
    /\ applied[id] <= 1
    /\ applied[id] > 0 => id \in seen
    /\ pc = "handle" /\ CurId = id => applied[id] = 0 /\ id \in seen

LEMMA OnceStep == TypeOK /\ OnceByKey /\ [Next]_vars => OnceByKey'
<1> SUFFICES ASSUME TypeOK, OnceByKey, [Next]_vars, NEW id \in Ids \ uncovered'
             PROVE  /\ applied'[id] <= 1
                    /\ applied'[id] > 0 => id \in seen'
                    /\ pc' = "handle" /\ CurId' = id => applied'[id] = 0 /\ id \in seen'
  BY DEF OnceByKey
<1>0. /\ applied \in [Ids -> Nat] /\ applied[id] \in Nat
      /\ log \in [Topics -> Seq(Ids)]
      /\ pc \in InProcess => CurId \in Ids /\ cur.topic \in Topics /\ cur.offset \in 1..Len(log[cur.topic])
  BY CurIdType DEF TypeOK, Types, Offsets, Place
<1>1. uncovered \subseteq uncovered' /\ id \notin uncovered
  BY DEF Next, Work, vars, Produce, AutoCommit, Fetch, Discard, MarkSeen, MarkFails,
     Handle, HandleFails, SendDeadLetter, DeadLetterFails, Shutdown, Exit, Start, Expire,
     history
<1>2. /\ applied[id] <= 1
      /\ applied[id] > 0 => id \in seen
      /\ pc = "handle" /\ CurId = id => applied[id] = 0 /\ id \in seen
  BY <1>1 DEF OnceByKey
<1>3. pc \in InProcess /\ cur' = cur => CurId' = CurId
  <2> SUFFICES ASSUME pc \in InProcess, cur' = cur
               PROVE  log'[cur.topic][cur.offset] = log[cur.topic][cur.offset]
    BY DEF CurId
  <2> QED
    BY <1>0, LogGrows
<1>4. ASSUME UNCHANGED <<applied, seen>>, pc' = "handle" => pc = "handle" /\ cur' = cur
      PROVE  /\ applied'[id] <= 1
             /\ applied'[id] > 0 => id \in seen'
             /\ pc' = "handle" /\ CurId' = id => applied'[id] = 0 /\ id \in seen'
  BY <1>2, <1>3, <1>4 DEF InProcess
<1>5. CASE \/ \E x \in Ids : Produce(x)
           \/ \E t \in Topics : Fetch(t) \/ Discard(t)
           \/ AutoCommit \/ SendDeadLetter \/ DeadLetterFails
           \/ Shutdown \/ Exit \/ Start \/ UNCHANGED vars
  BY <1>4, <1>5 DEF Produce, AutoCommit, Fetch, Discard, Finish, TaskDies, SendDeadLetter,
     DeadLetterFails, Shutdown, Exit, Start, vars, redis
<1>6. CASE MarkSeen
  <2>1. UNCHANGED applied /\ seen \subseteq seen' /\ pc = "mark"
    BY <1>6 DEF MarkSeen
  <2>2. pc' = "handle" => CurId \notin seen /\ CurId \in seen' /\ CurId' = CurId
    BY <1>3, <1>6 DEF MarkSeen, Finish, InProcess
  <2> QED
    BY <1>0, <1>2, <2>1, <2>2
<1>7. CASE MarkFails
  BY <1>2, <1>3, <1>7 DEF MarkFails, InProcess
<1>8. CASE Handle
  BY <1>0, <1>2, <1>8 DEF Handle, Finish, InProcess
<1>9. CASE HandleFails
  <2>1. CurId \in Ids /\ cur' = cur /\ seen' = seen /\ pc = "handle" /\ CurId' = CurId
    BY <1>0, <1>3, <1>9 DEF HandleFails, InProcess
  <2>2. CASE CurId = id
    BY <1>2, <1>9, <2>1, <2>2 DEF HandleFails
  <2>3. CASE CurId # id
    <3>1. applied'[id] = applied[id]
      BY <1>0, <1>9, <2>1, <2>3 DEF HandleFails
    <3> QED
      BY <1>2, <2>1, <2>3, <3>1
  <2> QED
    BY <2>2, <2>3
<1>10. ASSUME NEW x \in Ids, Expire(x)
       PROVE  /\ applied'[id] <= 1
              /\ applied'[id] > 0 => id \in seen'
              /\ pc' = "handle" /\ CurId' = id => applied'[id] = 0 /\ id \in seen'
  BY <1>2, <1>3, <1>10 DEF Expire, env, InProcess
<1> QED
  BY <1>5, <1>6, <1>7, <1>8, <1>9, <1>10 DEF Next, Work

\* The handler has its effect at most once on every event whose key was set
\* and still stands, whatever is produced twice or redelivered.
THEOREM ConsumerAppliedOnce == Spec => []AppliedOnce
<1>1. Init => OnceByKey
  BY DEF Init, OnceByKey
<1>2. OnceByKey => AppliedOnce
  BY DEF OnceByKey, AppliedOnce
<1> QED
  BY <1>1, <1>2, OnceStep, ConsumerType, PTL DEF Spec

-----------------------------------------------------------------------------
(* The contract *)

\* The event in hand, and the events dead-lettered.
Hand == IF pc \in InProcess THEN {CurId} ELSE {}

Dead == {d.id : d \in dlq}

LEMMA ContractInit == Init => Contract!Init
BY DEF Init, Contract!Init, InProcess

\* The same record in process is the same event in hand.
LEMMA HandKept ==
  ASSUME TypeOK, [Next]_vars, pc \in InProcess, cur' = cur
  PROVE  CurId' = CurId
<1>1. /\ log \in [Topics -> Seq(Ids)]
      /\ cur.topic \in Topics /\ cur.offset \in 1..Len(log[cur.topic])
  BY DEF TypeOK, Types, Offsets, Place
<1> QED
  BY <1>1, LogGrows DEF CurId

\* A step that only moves what Delivery does not speak of.
LEMMA Unseen ==
  ASSUME UNCHANGED <<log, position, applied, dlq, brokenOff, uncovered>>, Hand' = Hand
  PROVE  UNCHANGED Contract!vars
BY DEF Hand, Contract!vars

LEMMA ContractStep ==
  TypeOK /\ Accounts /\ OnceByKey /\ [Next]_vars => [Contract!Next]_(Contract!vars)
<1> SUFFICES ASSUME TypeOK, Accounts, OnceByKey, [Next]_vars
             PROVE  Contract!Next \/ UNCHANGED Contract!vars
  OBVIOUS
<1>0. /\ log \in [Topics -> Seq(Ids)] /\ position \in [Topics -> Nat]
      /\ applied \in [Ids -> Nat]
      /\ pc \in InProcess => CurId \in Ids /\ Hand = {CurId}
      /\ pc \notin InProcess => Hand = {}
      /\ pc' \notin InProcess => Hand' = {}
      /\ pc \in InProcess /\ pc' \in InProcess /\ cur' = cur => Hand' = Hand
  BY CurIdType, HandKept DEF TypeOK, Types, Hand
<1>1. ASSUME NEW id \in Ids, Produce(id) PROVE Contract!Next
  <2>1. TopicOf[id] \in Topics /\ Hand' = Hand
    BY <1>0, <1>1, ConsumerAssumption DEF Produce
  <2>2. Contract!Publish(TopicOf[id], id)
    BY <1>1, <2>1 DEF Produce, Contract!Publish, Hand, redis, history
  <2> QED
    BY <2>1, <2>2 DEF Contract!Next
<1>2. CASE AutoCommit \/ Shutdown \/ UNCHANGED vars
  BY <1>0, <1>2, Unseen DEF AutoCommit, Shutdown, vars, env, redis, history
<1>3. ASSUME NEW t \in Topics, Fetch(t) PROVE Contract!Next
  <2> DEFINE id == log[t][position[t] + 1]
  <2>1. /\ Hand = {} /\ position[t] < Len(log[t])
        /\ position' = [position EXCEPT ![t] = @ + 1]
        /\ UNCHANGED <<log, applied, dlq, uncovered>>
    BY <1>0, <1>3 DEF Fetch, InProcess, env, redis
  <2>2. \/ Hand' = {id} /\ UNCHANGED brokenOff
        \/ Hand' = {} /\ brokenOff' = brokenOff \cup {id}
    <3>1. CASE Shape[id] = "nonObject"
      BY <1>3, <3>1 DEF Fetch, TaskDies, Hand, InProcess
    <3>2. CASE Shape[id] # "nonObject"
      <4>1. /\ pc' \in InProcess /\ UNCHANGED brokenOff
            /\ cur' = [topic |-> t, offset |-> position[t] + 1]
        BY <1>3, <3>2 DEF Fetch, InProcess
      <4>2. CurId' = id
        BY <2>1, <4>1 DEF CurId
      <4> QED
        BY <4>1, <4>2 DEF Hand
    <3> QED
      BY <3>1, <3>2
  <2>3. Contract!Take(t)
    BY <2>1, <2>2 DEF Contract!Take, Hand
  <2> QED
    BY <2>3 DEF Contract!Next
<1>14. ASSUME NEW t \in Topics, Discard(t) PROVE Contract!Next
  <2>1. /\ Hand = {} /\ position[t] < Len(log[t])
        /\ position' = [position EXCEPT ![t] = @ + 1]
        /\ UNCHANGED <<log, applied, dlq, uncovered>>
        /\ Hand' = {} /\ brokenOff' = brokenOff \cup {log[t][position[t] + 1]}
    BY <1>0, <1>14 DEF Discard, TaskDies, InProcess, env, redis
  <2>2. Contract!Take(t)
    BY <2>1 DEF Contract!Take, Hand
  <2> QED
    BY <2>2 DEF Contract!Next
<1>4. CASE MarkSeen
  <2>1. CASE CurId \in seen
    <3>1. CurId \in Ids /\ Hand = {CurId} /\ Hand' = {} /\ Settled(CurId)
      BY <1>0, <1>4, <2>1
         DEF MarkSeen, Finish, InProcess, Accounts, SeenAccounted, Settled
    <3>2. Contract!Ended(CurId)
      BY <3>1 DEF Contract!Ended, Settled, Outcome
    <3>3. Contract!Drop(CurId)
      BY <1>4, <3>1, <3>2 DEF MarkSeen, Contract!Drop, Hand, env, history
    <3> QED
      BY <3>1, <3>3 DEF Contract!Next
  <2>2. CASE CurId \notin seen
    BY <1>0, <1>4, <2>2, Unseen DEF MarkSeen, InProcess, env, history
  <2> QED
    BY <2>1, <2>2
<1>5. CASE MarkFails
  <2>1. CurId \in Ids /\ Hand = {CurId} /\ Hand' = Hand
    BY <1>0, <1>5 DEF MarkFails, InProcess
  <2>2. brokenOff' \in {brokenOff, brokenOff \cup {CurId}}
    BY <1>5 DEF MarkFails
  <2>3. Contract!Unanswered(CurId)
    BY <1>5, <2>1, <2>2 DEF MarkFails, Contract!Unanswered, Hand, env
  <2> QED
    BY <2>1, <2>3 DEF Contract!Next
<1>6. ASSUME pc = "handle" PROVE applied[CurId] = 0 \/ CurId \in uncovered
  BY <1>0, <1>6 DEF OnceByKey, InProcess
<1>7. CASE Handle
  <2>1. CurId \in Ids /\ Hand = {CurId} /\ Hand' = {}
    BY <1>0, <1>7 DEF Handle, Finish, InProcess
  <2>2. Contract!Handle(CurId)
    BY <1>6, <1>7, <2>1 DEF Handle, Contract!Handle, Hand, env, history
  <2> QED
    BY <2>1, <2>2 DEF Contract!Next
<1>8. CASE HandleFails
  <2>1. CurId \in Ids /\ Hand = {CurId} /\ Hand' = Hand
    BY <1>0, <1>8 DEF HandleFails, InProcess
  <2>2. CASE UNCHANGED <<applied, uncovered>>
    BY <1>8, <2>1, <2>2, Unseen DEF HandleFails, env
  <2>3. CASE applied' = [applied EXCEPT ![CurId] = @ + 1] /\ uncovered' = uncovered \cup {CurId}
    <3>1. Contract!HandleInVain(CurId)
      BY <1>6, <1>8, <2>1, <2>3 DEF HandleFails, Contract!HandleInVain, Hand, env
    <3> QED
      BY <2>1, <3>1 DEF Contract!Next
  <2> QED
    BY <1>8, <2>2, <2>3 DEF HandleFails
<1>9. CASE SendDeadLetter
  <2>1. PICK id \in Ids : id = CurId /\ Hand = {id} /\ Hand' = {}
    BY <1>0, <1>9 DEF SendDeadLetter, Finish, InProcess
  <2>2. Dead' = Dead \cup {id}
    <3>1. dlq' = dlq \cup {Filed} /\ Filed.id = id
      BY <1>9, <2>1 DEF SendDeadLetter, Filed
    <3> QED
      BY <3>1, Zenon DEF Dead
  <2>3. Contract!DeadLetter(id)
    BY <1>9, <2>1, <2>2 DEF SendDeadLetter, Contract!DeadLetter, Hand, Dead, env, redis, history
  <2> QED
    BY <2>3 DEF Contract!Next
<1>10. CASE DeadLetterFails
  <2>1. PICK id \in Ids : id = CurId /\ Hand = {id} /\ Hand' = {}
    BY <1>0, <1>10 DEF DeadLetterFails, TaskDies, InProcess
  <2>2. Dead' \in {Dead, Dead \cup {id}}
    <3>1. dlq' \in {dlq, dlq \cup {Filed}} /\ Filed.id = id
      BY <1>10, <2>1 DEF DeadLetterFails, Filed
    <3> QED
      BY <3>1, Zenon DEF Dead
  <2>3. Contract!BreakOff(id)
    BY <1>10, <2>1, <2>2 DEF DeadLetterFails, Contract!BreakOff, Hand, Dead, env, redis
  <2> QED
    BY <2>3 DEF Contract!Next
<1>11. CASE Exit
  <2>1. Hand' = {}
    BY <1>0, <1>11 DEF Exit, InProcess
  <2>2. CASE pc \in InProcess
    <3>1. PICK id \in Ids : id = CurId /\ Hand = {id}
      BY <1>0, <2>2
    <3>2. Contract!BreakOff(id)
      BY <1>11, <2>1, <2>2, <3>1 DEF Exit, Contract!BreakOff, Hand, redis
    <3> QED
      BY <3>2 DEF Contract!Next
  <2>3. CASE pc \notin InProcess
    BY <1>0, <1>11, <2>1, <2>3, Unseen DEF Exit, redis
  <2> QED
    BY <2>2, <2>3
<1>12. CASE Start
  <2>1. Hand = {} /\ Hand' = {}
    BY <1>0, <1>12 DEF Start, InProcess
  <2>2. /\ position' \in [Topics -> Nat]
        /\ \A t \in Topics : position'[t] <= position[t]
    BY <1>12 DEF Start, TypeOK, Types, Offsets
  <2>3. Contract!Resume
    BY <1>12, <2>1, <2>2 DEF Start, Contract!Resume, Hand, env, redis, history
  <2> QED
    BY <2>3 DEF Contract!Next
<1>13. ASSUME NEW id \in Ids, Expire(id) PROVE Contract!Next
  <2>1. Hand' = Hand
    BY <1>0, <1>13 DEF Expire, Hand
  <2>2. Contract!Expose(id)
    BY <1>13, <2>1 DEF Expire, Contract!Expose, Hand, env
  <2> QED
    BY <2>2 DEF Contract!Next
<1> QED
  BY <1>1, <1>2, <1>3, <1>4, <1>5, <1>7, <1>8, <1>9, <1>10, <1>11, <1>12, <1>13,
     <1>14 DEF Next, Work

\* The consumer implements its contract: whatever is redelivered, produced
\* twice, answered late or broken off, an event leaves its hands and has its
\* effect again only as Delivery allows.  That a duplicate has had an end is
\* what Accounts says of its key; that an effect is the first, OnceByKey.
THEOREM ConsumerDelivery == Spec => Delivery
<1>1. Init => Accounts /\ OnceByKey
  BY DEF Init, Accounts, AccountedFor, SeenAccounted, OnceByKey
<1>2. TypeOK /\ Accounts /\ [Next]_vars => Accounts'
  BY AccountsStep
<1>3. TypeOK /\ OnceByKey /\ [Next]_vars => OnceByKey'
  BY OnceStep
<1> QED
  BY <1>1, <1>2, <1>3, ContractInit, ContractStep, ConsumerType, PTL
     DEF Spec, Delivery, Contract!Spec
=============================================================================
