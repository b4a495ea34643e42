------------------------ MODULE SessionManagerProofs ------------------------
(***************************************************************************)
(* Proofs about SessionManager for any number of sessions, keys, turns,    *)
(* messages and restarts.  The inductive invariant says what the phase of  *)
(* the process implies about cancellation and about live tasks, ties the   *)
(* two tables of HTTP turns to the turns they name, and ties each running  *)
(* channel turn to the lock of its key.  With what the queues hold it      *)
(* carries the refinement of Conversations.                                *)
(***************************************************************************)
EXTENDS SessionManager, SequenceTheorems, TLAPS

\* What the phase says: nothing is cancelled while serving, everything live is
\* cancelled while stopping, and nothing is live once the process is gone.
PhaseInv ==
    /\ phase = "serving" => cancelled = {}
    /\ phase = "stopping" =>
          /\ \A t \in Turns : turn[t] \in LiveTurn => t \in cancelled
          /\ \A m \in Messages : message[m] \in LiveMessage => m \in cancelled
    /\ phase \in {"stopped", "crashed"} =>
          /\ \A t \in Turns : turn[t] \notin LiveTurn
          /\ \A m \in Messages : message[m] \notin LiveMessage

\* The tables name used turns of their own session, and every live turn.
TableInv ==
    /\ \A t \in Turns : turn[t] \in LiveTurn =>
          thread[t] \in HttpThreads /\ tasks[thread[t]] = t
    /\ \A h \in HttpThreads :
          /\ brokers[h] = tasks[h]
          /\ tasks[h] # None => thread[tasks[h]] = h /\ turn[tasks[h]] # "unused"
          /\ phase = "serving" /\ tasks[h] # None => turn[tasks[h]] \in LiveTurn

\* A running channel turn holds its key's lock, alone.
LockInv ==
    \A m \in Messages : message[m] = "running" =>
        /\ locked[KeyOf[m]]
        /\ \A n \in Messages : message[n] = "running" /\ KeyOf[n] = KeyOf[m] => n = m

IInv == TypeOK /\ PhaseInv /\ TableInv /\ LockInv

USE KeyAssumption, NoneAssumption, TaskAssumption, RestartAssumption
    DEF KeyAssumption, NoneAssumption, TaskAssumption, RestartAssumption

-----------------------------------------------------------------------------
\* Removing one position of a sequence leaves a sequence over the same set.
LEMMA RemoveTyped ==
  ASSUME NEW S, NEW q \in Seq(S), NEW i \in DOMAIN q
  PROVE  SubSeq(q, 1, i - 1) \o SubSeq(q, i + 1, Len(q)) \in Seq(S)
<1>1. i \in 1 .. Len(q) /\ Len(q) \in Nat
  OBVIOUS
<1>2. SubSeq(q, 1, i - 1) \in Seq(S)
  BY <1>1
<1>3. SubSeq(q, i + 1, Len(q)) \in Seq(S)
  BY <1>1
<1> QED
  BY <1>2, <1>3

LEMMA TypeCorrectStep == TypeOK /\ TableInv /\ [Next]_vars => TypeOK'
<1> SUFFICES ASSUME TypeOK, TableInv, [Next]_vars PROVE TypeOK'
  OBVIOUS
<1> USE DEF TypeOK, process, http, channel
<1>1. ASSUME NEW h \in HttpThreads, CreateSession(h) PROVE TypeOK'
  BY <1>1 DEF CreateSession
<1>2. ASSUME NEW h \in HttpThreads, NEW t \in Turns, StartTurn(h, t) PROVE TypeOK'
  BY <1>2 DEF StartTurn, TurnState
<1>3. ASSUME NEW t \in Turns, RunnerEnters(t) PROVE TypeOK'
  BY <1>3 DEF RunnerEnters, TurnState
<1>4. ASSUME NEW t \in Turns, RunnerEnds(t) PROVE TypeOK'
  <2>1. thread[t] \in HttpThreads
    BY <1>4 DEF RunnerEnds, TableInv, LiveTurn
  <2>2. checkpointed' \subseteq HttpThreads
    BY <1>4, <2>1 DEF RunnerEnds
  <2>3. /\ brokers' \in [HttpThreads -> Turns \cup {None}]
        /\ tasks' \in [HttpThreads -> Turns \cup {None}]
    BY <1>4, <2>1 DEF RunnerEnds, Release
  <2>4. turn' \in [Turns -> TurnState]
    BY <1>4 DEF RunnerEnds, TurnState
  <2> QED
    BY <1>4, <2>2, <2>3, <2>4 DEF RunnerEnds
<1>5. ASSUME NEW t \in Turns, RunnerKilled(t) PROVE TypeOK'
  BY <1>5 DEF RunnerKilled, TurnState
<1>6. ASSUME NEW m \in Messages, AcceptWebhook(m) PROVE TypeOK'
  BY <1>6 DEF AcceptWebhook, MessageState
<1>7. ASSUME NEW m \in Messages, EnterTurn(m) PROVE TypeOK'
  <2>1. KeyOf[m] \in ChannelThreads
    OBVIOUS
  <2>2. Append(waiters[KeyOf[m]], m) \in Seq(Messages)
    BY <2>1
  <2>3. /\ locked' \in [ChannelThreads -> BOOLEAN]
        /\ message' \in [Messages -> MessageState]
    BY <1>7, <2>1 DEF EnterTurn, MessageState
  <2>4. waiters' \in [ChannelThreads -> Seq(Messages)]
    <3>1. \/ waiters' = waiters
          \/ waiters' = [waiters EXCEPT ![KeyOf[m]] = Append(waiters[KeyOf[m]], m)]
      BY <1>7 DEF EnterTurn
    <3> DEFINE v == Append(waiters[KeyOf[m]], m)
    <3>2. v \in Seq(Messages)
      BY <2>2
    <3> HIDE DEF v
    <3>3. CASE waiters' = [waiters EXCEPT ![KeyOf[m]] = v]
      BY <3>2, <3>3
    <3> QED
      BY <3>1, <3>3 DEF v
  <2> QED
    BY <1>7, <2>3, <2>4 DEF EnterTurn
<1>8. ASSUME NEW m \in Messages, AcquireLock(m) PROVE TypeOK'
  <2>1. KeyOf[m] \in ChannelThreads
    OBVIOUS
  <2>2. Tail(waiters[KeyOf[m]]) \in Seq(Messages)
    BY <1>8, <2>1 DEF AcquireLock
  <2>3. /\ locked' \in [ChannelThreads -> BOOLEAN]
        /\ message' \in [Messages -> MessageState]
    BY <1>8, <2>1 DEF AcquireLock, MessageState
  <2>4. waiters' \in [ChannelThreads -> Seq(Messages)]
    BY <1>8, <2>1, <2>2 DEF AcquireLock
  <2> QED
    BY <1>8, <2>3, <2>4 DEF AcquireLock
<1>9. ASSUME NEW m \in Messages, FinishRun(m) PROVE TypeOK'
  BY <1>9 DEF FinishRun, MessageState
<1>10. ASSUME NEW m \in Messages, Deliver(m) PROVE TypeOK'
  BY <1>10 DEF Deliver, MessageState
<1>11. ASSUME NEW m \in Messages, MessageKilled(m) PROVE TypeOK'
  <2>1. KeyOf[m] \in ChannelThreads
    OBVIOUS
  <2>2. /\ locked' \in [ChannelThreads -> BOOLEAN]
        /\ message' \in [Messages -> MessageState]
    BY <1>11, <2>1 DEF MessageKilled, MessageState
  <2>3. CASE LeaveQueue(m)
    <3>1. PICK i \in DOMAIN waiters[KeyOf[m]] :
             waiters' = [waiters EXCEPT ![KeyOf[m]] =
                           SubSeq(waiters[KeyOf[m]], 1, i - 1)
                             \o SubSeq(waiters[KeyOf[m]], i + 1, Len(waiters[KeyOf[m]]))]
      BY <2>3 DEF LeaveQueue
    <3>2. SubSeq(waiters[KeyOf[m]], 1, i - 1)
            \o SubSeq(waiters[KeyOf[m]], i + 1, Len(waiters[KeyOf[m]])) \in Seq(Messages)
      BY <2>1, RemoveTyped
    <3>3. waiters' \in [ChannelThreads -> Seq(Messages)]
      BY <3>1, <3>2
    <3> QED
      BY <1>11, <2>2, <3>3 DEF MessageKilled
  <2>4. CASE UNCHANGED waiters
    BY <1>11, <2>2, <2>4 DEF MessageKilled
  <2> QED
    BY <1>11, <2>3, <2>4 DEF MessageKilled
<1>12. ASSUME BeginShutdown PROVE TypeOK'
  BY <1>12 DEF BeginShutdown, HttpTasks, ChannelTasks, Phase
<1>13. ASSUME EndShutdown PROVE TypeOK'
  BY <1>13 DEF EndShutdown, Phase
<1>14. ASSUME Crash PROVE TypeOK'
  <2>1. \A t \in Turns : turn[t] = "running" => thread[t] \in HttpThreads
    BY DEF TableInv, LiveTurn
  <2>2. checkpointed' \subseteq HttpThreads
    BY <1>14, <2>1 DEF Crash
  <2>3. /\ turn' \in [Turns -> TurnState]
        /\ message' \in [Messages -> MessageState]
    BY <1>14 DEF Crash, TurnState, MessageState
  <2> QED
    BY <1>14, <2>2, <2>3 DEF Crash, Phase
<1>15. ASSUME Restart PROVE TypeOK'
  BY <1>15 DEF Restart, Phase
<1>16. ASSUME UNCHANGED vars PROVE TypeOK'
  BY <1>16 DEF vars
<1> QED
  BY <1>1, <1>2, <1>3, <1>4, <1>5, <1>6, <1>7, <1>8, <1>9, <1>10, <1>11, <1>12,
     <1>13, <1>14, <1>15, <1>16 DEF Next, RunnerStep, MessageStep

-----------------------------------------------------------------------------
\* Only the handlers that start work create live tasks, only while serving;
\* a shutdown cancels exactly the tasks the tables and the task set name, and
\* TableInv says that these are all of them.
LEMMA PhaseStep == TypeOK /\ PhaseInv /\ TableInv /\ [Next]_vars => PhaseInv'
<1> SUFFICES ASSUME TypeOK, PhaseInv, TableInv, [Next]_vars PROVE PhaseInv'
  OBVIOUS
<1> USE DEF PhaseInv, process, http, channel, LiveTurn, LiveMessage
<1>1. ASSUME NEW h \in HttpThreads, CreateSession(h) PROVE PhaseInv'
  BY <1>1 DEF CreateSession
<1>2. ASSUME NEW h \in HttpThreads, NEW t \in Turns, StartTurn(h, t) PROVE PhaseInv'
  BY <1>2 DEF StartTurn
<1>3. ASSUME NEW t \in Turns, RunnerStep(t) PROVE PhaseInv'
  <2>1. /\ turn[t] \in LiveTurn
        /\ \A u \in Turns : u # t => turn'[u] = turn[u]
        /\ UNCHANGED <<process, message>>
    BY <1>3 DEF RunnerStep, RunnerEnters, RunnerEnds, RunnerKilled, TypeOK
  <2> QED
    BY <2>1
<1>4. ASSUME NEW m \in Messages, AcceptWebhook(m) PROVE PhaseInv'
  BY <1>4 DEF AcceptWebhook
<1>5. ASSUME NEW m \in Messages, MessageStep(m) PROVE PhaseInv'
  <2>1. /\ message[m] \in LiveMessage
        /\ \A n \in Messages : n # m => message'[n] = message[n]
        /\ UNCHANGED <<process, turn>>
    BY <1>5 DEF MessageStep, EnterTurn, IsNextToEnter, AcquireLock, FinishRun, Deliver,
       MessageKilled, TypeOK
  <2> QED
    BY <2>1
<1>6. ASSUME BeginShutdown PROVE PhaseInv'
  <2>1. ASSUME NEW t \in Turns, turn[t] \in LiveTurn PROVE t \in HttpTasks
    BY <2>1 DEF TableInv, HttpTasks
  <2>2. ASSUME NEW m \in Messages, message[m] \in LiveMessage PROVE m \in ChannelTasks
    BY <2>2 DEF ChannelTasks
  <2>3. /\ phase' = "stopping" /\ cancelled' = HttpTasks \cup ChannelTasks
        /\ turn' = turn /\ message' = message
    BY <1>6 DEF BeginShutdown
  <2> QED
    BY <2>1, <2>2, <2>3
<1>7. ASSUME EndShutdown PROVE PhaseInv'
  <2>1. /\ phase = "stopping" /\ phase' = "stopped"
        /\ turn' = turn /\ message' = message
        /\ \A t \in cancelled \cap Turns : turn[t] \notin LiveTurn
        /\ \A m \in cancelled \cap Messages : message[m] \notin LiveMessage
    BY <1>7 DEF EndShutdown
  <2> QED
    BY <2>1
<1>8. ASSUME Crash PROVE PhaseInv'
  BY <1>8 DEF Crash, TypeOK
<1>9. ASSUME Restart PROVE PhaseInv'
  BY <1>9 DEF Restart
<1>10. ASSUME UNCHANGED vars PROVE PhaseInv'
  BY <1>10 DEF vars
<1> QED
  BY <1>1, <1>2, <1>3, <1>4, <1>5, <1>6, <1>7, <1>8, <1>9, <1>10 DEF Next

\* start() replaces the entries of an idle session only, and Release clears
\* the entries of the turn that ends and no others.
LEMMA TableStep == TypeOK /\ PhaseInv /\ TableInv /\ [Next]_vars => TableInv'
<1> SUFFICES ASSUME TypeOK, PhaseInv, TableInv, [Next]_vars PROVE TableInv'
  OBVIOUS
<1> USE DEF process, http, channel, LiveTurn
<1>1. ASSUME NEW h \in HttpThreads, CreateSession(h) PROVE TableInv'
  BY <1>1 DEF CreateSession, TableInv
<1>2. ASSUME NEW h \in HttpThreads, NEW t \in Turns, StartTurn(h, t) PROVE TableInv'
  BY <1>2 DEF StartTurn, IsActive, TableInv, TypeOK
<1>3. ASSUME NEW t \in Turns, RunnerEnters(t) PROVE TableInv'
  BY <1>3 DEF RunnerEnters, TableInv, TypeOK
<1>4. ASSUME NEW t \in Turns, RunnerEnds(t) PROVE TableInv'
  <2>1. /\ thread[t] \in HttpThreads
        /\ tasks[thread[t]] = t /\ brokers[thread[t]] = t
    BY <1>4 DEF RunnerEnds, TableInv
  <2>2. /\ brokers' = [brokers EXCEPT ![thread[t]] = None]
        /\ tasks' = [tasks EXCEPT ![thread[t]] = None]
        /\ turn' = [turn EXCEPT ![t] = "ended"]
        /\ UNCHANGED <<thread, phase>>
    BY <1>4, <2>1 DEF RunnerEnds, Release
  <2> QED
    BY <2>1, <2>2 DEF TableInv, TypeOK
<1>5. ASSUME NEW t \in Turns, RunnerKilled(t) PROVE TableInv'
  <2>1. phase # "serving"
    BY <1>5 DEF RunnerKilled, PhaseInv
  <2> QED
    BY <1>5, <2>1 DEF RunnerKilled, TableInv, TypeOK
<1>6. ASSUME NEW m \in Messages, AcceptWebhook(m) \/ MessageStep(m) PROVE TableInv'
  <2>1. UNCHANGED <<process, http>>
    BY <1>6 DEF AcceptWebhook, MessageStep, EnterTurn, AcquireLock, FinishRun, Deliver,
       MessageKilled
  <2> QED
    BY <2>1 DEF TableInv
<1>7. ASSUME BeginShutdown \/ EndShutdown PROVE TableInv'
  BY <1>7 DEF BeginShutdown, EndShutdown, TableInv
<1>8. ASSUME Crash PROVE TableInv'
  BY <1>8 DEF Crash, TableInv, TypeOK
<1>9. ASSUME Restart PROVE TableInv'
  BY <1>9 DEF Restart, TableInv, PhaseInv, TypeOK
<1>10. ASSUME UNCHANGED vars PROVE TableInv'
  BY <1>10 DEF vars, TableInv
<1> QED
  BY <1>1, <1>2, <1>3, <1>4, <1>5, <1>6, <1>7, <1>8, <1>9, <1>10 DEF Next, RunnerStep

\* A turn starts only by taking a free lock, and whoever stops running frees
\* the lock of its own key.
LEMMA LockStep == TypeOK /\ PhaseInv /\ LockInv /\ [Next]_vars => LockInv'
<1> SUFFICES ASSUME TypeOK, PhaseInv, LockInv, [Next]_vars PROVE LockInv'
  OBVIOUS
<1> USE DEF process, http, channel
<1>1. ASSUME NEW h \in HttpThreads, NEW t \in Turns, StartTurn(h, t) PROVE LockInv'
  BY <1>1 DEF StartTurn, LockInv
<1>a. ASSUME NEW h \in HttpThreads, CreateSession(h) PROVE LockInv'
  BY <1>a DEF CreateSession, LockInv
<1>b. ASSUME NEW t \in Turns, RunnerStep(t) PROVE LockInv'
  BY <1>b DEF RunnerStep, RunnerEnters, RunnerEnds, RunnerKilled, LockInv
<1>2. ASSUME NEW m \in Messages, AcceptWebhook(m) PROVE LockInv'
  BY <1>2 DEF AcceptWebhook, LockInv, TypeOK
<1>3. ASSUME NEW m \in Messages, EnterTurn(m) PROVE LockInv'
  <2>1. KeyOf[m] \in ChannelThreads
    OBVIOUS
  <2>2. CASE /\ ~locked[KeyOf[m]]
             /\ locked' = [locked EXCEPT ![KeyOf[m]] = TRUE]
             /\ message' = [message EXCEPT ![m] = "running"]
    BY <2>1, <2>2 DEF LockInv, TypeOK
  <2>3. CASE /\ locked' = locked
             /\ message' = [message EXCEPT ![m] = "queued"]
    BY <2>3 DEF LockInv, TypeOK
  <2> QED
    BY <1>3, <2>2, <2>3 DEF EnterTurn, LockIsFree
<1>4. ASSUME NEW m \in Messages, AcquireLock(m) PROVE LockInv'
  BY <1>4 DEF AcquireLock, LockInv, TypeOK
<1>5. ASSUME NEW m \in Messages, FinishRun(m) PROVE LockInv'
  BY <1>5 DEF FinishRun, LockInv, TypeOK
<1>6. ASSUME NEW m \in Messages, Deliver(m) PROVE LockInv'
  BY <1>6 DEF Deliver, LockInv, TypeOK
<1>7. ASSUME NEW m \in Messages, MessageKilled(m) PROVE LockInv'
  BY <1>7 DEF MessageKilled, LockInv, TypeOK
<1>8. ASSUME BeginShutdown \/ EndShutdown PROVE LockInv'
  BY <1>8 DEF BeginShutdown, EndShutdown, LockInv
<1>9. ASSUME Crash PROVE LockInv'
  BY <1>9 DEF Crash, LockInv, LiveMessage, TypeOK
<1>10. ASSUME Restart PROVE LockInv'
  BY <1>10 DEF Restart, LockInv, PhaseInv, LiveMessage
<1>11. ASSUME UNCHANGED vars PROVE LockInv'
  BY <1>11 DEF vars, LockInv
<1> QED
  BY <1>1, <1>a, <1>b, <1>2, <1>3, <1>4, <1>5, <1>6, <1>7, <1>8, <1>9, <1>10, <1>11
     DEF Next, MessageStep

LEMMA Invariant == Spec => []IInv
<1>1. Init => IInv
  <2> SUFFICES ASSUME Init PROVE IInv
    OBVIOUS
  <2>1. <<>> \in Seq(Messages)
    OBVIOUS
  <2>2. TypeOK
    BY <2>1 DEF Init, TypeOK, Phase, TurnState, MessageState
  <2>3. PhaseInv
    BY DEF Init, PhaseInv
  <2>4. TableInv
    BY DEF Init, TableInv, LiveTurn
  <2>5. LockInv
    BY DEF Init, LockInv
  <2> QED
    BY <2>2, <2>3, <2>4, <2>5 DEF IInv
<1>2. IInv /\ [Next]_vars => IInv'
  BY TypeCorrectStep, PhaseStep, TableStep, LockStep DEF IInv
<1> QED
  BY <1>1, <1>2, PTL DEF Spec

-----------------------------------------------------------------------------
(* The queues: a waiting message stands once in the queue of its key, behind *)
(* the messages that were accepted before it, and nothing else stands there. *)
Started == {"running", "replying", "delivered", "undelivered", "silent"}

Listed == {accepted[i] : i \in DOMAIN accepted}

AcceptedInv ==
    /\ \A i, j \in DOMAIN accepted : accepted[i] = accepted[j] => i = j
    /\ \A m \in Messages : m \in Listed <=> message[m] # "new"

OrderInv ==
    \A m, n \in Messages : Before(m, n) =>
        /\ message[n] \in Started \cup {"queued"} => message[m] # "spawned"
        /\ message[n] \in Started /\ KeyOf[m] = KeyOf[n] => message[m] # "queued"

QueueInv ==
    /\ \A m \in Messages : message[m] = "queued" =>
          \E i \in DOMAIN waiters[KeyOf[m]] : waiters[KeyOf[m]][i] = m
    /\ phase \in {"serving", "stopping"} => \A k \in ChannelThreads :
          /\ \A i \in DOMAIN waiters[k] : message[waiters[k][i]] = "queued" /\ KeyOf[waiters[k][i]] = k
          /\ \A i, j \in DOMAIN waiters[k] : i < j => Before(waiters[k][i], waiters[k][j])

HolderInv ==
    phase \in {"serving", "stopping"} => \A k \in ChannelThreads :
        locked[k] => \E m \in Messages : KeyOf[m] = k /\ message[m] = "running"

\* Messages that were accepted stand in a strict total order.
LEMMA AcceptedOrder ==
  ASSUME TypeOK, AcceptedInv
  PROVE  /\ \A m \in Messages : ~Before(m, m)
         /\ \A m, n \in Listed : m # n => Before(m, n) \/ Before(n, m)
<1>1. DOMAIN accepted = 1 .. Len(accepted) /\ Len(accepted) \in Nat
  BY DEF TypeOK
<1> QED
  BY <1>1 DEF AcceptedInv, Listed, Before

\* Accepting a message puts it behind all others.
LEMMA AcceptedLast ==
  ASSUME TypeOK, AcceptedInv, NEW m \in Messages, AcceptWebhook(m)
  PROVE  /\ AcceptedInv'
         /\ \A a, b \in Messages : Before(a, b)' => a # m /\ (Before(a, b) \/ b = m)
         /\ \A a, b \in Messages : Before(a, b) => Before(a, b)'
<1>1. /\ accepted \in Seq(Messages) /\ accepted' = Append(accepted, m)
      /\ message[m] = "new" /\ message' = [message EXCEPT ![m] = "spawned"]
      /\ message \in [Messages -> MessageState]
  BY DEF TypeOK, AcceptWebhook
<1>2. /\ DOMAIN accepted = 1 .. Len(accepted) /\ Len(accepted) \in Nat
      /\ DOMAIN accepted' = 1 .. (Len(accepted) + 1)
      /\ \A i \in 1 .. Len(accepted) : accepted'[i] = accepted[i]
      /\ accepted'[Len(accepted) + 1] = m
  BY <1>1
<1>3. \A i \in DOMAIN accepted : accepted[i] # m
  BY <1>1 DEF AcceptedInv, Listed
<1>4. \A i, j \in DOMAIN accepted' : accepted'[i] = accepted'[j] => i = j
  BY <1>2, <1>3 DEF AcceptedInv
<1>5. Listed' = Listed \cup {m}
  <2>1. Listed' \subseteq Listed \cup {m}
    BY <1>2 DEF Listed
  <2>2. Listed \subseteq Listed'
    BY <1>2 DEF Listed
  <2>3. m \in Listed'
    BY <1>2 DEF Listed
  <2> QED
    BY <2>1, <2>2, <2>3
<1>6. AcceptedInv'
  <2>1. \A n \in Messages : n \in Listed' <=> message'[n] # "new"
    BY <1>1, <1>5 DEF AcceptedInv
  <2> QED
    BY <1>4, <2>1 DEF AcceptedInv
<1>7. ASSUME NEW a \in Messages, NEW b \in Messages, Before(a, b)'
      PROVE  a # m /\ (Before(a, b) \/ b = m)
  <2>1. PICK i, j \in DOMAIN accepted' : i < j /\ accepted'[i] = a /\ accepted'[j] = b
    BY <1>7 DEF Before
  <2>2. i \in DOMAIN accepted /\ accepted[i] = a
    BY <1>2, <2>1
  <2>3. a # m
    BY <1>3, <2>2
  <2>4. CASE j = Len(accepted) + 1
    BY <1>2, <2>1, <2>3, <2>4
  <2>5. CASE j # Len(accepted) + 1
    <3>1. j \in DOMAIN accepted /\ accepted[j] = b
      BY <1>2, <2>1, <2>5
    <3> QED
      BY <2>1, <2>2, <2>3, <3>1 DEF Before
  <2> QED
    BY <2>4, <2>5
<1>8. ASSUME NEW a \in Messages, NEW b \in Messages, Before(a, b)
      PROVE  Before(a, b)'
  <2>1. PICK i, j \in DOMAIN accepted : i < j /\ accepted[i] = a /\ accepted[j] = b
    BY <1>8 DEF Before
  <2>2. i \in DOMAIN accepted' /\ j \in DOMAIN accepted' /\ accepted'[i] = a /\ accepted'[j] = b
    BY <1>2, <2>1
  <2> QED
    BY <2>1, <2>2 DEF Before
<1> QED
  BY <1>6, <1>7, <1>8

LEMMA SameOrder ==
  ASSUME accepted' = accepted
  PROVE  Listed' = Listed /\ \A m, n : Before(m, n)' <=> Before(m, n)
BY DEF Listed, Before

\* What no step of the queues disturbs.
Waiting == OrderInv /\ QueueInv /\ HolderInv

LEMMA AcceptWaits ==
  ASSUME TypeOK, AcceptedInv, Waiting, NEW m \in Messages, AcceptWebhook(m)
  PROVE  AcceptedInv' /\ Waiting'
<1>1. /\ AcceptedInv'
      /\ \A a, b \in Messages : Before(a, b)' => a # m /\ (Before(a, b) \/ b = m)
      /\ \A a, b \in Messages : Before(a, b) => Before(a, b)'
  BY AcceptedLast
<1>2. /\ message[m] = "new" /\ message' = [message EXCEPT ![m] = "spawned"]
      /\ message \in [Messages -> MessageState]
      /\ waiters' = waiters /\ locked' = locked /\ phase' = phase
      /\ waiters \in [ChannelThreads -> Seq(Messages)]
  BY DEF TypeOK, AcceptWebhook, process
<1>3. \A n \in Messages : n # m => message'[n] = message[n]
  BY <1>2
<1>4. message'[m] = "spawned"
  BY <1>2
<1>5. OrderInv'
  <2> SUFFICES ASSUME NEW a \in Messages, NEW b \in Messages, Before(a, b)'
               PROVE  /\ message'[b] \in Started \cup {"queued"} => message'[a] # "spawned"
                      /\ message'[b] \in Started /\ KeyOf[a] = KeyOf[b] => message'[a] # "queued"
    BY DEF OrderInv
  <2>1. CASE b = m
    BY <1>4, <2>1 DEF Started
  <2>2. CASE b # m
    BY <1>1, <1>3, <2>2 DEF Waiting, OrderInv
  <2> QED
    BY <2>1, <2>2
<1>6. QueueInv'
  <2>1. \A k \in ChannelThreads : \A i \in DOMAIN waiters[k] : waiters[k][i] \in Messages
    BY <1>2
  <2>2. \A n \in Messages : message'[n] = "queued" => message[n] = "queued"
    BY <1>3, <1>4
  <2>3. \A n \in Messages : message[n] = "queued" => message'[n] = "queued"
    BY <1>2, <1>3
  <2> QED
    BY <1>1, <1>2, <2>1, <2>2, <2>3 DEF Waiting, QueueInv
<1>7. HolderInv'
  BY <1>2, <1>3 DEF Waiting, HolderInv
<1> QED
  BY <1>1, <1>5, <1>6, <1>7 DEF Waiting

\* A task takes a free lock or queues behind the tasks created before it.
LEMMA EnterWaits ==
  ASSUME TypeOK, AcceptedInv, PhaseInv, Waiting, NEW m \in Messages, EnterTurn(m)
  PROVE  AcceptedInv' /\ Waiting'
<1> DEFINE k == KeyOf[m]
<1>1. /\ message[m] = "spawned" /\ accepted' = accepted /\ phase' = phase
      /\ k \in ChannelThreads
      /\ message \in [Messages -> MessageState] /\ locked \in [ChannelThreads -> BOOLEAN]
      /\ waiters \in [ChannelThreads -> Seq(Messages)]
  BY DEF TypeOK, EnterTurn, IsNextToEnter, process
<1>2. \/ /\ waiters[k] = <<>> /\ waiters' = waiters
         /\ locked' = [locked EXCEPT ![k] = TRUE]
         /\ message' = [message EXCEPT ![m] = "running"]
      \/ /\ waiters' = [waiters EXCEPT ![k] = Append(waiters[k], m)] /\ locked' = locked
         /\ message' = [message EXCEPT ![m] = "queued"]
  BY DEF EnterTurn, LockIsFree
<1>3. \A a \in Messages : Before(a, m) => message[a] # "spawned"
  BY DEF EnterTurn, IsNextToEnter, Before
<1>4. Listed' = Listed /\ \A a, b : Before(a, b)' <=> Before(a, b)
  BY <1>1, SameOrder
<1>5. /\ \A n \in Messages : n # m => message'[n] = message[n]
      /\ message'[m] \in {"running", "queued"}
  BY <1>1, <1>2
<1>6. AcceptedInv'
  BY <1>1, <1>4, <1>5 DEF AcceptedInv
<1>7. \A a \in Messages : ~Before(a, a)
  BY AcceptedOrder
<1>8. phase \in {"serving", "stopping"}
  <2>1. message[m] \in LiveMessage
    BY <1>1 DEF LiveMessage
  <2> QED
    BY <2>1 DEF PhaseInv, TypeOK, Phase
<1>9. ASSUME NEW a \in Messages, message[a] = "queued" PROVE Before(a, m)
  <2>1. a \in Listed /\ m \in Listed /\ a # m
    BY <1>1, <1>9 DEF AcceptedInv
  <2>2. ~Before(m, a)
    BY <1>1, <1>9 DEF Waiting, OrderInv
  <2> QED
    BY <2>1, <2>2, AcceptedOrder
<1> HIDE DEF k
<1>10. CASE /\ waiters[k] = <<>> /\ waiters' = waiters
            /\ locked' = [locked EXCEPT ![k] = TRUE]
            /\ message' = [message EXCEPT ![m] = "running"]
  <2>1. \A a \in Messages : KeyOf[a] = k => message[a] # "queued"
    BY <1>10 DEF Waiting, QueueInv
  <2>2. OrderInv'
    <3> SUFFICES ASSUME NEW a \in Messages, NEW b \in Messages, Before(a, b)
                 PROVE  /\ message'[b] \in Started \cup {"queued"} => message'[a] # "spawned"
                        /\ message'[b] \in Started /\ KeyOf[a] = KeyOf[b] => message'[a] # "queued"
      BY <1>4 DEF OrderInv
    <3>1. CASE b = m
      BY <1>3, <1>5, <1>7, <2>1, <3>1 DEF k
    <3>2. CASE b # m /\ a = m
      BY <1>1, <1>5, <1>10, <3>2
    <3>3. CASE b # m /\ a # m
      BY <1>5, <3>3 DEF Waiting, OrderInv
    <3> QED
      BY <3>1, <3>2, <3>3
  <2>3. QueueInv'
    <3>1. \A n \in Messages : message'[n] = "queued" <=> message[n] = "queued"
      BY <1>1, <1>5, <1>10
    <3>2. \A h \in ChannelThreads : \A i \in DOMAIN waiters[h] : waiters[h][i] \in Messages
      BY <1>1
    <3>3. \A n \in Messages : message'[n] = "queued" =>
              \E i \in DOMAIN waiters[KeyOf[n]] : waiters[KeyOf[n]][i] = n
      BY <3>1 DEF Waiting, QueueInv
    <3>4. \A h \in ChannelThreads :
              /\ \A i \in DOMAIN waiters[h] : message'[waiters[h][i]] = "queued"
                                             /\ KeyOf[waiters[h][i]] = h
              /\ \A i, j \in DOMAIN waiters[h] : i < j => Before(waiters[h][i], waiters[h][j])
      BY <1>8, <3>1, <3>2 DEF Waiting, QueueInv
    <3>5. waiters' = waiters
      BY <1>10
    <3> QED
      BY <1>4, <3>3, <3>4, <3>5 DEF QueueInv
  <2>4. HolderInv'
    BY <1>1, <1>5, <1>10 DEF Waiting, HolderInv, k
  <2> QED
    BY <1>6, <2>2, <2>3, <2>4 DEF Waiting
<1>11. CASE /\ waiters' = [waiters EXCEPT ![k] = Append(waiters[k], m)] /\ locked' = locked
            /\ message' = [message EXCEPT ![m] = "queued"]
  <2> DEFINE w == waiters[k]
             v == Append(w, m)
  <2>1. /\ w \in Seq(Messages) /\ DOMAIN w = 1 .. Len(w) /\ Len(w) \in Nat
        /\ DOMAIN v = 1 .. (Len(w) + 1)
        /\ \A i \in 1 .. Len(w) : v[i] = w[i] /\ w[i] \in Messages
        /\ v[Len(w) + 1] = m
    BY <1>1
  <2>2. waiters'[k] = v /\ \A h \in ChannelThreads : h # k => waiters'[h] = waiters[h]
    BY <1>1, <1>11
  <2>3. message'[m] = "queued"
    BY <1>1, <1>11
  <2>4. OrderInv'
    <3> SUFFICES ASSUME NEW a \in Messages, NEW b \in Messages, Before(a, b)
                 PROVE  /\ message'[b] \in Started \cup {"queued"} => message'[a] # "spawned"
                        /\ message'[b] \in Started /\ KeyOf[a] = KeyOf[b] => message'[a] # "queued"
      BY <1>4 DEF OrderInv
    <3>1. CASE b = m
      BY <1>3, <1>5, <1>7, <2>3, <3>1 DEF Started
    <3>2. CASE b # m /\ a = m
      <4>1. message[b] \notin Started
        BY <1>1, <3>2 DEF Waiting, OrderInv
      <4> QED
        BY <1>5, <2>3, <3>2, <4>1
    <3>3. CASE b # m /\ a # m
      BY <1>5, <3>3 DEF Waiting, OrderInv
    <3> QED
      BY <3>1, <3>2, <3>3
  <2>5. \A n \in Messages : message'[n] = "queued" =>
            \E i \in DOMAIN waiters'[KeyOf[n]] : waiters'[KeyOf[n]][i] = n
    <3> SUFFICES ASSUME NEW n \in Messages, message'[n] = "queued"
                 PROVE  \E i \in DOMAIN waiters'[KeyOf[n]] : waiters'[KeyOf[n]][i] = n
      OBVIOUS
    <3>1. CASE n = m
      BY <2>1, <2>2, <3>1 DEF k
    <3>2. CASE n # m
      <4>1. \E i \in DOMAIN waiters[KeyOf[n]] : waiters[KeyOf[n]][i] = n
        BY <1>5, <3>2 DEF Waiting, QueueInv
      <4>2. KeyOf[n] \in ChannelThreads
        OBVIOUS
      <4>3. CASE KeyOf[n] = k
        <5>1. PICK i \in 1 .. Len(w) : w[i] = n
          BY <2>1, <4>1, <4>3
        <5>2. i \in DOMAIN v /\ v[i] = n
          BY <2>1, <5>1
        <5> QED
          BY <2>2, <4>3, <5>2
      <4>4. CASE KeyOf[n] # k
        BY <2>2, <4>1, <4>2, <4>4
      <4> QED
        BY <4>3, <4>4
    <3> QED
      BY <3>1, <3>2
  <2>6. ASSUME NEW h \in ChannelThreads
        PROVE  /\ \A i \in DOMAIN waiters'[h] : message'[waiters'[h][i]] = "queued"
                                              /\ KeyOf[waiters'[h][i]] = h
               /\ \A i, j \in DOMAIN waiters'[h] : i < j => Before(waiters'[h][i], waiters'[h][j])
    <3>1. /\ \A i \in DOMAIN waiters[h] : message[waiters[h][i]] = "queued" /\ KeyOf[waiters[h][i]] = h
          /\ \A i, j \in DOMAIN waiters[h] : i < j => Before(waiters[h][i], waiters[h][j])
      BY <1>8 DEF Waiting, QueueInv
    <3>2. CASE h # k
      <4>1. \A i \in DOMAIN waiters[h] : waiters[h][i] \in Messages
        BY <1>1
      <4>2. \A i \in DOMAIN waiters[h] : waiters[h][i] # m
        BY <1>1, <3>1
      <4> QED
        BY <1>5, <2>2, <3>1, <3>2, <4>1, <4>2
    <3>3. CASE h = k
      <4>1. \A i \in 1 .. Len(w) : w[i] # m /\ message[w[i]] = "queued" /\ KeyOf[w[i]] = k
        BY <1>1, <2>1, <3>1, <3>3
      <4>2. \A i \in 1 .. Len(w) : Before(w[i], m) /\ message'[w[i]] = "queued"
        BY <1>5, <1>9, <2>1, <4>1
      <4>3. \A i \in DOMAIN v : message'[v[i]] = "queued" /\ KeyOf[v[i]] = k
        BY <2>1, <2>3, <4>1, <4>2 DEF k
      <4>4. ASSUME NEW i \in DOMAIN v, NEW j \in DOMAIN v, i < j
            PROVE  Before(v[i], v[j])
        <5>1. i \in 1 .. Len(w) /\ v[i] = w[i]
          BY <2>1, <4>4
        <5>2. CASE j = Len(w) + 1
          BY <2>1, <4>2, <5>1, <5>2
        <5>3. CASE j # Len(w) + 1
          <6>1. j \in 1 .. Len(w) /\ v[j] = w[j]
            BY <2>1, <5>3
          <6> QED
            BY <2>1, <3>1, <3>3, <4>4, <5>1, <6>1
        <5> QED
          BY <5>2, <5>3
      <4> HIDE DEF v
      <4> QED
        BY <2>2, <3>3, <4>3, <4>4
    <3> QED
      BY <3>2, <3>3
  <2>7. QueueInv'
    BY <1>4, <2>5, <2>6 DEF QueueInv
  <2>8. HolderInv'
    BY <1>1, <1>5, <1>11 DEF Waiting, HolderInv
  <2> QED
    BY <1>6, <2>4, <2>7, <2>8 DEF Waiting
<1> QED
  BY <1>2, <1>10, <1>11

\* What is left of a sequence without its position i.
LEMMA RemovedAt ==
  ASSUME NEW S, NEW q \in Seq(S), NEW i \in 1 .. Len(q)
  PROVE  LET v == SubSeq(q, 1, i - 1) \o SubSeq(q, i + 1, Len(q))
         IN  /\ Len(v) = Len(q) - 1
             /\ \A j \in 1 .. Len(v) : v[j] = q[IF j < i THEN j ELSE j + 1]
<1> DEFINE a == SubSeq(q, 1, i - 1)
           b == SubSeq(q, i + 1, Len(q))
<1>1. /\ Len(q) \in Nat /\ i \in Nat /\ 1 <= i /\ i <= Len(q)
      /\ \A j \in 1 .. Len(q) : q[j] \in S
  OBVIOUS
<1>2. /\ a \in Seq(S) /\ Len(a) = i - 1
      /\ \A j \in 1 .. (i - 1) : a[j] = q[j]
  BY <1>1
<1>3. /\ b \in Seq(S) /\ Len(b) = Len(q) - i
      /\ \A j \in 1 .. (Len(q) - i) : b[j] = q[i + j]
  BY <1>1
<1> HIDE DEF a, b
<1>4. /\ Len(a \o b) = Len(q) - 1
      /\ \A j \in 1 .. Len(a \o b) : (a \o b)[j] = IF j <= Len(a) THEN a[j] ELSE b[j - Len(a)]
  <2>1. /\ Len(a \o b) = Len(a) + Len(b)
        /\ \A j \in 1 .. Len(a) + Len(b) : (a \o b)[j] = IF j <= Len(a) THEN a[j] ELSE b[j - Len(a)]
    <3>1. a \in Seq(S) /\ b \in Seq(S)
      BY <1>2, <1>3
    <3> QED
      BY ONLY <3>1, ConcatProperties, Zenon
  <2>2. Len(a) + Len(b) = Len(q) - 1
    BY <1>1, <1>2, <1>3
  <2> QED
    BY <2>1, <2>2
<1>5. \A j \in 1 .. Len(a \o b) : (a \o b)[j] = q[IF j < i THEN j ELSE j + 1]
  <2> SUFFICES ASSUME NEW j \in 1 .. Len(a \o b)
               PROVE  (a \o b)[j] = q[IF j < i THEN j ELSE j + 1]
    OBVIOUS
  <2>1. CASE j < i
    BY <1>1, <1>2, <1>4, <2>1
  <2>2. CASE ~(j < i)
    <3>1. j - (i - 1) \in 1 .. (Len(q) - i) /\ ~(j <= i - 1) /\ i + (j - (i - 1)) = j + 1
      BY <1>1, <1>4, <2>2
    <3> QED
      BY <1>2, <1>3, <1>4, <2>2, <3>1
  <2> QED
    BY <2>1, <2>2
<1> QED
  BY <1>4, <1>5 DEF a, b

\* A task leaves the queue from any place: the others keep their order.
LEMMA LeaveKeepsOrder ==
  ASSUME TypeOK, AcceptedInv, PhaseInv, Waiting, NEW m \in Messages, message[m] = "queued",
         accepted' = accepted, phase' = phase,
         NEW i \in DOMAIN waiters[KeyOf[m]], waiters[KeyOf[m]][i] = m,
         NEW v \in Seq(Messages),
         Len(v) = Len(waiters[KeyOf[m]]) - 1,
         \A j \in 1 .. Len(v) : v[j] = waiters[KeyOf[m]][IF j < i THEN j ELSE j + 1],
         waiters' = [waiters EXCEPT ![KeyOf[m]] = v],
         NEW s \in MessageState \ {"new", "spawned", "queued"},
         message' = [message EXCEPT ![m] = s]
  PROVE  QueueInv'
<1> DEFINE k == KeyOf[m]
           w == waiters[k]
<1>1. /\ k \in ChannelThreads /\ w \in Seq(Messages)
      /\ message \in [Messages -> MessageState]
      /\ waiters \in [ChannelThreads -> Seq(Messages)]
  BY DEF TypeOK
<1>2. /\ DOMAIN w = 1 .. Len(w) /\ Len(w) \in Nat /\ DOMAIN v = 1 .. Len(v) /\ Len(v) \in Nat
      /\ i \in 1 .. Len(w) /\ \A j \in 1 .. Len(w) : w[j] \in Messages
  BY <1>1
<1>3. /\ \A n \in Messages : n # m => message'[n] = message[n]
      /\ message'[m] # "queued"
  BY <1>1
<1>4. \A a, b : Before(a, b)' <=> Before(a, b)
  BY SameOrder
<1>5. phase \in {"serving", "stopping"}
  <2>1. message[m] \in LiveMessage
    BY DEF LiveMessage
  <2> QED
    BY <2>1 DEF PhaseInv, TypeOK, Phase
<1>6. \A h \in ChannelThreads :
          /\ \A j \in DOMAIN waiters[h] : message[waiters[h][j]] = "queued" /\ KeyOf[waiters[h][j]] = h
          /\ \A j, l \in DOMAIN waiters[h] : j < l => Before(waiters[h][j], waiters[h][l])
  BY <1>5 DEF Waiting, QueueInv
<1>7. \A j \in 1 .. Len(w) : j # i => w[j] # m
  <2> SUFFICES ASSUME NEW j \in 1 .. Len(w), j # i, w[j] = m PROVE FALSE
    OBVIOUS
  <2>1. Before(m, m)
    <3>1. j < i \/ i < j
      BY <1>2
    <3>2. \A o, l \in 1 .. Len(w) : o < l => Before(w[o], w[l])
      BY <1>1, <1>2, <1>6
    <3>3. w[i] = m
      OBVIOUS
    <3> HIDE DEF w
    <3> QED
      BY <1>2, <3>1, <3>2, <3>3
  <2> QED
    BY <2>1, AcceptedOrder
<1>8. waiters'[k] = v /\ \A h \in ChannelThreads : h # k => waiters'[h] = waiters[h]
  BY <1>1
<1>9. \A j \in 1 .. Len(v) :
          LET o == IF j < i THEN j ELSE j + 1 IN o \in 1 .. Len(w) /\ o # i /\ v[j] = w[o]
  BY <1>2
<1>10. \A o \in 1 .. Len(w) : o # i => \E j \in 1 .. Len(v) : v[j] = w[o]
  <2> SUFFICES ASSUME NEW o \in 1 .. Len(w), o # i PROVE \E j \in 1 .. Len(v) : v[j] = w[o]
    OBVIOUS
  <2>1. CASE o < i
    <3>1. o \in 1 .. Len(v) /\ v[o] = w[o]
      BY <1>2, <2>1
    <3> QED
      BY <3>1
  <2>2. CASE ~(o < i)
    <3>1. o - 1 \in 1 .. Len(v) /\ ~(o - 1 < i) /\ (o - 1) + 1 = o
      BY <1>2, <2>2
    <3>2. v[o - 1] = w[o]
      BY <1>2, <3>1
    <3> QED
      BY <3>1, <3>2
  <2> QED
    BY <2>1, <2>2
<1>11. \A n \in Messages : message'[n] = "queued" =>
           \E j \in DOMAIN waiters'[KeyOf[n]] : waiters'[KeyOf[n]][j] = n
  <2> SUFFICES ASSUME NEW n \in Messages, message'[n] = "queued"
               PROVE  \E j \in DOMAIN waiters'[KeyOf[n]] : waiters'[KeyOf[n]][j] = n
    OBVIOUS
  <2>1. n # m /\ message[n] = "queued"
    BY <1>3
  <2>2. PICK o \in DOMAIN waiters[KeyOf[n]] : waiters[KeyOf[n]][o] = n
    BY <2>1 DEF Waiting, QueueInv
  <2>3. CASE KeyOf[n] = k
    <3>1. o \in 1 .. Len(w) /\ w[o] = n /\ o # i
      BY <1>2, <2>1, <2>2, <2>3
    <3>2. PICK j \in 1 .. Len(v) : v[j] = n
      BY <1>10, <3>1
    <3>3. waiters'[KeyOf[n]] = v /\ j \in DOMAIN v
      BY <1>2, <1>8, <2>3
    <3> QED
      BY <3>2, <3>3
  <2>4. CASE KeyOf[n] # k
    BY <1>8, <2>2, <2>4
  <2> QED
    BY <2>3, <2>4
<1> HIDE DEF k, w
<1>12. ASSUME NEW h \in ChannelThreads
       PROVE  /\ \A j \in DOMAIN waiters'[h] : message'[waiters'[h][j]] = "queued"
                                             /\ KeyOf[waiters'[h][j]] = h
              /\ \A j, l \in DOMAIN waiters'[h] : j < l => Before(waiters'[h][j], waiters'[h][l])
  <2>1. CASE h # k
    <3>1. waiters'[h] = waiters[h] /\ \A j \in DOMAIN waiters[h] : waiters[h][j] \in Messages
      BY <1>1, <1>8, <2>1
    <3>2. \A j \in DOMAIN waiters[h] : waiters[h][j] # m
      BY <1>6, <2>1 DEF k
    <3> QED
      BY <1>3, <1>6, <3>1, <3>2
  <2>2. CASE h = k
    <3>1. /\ \A o \in 1 .. Len(w) : message[w[o]] = "queued" /\ KeyOf[w[o]] = k
          /\ \A o, l \in 1 .. Len(w) : o < l => Before(w[o], w[l])
      BY <1>1, <1>2, <1>6 DEF w
    <3>2. \A o \in 1 .. Len(w) : o # i => message'[w[o]] = "queued"
      BY <1>2, <1>3, <1>7, <3>1
    <3>3. \A j \in 1 .. Len(v) : message'[v[j]] = "queued" /\ KeyOf[v[j]] = k
      BY <1>9, <3>1, <3>2
    <3>4. ASSUME NEW j \in 1 .. Len(v), NEW l \in 1 .. Len(v), j < l PROVE Before(v[j], v[l])
      <4> DEFINE o == IF j < i THEN j ELSE j + 1
                 q == IF l < i THEN l ELSE l + 1
      <4>1. o \in 1 .. Len(w) /\ q \in 1 .. Len(w) /\ v[j] = w[o] /\ v[l] = w[q]
        BY <1>9
      <4>2. o < q
        BY <1>2, <3>4
      <4> HIDE DEF o, q
      <4> QED
        BY <3>1, <4>1, <4>2
    <3>5. waiters'[h] = v /\ DOMAIN v = 1 .. Len(v)
      BY <1>2, <1>8, <2>2
    <3> QED
      BY <2>2, <3>3, <3>4, <3>5
  <2> QED
    BY <2>1, <2>2
<1> QED
  BY <1>4, <1>11, <1>12 DEF QueueInv

\* The order survives a step of a message that neither enters nor starts.
LEMMA OrderKept ==
  ASSUME TypeOK, OrderInv, AcceptedInv, NEW m \in Messages, accepted' = accepted,
         message[m] # "new",
         NEW s \in MessageState \ {"new", "spawned", "queued"},
         s \in Started => message[m] \in Started,
         message' = [message EXCEPT ![m] = s]
  PROVE  OrderInv' /\ AcceptedInv'
<1>1. /\ \A n \in Messages : n # m => message'[n] = message[n]
      /\ message'[m] = s
  BY DEF TypeOK
<1>2. Listed' = Listed /\ \A a, b : Before(a, b)' <=> Before(a, b)
  BY SameOrder
<1>3. AcceptedInv'
  BY <1>1, <1>2 DEF AcceptedInv
<1>4. OrderInv'
  <2> SUFFICES ASSUME NEW a \in Messages, NEW b \in Messages, Before(a, b)
               PROVE  /\ message'[b] \in Started \cup {"queued"} => message'[a] # "spawned"
                      /\ message'[b] \in Started /\ KeyOf[a] = KeyOf[b] => message'[a] # "queued"
    BY <1>2 DEF OrderInv
  <2>1. message'[b] \in Started => message[b] \in Started
    BY <1>1
  <2>2. message'[b] = "queued" => message[b] = "queued"
    BY <1>1
  <2>3. /\ message'[a] = "spawned" => message[a] = "spawned"
        /\ message'[a] = "queued" => message[a] = "queued"
    BY <1>1
  <2> QED
    BY <2>1, <2>2, <2>3 DEF OrderInv
<1> QED
  BY <1>3, <1>4

\* The first of the queue takes the lock: nobody accepted before it waits.
LEMMA AcquireWaits ==
  ASSUME TypeOK, AcceptedInv, PhaseInv, Waiting, NEW m \in Messages, AcquireLock(m)
  PROVE  AcceptedInv' /\ Waiting'
<1> DEFINE k == KeyOf[m]
           w == waiters[k]
<1>1. /\ message[m] = "queued" /\ accepted' = accepted /\ phase' = phase
      /\ k \in ChannelThreads /\ w \in Seq(Messages) /\ w # <<>> /\ Head(w) = m
      /\ waiters' = [waiters EXCEPT ![k] = Tail(w)]
      /\ locked' = [locked EXCEPT ![k] = TRUE]
      /\ message' = [message EXCEPT ![m] = "running"]
      /\ message \in [Messages -> MessageState] /\ locked \in [ChannelThreads -> BOOLEAN]
  BY DEF TypeOK, AcquireLock, process
<1>2. /\ Len(w) \in Nat \ {0} /\ DOMAIN w = 1 .. Len(w) /\ w[1] = m
      /\ Tail(w) \in Seq(Messages) /\ Len(Tail(w)) = Len(w) - 1
      /\ \A j \in 1 .. Len(Tail(w)) : Tail(w)[j] = w[j + 1]
  BY <1>1
<1>3. QueueInv'
  <2>1. \A j \in 1 .. Len(Tail(w)) : Tail(w)[j] = w[IF j < 1 THEN j ELSE j + 1]
    BY <1>2
  <2>2. 1 \in DOMAIN w /\ "running" \in MessageState \ {"new", "spawned", "queued"}
    BY <1>2 DEF MessageState
  <2> QED
    BY <1>1, <1>2, <2>1, <2>2, LeaveKeepsOrder
<1>4. phase \in {"serving", "stopping"}
  <2>1. message[m] \in LiveMessage
    BY <1>1 DEF LiveMessage
  <2> QED
    BY <2>1 DEF PhaseInv, TypeOK, Phase
<1>5. ASSUME NEW a \in Messages, Before(a, m), KeyOf[a] = k PROVE message[a] # "queued"
  <2> SUFFICES ASSUME message[a] = "queued" PROVE FALSE
    OBVIOUS
  <2>1. PICK i \in 1 .. Len(w) : w[i] = a
    BY <1>2, <1>5 DEF Waiting, QueueInv
  <2>2. a # m
    BY <1>5, AcceptedOrder
  <2>3. Before(m, a)
    BY <1>1, <1>2, <1>4, <2>1, <2>2 DEF Waiting, QueueInv
  <2> QED
    BY <1>5, <2>2, <2>3 DEF TypeOK, AcceptedInv, Before
<1>6. /\ \A n \in Messages : n # m => message'[n] = message[n]
      /\ message'[m] = "running"
  BY <1>1
<1>7. Listed' = Listed /\ \A a, b : Before(a, b)' <=> Before(a, b)
  BY <1>1, SameOrder
<1>8. AcceptedInv'
  BY <1>1, <1>6, <1>7 DEF AcceptedInv
<1>9. OrderInv'
  <2> SUFFICES ASSUME NEW a \in Messages, NEW b \in Messages, Before(a, b)
               PROVE  /\ message'[b] \in Started \cup {"queued"} => message'[a] # "spawned"
                      /\ message'[b] \in Started /\ KeyOf[a] = KeyOf[b] => message'[a] # "queued"
    BY <1>7 DEF OrderInv
  <2>1. a = m => message'[a] = "running"
    BY <1>6
  <2>2. CASE b = m
    BY <1>1, <1>5, <1>6, <2>1, <2>2 DEF Waiting, OrderInv
  <2>3. CASE b # m
    BY <1>6, <2>1, <2>3 DEF Waiting, OrderInv
  <2> QED
    BY <2>2, <2>3
<1>10. HolderInv'
  BY <1>1, <1>6 DEF Waiting, HolderInv
<1> QED
  BY <1>3, <1>8, <1>9, <1>10 DEF Waiting

\* A run that ends frees its lock, a cancelled one too.
LEMMA EndWaits ==
  ASSUME TypeOK, AcceptedInv, PhaseInv, LockInv, Waiting, NEW m \in Messages,
         FinishRun(m) \/ Deliver(m) \/ MessageKilled(m)
  PROVE  AcceptedInv' /\ Waiting'
<1> DEFINE k == KeyOf[m]
<1>1. /\ accepted' = accepted /\ phase' = phase /\ k \in ChannelThreads
      /\ message \in [Messages -> MessageState] /\ locked \in [ChannelThreads -> BOOLEAN]
      /\ waiters \in [ChannelThreads -> Seq(Messages)]
      /\ message[m] \in LiveMessage
  BY DEF TypeOK, FinishRun, Deliver, MessageKilled, process, LiveMessage
<1>2. PICK s \in {"silent", "replying", "delivered", "undelivered", "killed"} :
          /\ message' = [message EXCEPT ![m] = s]
          /\ s \in Started => message[m] \in Started
  BY DEF FinishRun, Deliver, MessageKilled, Started
<1>3. s \in MessageState \ {"new", "spawned", "queued"} /\ s # "running"
  BY <1>2 DEF MessageState
<1>4. OrderInv' /\ AcceptedInv'
  BY <1>1, <1>2, <1>3, OrderKept DEF Waiting, LiveMessage
<1>5. /\ \A n \in Messages : n # m => message'[n] = message[n]
      /\ message'[m] = s
  BY <1>1, <1>2
<1>6. QueueInv'
  <2>1. CASE message[m] = "queued"
    <3>1. LeaveQueue(m)
      BY <2>1 DEF FinishRun, Deliver, MessageKilled
    <3>2. PICK i \in DOMAIN waiters[k] :
             /\ waiters[k][i] = m
             /\ waiters' = [waiters EXCEPT ![k] = SubSeq(waiters[k], 1, i - 1)
                                                    \o SubSeq(waiters[k], i + 1, Len(waiters[k]))]
      BY <3>1 DEF LeaveQueue
    <3> DEFINE w == waiters[k]
               v == SubSeq(w, 1, i - 1) \o SubSeq(w, i + 1, Len(w))
    <3>3. w \in Seq(Messages) /\ i \in 1 .. Len(w) /\ Len(w) \in Nat
      BY <1>1
    <3>4. v \in Seq(Messages)
      BY <3>3, RemoveTyped
    <3>5. /\ Len(v) = Len(w) - 1
          /\ \A j \in 1 .. Len(v) : v[j] = w[IF j < i THEN j ELSE j + 1]
      BY <3>3, RemovedAt
    <3> HIDE DEF v
    <3>6. waiters' = [waiters EXCEPT ![k] = v]
      BY <3>2 DEF v
    <3> QED
      BY <1>1, <1>2, <1>3, <2>1, <3>2, <3>4, <3>5, <3>6, LeaveKeepsOrder
  <2>2. CASE message[m] # "queued"
    <3>1. waiters' = waiters
      BY <2>2 DEF FinishRun, Deliver, MessageKilled
    <3>2. \A n \in Messages : message'[n] = "queued" <=> message[n] = "queued"
      BY <1>3, <1>5, <2>2
    <3>3. \A h \in ChannelThreads : \A i \in DOMAIN waiters[h] : waiters[h][i] \in Messages
      BY <1>1
    <3>4. \A a, b : Before(a, b)' <=> Before(a, b)
      BY <1>1, SameOrder
    <3> QED
      BY <1>1, <3>1, <3>2, <3>3, <3>4 DEF Waiting, QueueInv
  <2> QED
    BY <2>1, <2>2
<1>7. HolderInv'
  <2> SUFFICES ASSUME phase \in {"serving", "stopping"}, NEW h \in ChannelThreads, locked'[h]
               PROVE  \E n \in Messages : KeyOf[n] = h /\ message'[n] = "running"
    BY <1>1 DEF HolderInv
  <2>1. CASE message[m] = "running"
    <3>1. locked' = [locked EXCEPT ![k] = FALSE]
      BY <2>1 DEF FinishRun, Deliver, MessageKilled
    <3>2. h # k /\ locked[h]
      BY <1>1, <3>1
    <3> QED
      BY <1>5, <3>2 DEF Waiting, HolderInv
  <2>2. CASE message[m] # "running"
    <3>1. locked' = locked
      BY <2>2 DEF FinishRun, Deliver, MessageKilled
    <3> QED
      BY <1>5, <2>2, <3>1 DEF Waiting, HolderInv
  <2> QED
    BY <2>1, <2>2
<1> QED
  BY <1>4, <1>6, <1>7 DEF Waiting

LEMMA CrashWaits ==
  ASSUME TypeOK, AcceptedInv, Waiting, Crash
  PROVE  AcceptedInv' /\ Waiting'
<1>1. /\ accepted' = accepted /\ phase' = "crashed"
      /\ \A n \in Messages : message'[n] = IF message[n] \in LiveMessage THEN "lost" ELSE message[n]
  BY DEF Crash
<1>2. Listed' = Listed /\ \A a, b : Before(a, b)' <=> Before(a, b)
  BY <1>1, SameOrder
<1>3. \A n \in Messages : /\ message'[n] \in Started => message[n] \in Started
                          /\ message'[n] \notin {"spawned", "queued"}
                          /\ message'[n] = "new" <=> message[n] = "new"
  BY <1>1 DEF LiveMessage, Started
<1>4. AcceptedInv'
  BY <1>1, <1>2, <1>3 DEF AcceptedInv
<1>5. OrderInv'
  BY <1>2, <1>3 DEF Waiting, OrderInv
<1>6. QueueInv' /\ HolderInv'
  BY <1>1, <1>3 DEF QueueInv, HolderInv
<1> QED
  BY <1>4, <1>5, <1>6 DEF Waiting

LEMMA RestartWaits ==
  ASSUME TypeOK, PhaseInv, AcceptedInv, Waiting, Restart
  PROVE  AcceptedInv' /\ Waiting'
<1>1. /\ accepted' = accepted /\ message' = message
      /\ \A k \in ChannelThreads : waiters'[k] = <<>> /\ ~locked'[k]
      /\ \A n \in Messages : message[n] # "queued"
  BY DEF Restart, PhaseInv, LiveMessage
<1>2. Listed' = Listed /\ \A a, b : Before(a, b)' <=> Before(a, b)
  BY <1>1, SameOrder
<1>3. AcceptedInv' /\ OrderInv'
  BY <1>1, <1>2 DEF AcceptedInv, Waiting, OrderInv
<1>4. QueueInv' /\ HolderInv'
  BY <1>1 DEF QueueInv, HolderInv
<1> QED
  BY <1>3, <1>4 DEF Waiting

LEMMA WaitingStep == IInv /\ AcceptedInv /\ Waiting /\ [Next]_vars => AcceptedInv' /\ Waiting'
<1> SUFFICES ASSUME IInv, AcceptedInv, Waiting, [Next]_vars PROVE AcceptedInv' /\ Waiting'
  OBVIOUS
<1> USE DEF IInv
<1>1. ASSUME NEW m \in Messages, AcceptWebhook(m) PROVE AcceptedInv' /\ Waiting'
  BY <1>1, AcceptWaits
<1>2. ASSUME NEW m \in Messages, MessageStep(m) PROVE AcceptedInv' /\ Waiting'
  BY <1>2, EnterWaits, AcquireWaits, EndWaits DEF MessageStep
<1>3. CASE Crash
  BY <1>3, CrashWaits
<1>4. CASE Restart
  BY <1>4, RestartWaits
<1>5. ASSUME accepted' = accepted, message' = message, waiters' = waiters, locked' = locked,
             phase' = phase \/ (phase = "serving" /\ phase' = "stopping") \/ phase' = "stopped"
      PROVE  AcceptedInv' /\ Waiting'
  <2>1. Listed' = Listed /\ \A a, b : Before(a, b)' <=> Before(a, b)
    BY <1>5, SameOrder
  <2> QED
    BY <1>5, <2>1 DEF AcceptedInv, Waiting, OrderInv, QueueInv, HolderInv
<1>6. CASE BeginShutdown \/ EndShutdown
  BY <1>5, <1>6 DEF BeginShutdown, EndShutdown, channel
<1>7. ASSUME NEW h \in HttpThreads, CreateSession(h) \/ \E t \in Turns : StartTurn(h, t)
      PROVE  AcceptedInv' /\ Waiting'
  BY <1>5, <1>7 DEF CreateSession, StartTurn, channel, process
<1>8. ASSUME NEW t \in Turns, RunnerStep(t) PROVE AcceptedInv' /\ Waiting'
  BY <1>5, <1>8 DEF RunnerStep, RunnerEnters, RunnerEnds, RunnerKilled, channel, process
<1>9. CASE UNCHANGED vars
  BY <1>5, <1>9 DEF vars, channel, process
<1> QED
  BY <1>1, <1>2, <1>3, <1>4, <1>6, <1>7, <1>8, <1>9 DEF Next

LEMMA QueuesInvariant == Spec => [](AcceptedInv /\ Waiting)
<1>1. Init => AcceptedInv /\ Waiting
  BY DEF Init, AcceptedInv, Listed, Waiting, OrderInv, QueueInv, HolderInv, Before
<1> QED
  BY <1>1, WaitingStep, Invariant, PTL DEF Spec

-----------------------------------------------------------------------------
(* The refinement of Conversations.                                          *)

\* A state of the manager as those who send work see it.
Up == phase \in {"serving", "stopping"}

\* Of a message that changes, only that one is seen to change.
LEMMA MessageChanges ==
  ASSUME TypeOK, NEW m \in Messages, NEW s, message' = [message EXCEPT ![m] = s]
  PROVE  /\ \A n \in Messages : n # m => message'[n] = message[n] /\ MessageSeen'[n] = MessageSeen[n]
         /\ message'[m] = s
         /\ \A v : MessageSeen'[m] = v => MessageSeen' = [MessageSeen EXCEPT ![m] = v]
<1>1. message \in [Messages -> MessageState]
  BY DEF TypeOK
<1>2. \A n \in Messages : n # m => message'[n] = message[n] /\ MessageSeen'[n] = MessageSeen[n]
  BY <1>1 DEF MessageSeen
<1>3. message'[m] = s
  BY <1>1
<1>4. ASSUME NEW v, MessageSeen'[m] = v
      PROVE  MessageSeen' = [MessageSeen EXCEPT ![m] = v]
  <2>1. /\ MessageSeen = [n \in Messages |-> MessageSeen[n]]
        /\ MessageSeen' = [n \in Messages |-> MessageSeen'[n]]
    BY DEF MessageSeen
  <2> HIDE DEF MessageSeen
  <2> QED
    BY <1>2, <1>4, <2>1
<1> QED
  BY <1>2, <1>3, <1>4

\* Nothing changes place in line but a message that is accepted or stops to wait.
LEMMA PlacesKept ==
  ASSUME MessageSeen' = MessageSeen, accepted' = accepted
  PROVE  AheadSeen' = AheadSeen
<1>1. \A m, n \in Messages : Before(m, n)' <=> Before(m, n)
  BY DEF Before
<1> HIDE DEF MessageSeen, Before
<1> QED
  BY <1>1 DEF AheadSeen

LEMMA LeavesLine ==
  ASSUME TypeOK, NEW m \in Messages, NEW v, v # "waiting", accepted' = accepted,
         MessageSeen' = [MessageSeen EXCEPT ![m] = v]
  PROVE  Promise!Leaves(m)
<1> DEFINE InLine(p, seen) == /\ KeyOf[p[1]] = KeyOf[p[2]] /\ Before(p[1], p[2])
                              /\ seen[p[1]] = "waiting" /\ seen[p[2]] = "waiting"
<1>1. \A a, b \in Messages : Before(a, b)' <=> Before(a, b)
  BY DEF Before
<1>2. DOMAIN MessageSeen = Messages
  BY DEF MessageSeen
<1>3. \A n \in Messages : MessageSeen'[n] = IF n = m THEN v ELSE MessageSeen[n]
  BY <1>2
<1>4. AheadSeen = {p \in Messages \X Messages : InLine(p, MessageSeen)}
  BY DEF AheadSeen
<1>5. AheadSeen' = {p \in Messages \X Messages : InLine(p, MessageSeen')}
  BY <1>1 DEF AheadSeen
<1>6. \A p \in Messages \X Messages :
          InLine(p, MessageSeen') <=> InLine(p, MessageSeen) /\ p[1] # m /\ p[2] # m
  <2> SUFFICES ASSUME NEW a \in Messages, NEW b \in Messages
               PROVE  InLine(<<a, b>>, MessageSeen')
                        <=> InLine(<<a, b>>, MessageSeen) /\ a # m /\ b # m
    OBVIOUS
  <2> HIDE DEF MessageSeen, Before
  <2> QED
    BY <1>3
<1> HIDE DEF InLine
<1> QED
  BY <1>4, <1>5, <1>6 DEF Promise!Leaves

\* A message that is accepted takes its place behind those of its key that wait.
LEMMA JoinsLine ==
  ASSUME TypeOK, AcceptedInv, NEW m \in Messages, AcceptWebhook(m),
         MessageSeen' = [MessageSeen EXCEPT ![m] = "waiting"]
  PROVE  AheadSeen' = AheadSeen \cup
             {<<w, m>> : w \in {n \in Messages : Promise!Waiting(n) /\ KeyOf[n] = KeyOf[m]}}
<1> DEFINE joined == {<<w, m>> : w \in {n \in Messages : Promise!Waiting(n) /\ KeyOf[n] = KeyOf[m]}}
<1>1. /\ \A a, b \in Messages : Before(a, b)' => a # m /\ (Before(a, b) \/ b = m)
      /\ \A a, b \in Messages : Before(a, b) => Before(a, b)'
  BY AcceptedLast
<1>2. DOMAIN MessageSeen = Messages /\ MessageSeen[m] = "new" /\ message[m] = "new"
  BY DEF MessageSeen, AcceptWebhook
<1>3. \A n \in Messages : MessageSeen'[n] = IF n = m THEN "waiting" ELSE MessageSeen[n]
  BY <1>2
<1>4. ASSUME NEW w \in Messages, MessageSeen[w] = "waiting" PROVE Before(w, m)'
  <2>1. w \in Listed
    <3>1. message[w] # "new"
      BY <1>4 DEF MessageSeen
    <3> QED
      BY <3>1 DEF AcceptedInv
  <2>2. PICK i \in DOMAIN accepted : accepted[i] = w
    BY <2>1 DEF Listed
  <2>3. accepted' = Append(accepted, m) /\ accepted \in Seq(Messages)
    BY DEF AcceptWebhook, TypeOK
  <2>4. /\ i \in 1 .. Len(accepted) /\ Len(accepted) + 1 \in DOMAIN accepted'
        /\ i \in DOMAIN accepted' /\ i < Len(accepted) + 1
    BY <2>2, <2>3
  <2>5. accepted'[i] = w /\ accepted'[Len(accepted) + 1] = m
    BY <2>2, <2>3, <2>4
  <2> QED
    BY <2>4, <2>5 DEF Before
<1>5. \A a, b \in Messages :
          <<a, b>> \in AheadSeen' <=> /\ KeyOf[a] = KeyOf[b] /\ Before(a, b)'
                                     /\ MessageSeen'[a] = "waiting" /\ MessageSeen'[b] = "waiting"
  BY DEF AheadSeen
<1>6. \A a, b \in Messages :
          <<a, b>> \in AheadSeen <=> /\ KeyOf[a] = KeyOf[b] /\ Before(a, b)
                                    /\ MessageSeen[a] = "waiting" /\ MessageSeen[b] = "waiting"
  BY DEF AheadSeen
<1>7. \A a, b \in Messages :
          <<a, b>> \in joined <=> b = m /\ MessageSeen[a] = "waiting" /\ KeyOf[a] = KeyOf[m]
  BY DEF Promise!Waiting
<1>8. ASSUME NEW a \in Messages, NEW b \in Messages
      PROVE  <<a, b>> \in AheadSeen' <=> <<a, b>> \in AheadSeen \cup joined
  <2> HIDE DEF MessageSeen, AheadSeen, joined, Before
  <2>1. CASE b = m
    BY <1>1, <1>2, <1>3, <1>4, <1>5, <1>6, <1>7, <2>1
  <2>2. CASE b # m
    BY <1>1, <1>2, <1>3, <1>5, <1>6, <1>7, <2>2
  <2> QED
    BY <2>1, <2>2
<1>9. /\ AheadSeen \subseteq Messages \X Messages /\ AheadSeen' \subseteq Messages \X Messages
      /\ joined \subseteq Messages \X Messages
  BY DEF AheadSeen
<1> HIDE DEF AheadSeen, joined
<1> QED
  BY <1>8, <1>9 DEF joined

\* A message starts to run: it is alone, and the oldest that waits.
LEMMA RunIsNext ==
  ASSUME TypeOK, AcceptedInv, LockInv', Waiting', NEW n \in Messages, Up,
         message[n] \in {"spawned", "queued"}, message' = [message EXCEPT ![n] = "running"],
         UNCHANGED <<process, http, accepted>>
  PROVE  Promise!Run(n)
<1>1. /\ message'[n] = "running"
      /\ \A m \in Messages : m # n => message'[m] = message[m]
  BY MessageChanges
<1>2. MessageSeen[n] = "waiting" /\ MessageSeen'[n] = "running"
  BY <1>1 DEF MessageSeen
<1>3. MessageSeen' = [MessageSeen EXCEPT ![n] = "running"]
  BY <1>2, MessageChanges
<1>4. ASSUME NEW m \in Messages, KeyOf[m] = KeyOf[n]
      PROVE  /\ MessageSeen[m] # "running"
             /\ Before(m, n) => MessageSeen[m] # "waiting"
  <2>1. CASE m = n
    <3>1. ~Before(n, n)
      BY AcceptedOrder
    <3> QED
      BY <1>2, <2>1, <3>1
  <2>2. CASE m # n
    <3>1. message[m] # "running"
      BY <1>1, <1>4, <2>2 DEF LockInv
    <3>2. Before(m, n) => Before(m, n)'
      BY DEF Before
    <3>3. Before(m, n) => message[m] \notin {"spawned", "queued"}
      BY <1>1, <1>4, <2>2, <3>2 DEF Waiting, OrderInv, Started
    <3>4. MessageSeen[m] = "running" => message[m] = "running"
      BY DEF MessageSeen
    <3>5. MessageSeen[m] = "waiting" => message[m] \in {"spawned", "queued"}
      BY DEF MessageSeen
    <3> QED
      BY <3>1, <3>3, <3>4, <3>5
  <2> QED
    BY <2>1, <2>2
<1>5. Up' /\ TurnSeen' = TurnSeen
  BY DEF process, http, Up, TurnSeen
<1>6. \A m \in Messages : <<m, n>> \notin AheadSeen
  <2> HIDE DEF MessageSeen, Before
  <2> QED
    BY <1>4 DEF AheadSeen
<1>7. Promise!Leaves(n)
  BY <1>3, LeavesLine
<1> QED
  BY <1>2, <1>3, <1>4, <1>5, <1>6, <1>7 DEF Promise!Run, Promise!Waiting, process, http, Up

\* A message is over, whether run or dropped.
LEMMA FinishIsSeen ==
  ASSUME TypeOK, NEW m \in Messages, Up, message[m] \in {"spawned", "queued", "running"},
         NEW s \in {"silent", "replying", "killed"}, message' = [message EXCEPT ![m] = s],
         UNCHANGED <<process, http, accepted>>
  PROVE  Promise!Finish(m)
<1>1. MessageSeen[m] \in {"waiting", "running"}
  BY DEF MessageSeen
<1>2. MessageSeen'[m] = "over"
  <2>1. message'[m] = s
    BY DEF TypeOK
  <2> QED
    BY <2>1 DEF MessageSeen
<1>3. MessageSeen' = [MessageSeen EXCEPT ![m] = "over"]
  BY <1>2, MessageChanges
<1>4. TurnSeen' = TurnSeen
  BY DEF http, TurnSeen
<1>5. Promise!Leaves(m)
  BY <1>3, LeavesLine
<1> QED
  BY <1>1, <1>3, <1>4, <1>5 DEF Promise!Finish, process, http, Up

\* A reply is delivered or its delivery cancelled: the run was over before.
LEMMA DeliveryIsUnseen ==
  ASSUME TypeOK, NEW m \in Messages, message[m] = "replying",
         NEW s \in {"delivered", "undelivered", "killed"}, message' = [message EXCEPT ![m] = s],
         UNCHANGED <<process, http, accepted>>
  PROVE  UNCHANGED Promise!vars
<1>1. MessageSeen[m] = "over"
  BY DEF MessageSeen
<1>2. MessageSeen'[m] = "over"
  <2>1. message'[m] \in {"delivered", "undelivered", "killed"}
    BY MessageChanges
  <2> QED
    BY <2>1 DEF MessageSeen
<1>3. MessageSeen' = MessageSeen
  <2>1. MessageSeen' = [MessageSeen EXCEPT ![m] = "over"]
    BY <1>2, MessageChanges
  <2>2. MessageSeen = [n \in Messages |-> MessageSeen[n]]
    BY DEF MessageSeen
  <2> HIDE DEF MessageSeen
  <2> QED
    BY <1>1, <2>1, <2>2
<1>4. TurnSeen' = TurnSeen
  BY DEF http, TurnSeen
<1> QED
  BY <1>3, <1>4, PlacesKept DEF Promise!vars, process, http

\* A turn's step, and how it is seen.
LEMMA TurnChanges ==
  ASSUME TypeOK, NEW t \in Turns, NEW s, turn' = [turn EXCEPT ![t] = s],
         NEW v, s \in LiveTurn => v = "live", s \in {"ended", "killed", "lost"} => v = "over",
         s \in LiveTurn \cup {"ended", "killed", "lost"}
  PROVE  TurnSeen' = [TurnSeen EXCEPT ![t] = v]
<1>1. turn \in [Turns -> TurnState]
  BY DEF TypeOK
<1>2. turn'[t] = s /\ \A u \in Turns : u # t => turn'[u] = turn[u]
  BY <1>1
<1>3. TurnSeen'[t] = v
  BY <1>2 DEF TurnSeen, LiveTurn
<1>4. \A u \in Turns : u # t => TurnSeen'[u] = TurnSeen[u]
  BY <1>2 DEF TurnSeen
<1>5. /\ TurnSeen = [u \in Turns |-> TurnSeen[u]]
      /\ TurnSeen' = [u \in Turns |-> TurnSeen'[u]]
  BY DEF TurnSeen
<1> HIDE DEF TurnSeen
<1> QED
  BY <1>3, <1>4, <1>5

\* The process ends: nothing is left of what it was doing.
LEMMA EndIsSeen ==
  ASSUME TypeOK, Up, ~Up', UNCHANGED <<thread, accepted>>,
         turn' = [t \in Turns |-> IF turn[t] \in LiveTurn THEN "lost" ELSE turn[t]],
         message' = [m \in Messages |-> IF message[m] \in LiveMessage THEN "lost" ELSE message[m]]
  PROVE  Promise!Stop
<1>1. \A t \in Turns : TurnSeen'[t] = IF TurnSeen[t] = "live" THEN "over" ELSE TurnSeen[t]
  BY DEF TurnSeen, LiveTurn
<1>2. \A m \in Messages : MessageSeen'[m] = IF MessageSeen[m] = "new" THEN "new" ELSE "over"
  BY DEF MessageSeen, LiveMessage
<1>3. /\ TurnSeen' = [t \in Turns |-> TurnSeen'[t]]
      /\ MessageSeen' = [m \in Messages |-> MessageSeen'[m]]
  BY DEF TurnSeen, MessageSeen
<1> HIDE DEF TurnSeen, MessageSeen
<1>4. AheadSeen' = {}
  BY <1>2 DEF AheadSeen
<1> QED
  BY <1>1, <1>2, <1>3, <1>4 DEF Promise!Stop, Up

\* Every step of the manager is a step of Conversations or is not seen.
LEMMA PromiseStep ==
  IInv /\ AcceptedInv /\ IInv' /\ Waiting' /\ [Next]_vars => [Promise!Next]_Promise!vars
<1> SUFFICES ASSUME IInv, AcceptedInv, IInv', Waiting', [Next]_vars
             PROVE  [Promise!Next]_Promise!vars
  OBVIOUS
<1>t. /\ TypeOK /\ PhaseInv /\ TableInv /\ LockInv'
      /\ turn \in [Turns -> TurnState] /\ message \in [Messages -> MessageState]
      /\ phase \in Phase
  BY DEF IInv, TypeOK
<1>l. /\ \A t \in Turns : turn[t] \in LiveTurn => Up
      /\ \A m \in Messages : message[m] \in LiveMessage => Up
  BY <1>t DEF PhaseInv, Phase, Up
\* What is not seen: no change of a turn, a message or the process.
<1>u. ASSUME UNCHANGED <<turn, thread, message, accepted>>, Up' <=> Up
      PROVE  UNCHANGED Promise!vars
  <2>1. TurnSeen' = TurnSeen /\ MessageSeen' = MessageSeen
    BY <1>u DEF TurnSeen, MessageSeen
  <2> QED
    BY <1>u, <2>1, PlacesKept DEF Promise!vars, Up
<1>1. ASSUME NEW h \in HttpThreads, CreateSession(h) PROVE UNCHANGED Promise!vars
  BY <1>1, <1>u DEF CreateSession, process, channel, Up
<1>2. ASSUME NEW h \in HttpThreads, NEW t \in Turns, StartTurn(h, t) PROVE Promise!Start(t, h)
  <2>1. TurnSeen' = [TurnSeen EXCEPT ![t] = "live"]
    BY <1>2, <1>t, TurnChanges DEF StartTurn, LiveTurn
  <2>2. TurnSeen[t] = "new"
    BY <1>2 DEF StartTurn, TurnSeen, LiveTurn
  <2>3. ASSUME NEW u \in Turns, TurnSeen[u] = "live" PROVE thread[u] # h
    <3>1. turn[u] \in LiveTurn
      BY <2>3 DEF TurnSeen
    <3> QED
      BY <1>2, <1>t, <3>1 DEF StartTurn, IsActive, TableInv
  <2>4. MessageSeen' = MessageSeen /\ accepted' = accepted /\ Up /\ Up'
    BY <1>2 DEF StartTurn, MessageSeen, channel, process, Up
  <2> QED
    BY <1>2, <2>1, <2>2, <2>3, <2>4, PlacesKept DEF Promise!Start, StartTurn, Up
<1>3. ASSUME NEW t \in Turns, RunnerEnters(t) PROVE UNCHANGED Promise!vars
  <2>1. TurnSeen' = [TurnSeen EXCEPT ![t] = "live"]
    BY <1>3, <1>t, TurnChanges DEF RunnerEnters, LiveTurn
  <2>2. TurnSeen[t] = "live" /\ TurnSeen = [u \in Turns |-> TurnSeen[u]]
    BY <1>3 DEF RunnerEnters, TurnSeen, LiveTurn
  <2>3. MessageSeen' = MessageSeen
    BY <1>3 DEF RunnerEnters, MessageSeen, channel
  <2>4. TurnSeen' = TurnSeen
    <3> HIDE DEF TurnSeen
    <3> QED
      BY <2>1, <2>2
  <2> QED
    BY <1>3, <2>3, <2>4, PlacesKept DEF Promise!vars, RunnerEnters, channel, process
<1>4. ASSUME NEW t \in Turns, RunnerEnds(t) \/ RunnerKilled(t) PROVE Promise!End(t)
  <2>1. TurnSeen' = [TurnSeen EXCEPT ![t] = "over"]
    <3>1. turn' = [turn EXCEPT ![t] = "ended"] \/ turn' = [turn EXCEPT ![t] = "killed"]
      BY <1>4 DEF RunnerEnds, RunnerKilled
    <3> QED
      BY <1>t, <3>1, TurnChanges DEF LiveTurn
  <2>2. TurnSeen[t] = "live" /\ turn[t] \in LiveTurn
    BY <1>4 DEF RunnerEnds, RunnerKilled, TurnSeen, LiveTurn
  <2>3. MessageSeen' = MessageSeen /\ UNCHANGED <<process, thread, channel>>
    BY <1>4 DEF RunnerEnds, RunnerKilled, MessageSeen, channel
  <2> QED
    BY <1>l, <2>1, <2>2, <2>3, PlacesKept DEF Promise!End, process, channel, Up
<1>5. ASSUME NEW m \in Messages, AcceptWebhook(m) PROVE Promise!Arrive(m)
  <2>1. message' = [message EXCEPT ![m] = "spawned"] /\ message[m] = "new" /\ Up
    BY <1>5 DEF AcceptWebhook, Up
  <2>2. MessageSeen[m] = "new"
    BY <2>1 DEF MessageSeen
  <2>3. MessageSeen'[m] = "waiting"
    BY <1>t, <2>1, MessageChanges DEF MessageSeen
  <2>4. MessageSeen' = [MessageSeen EXCEPT ![m] = "waiting"]
    BY <1>t, <2>1, <2>3, MessageChanges
  <2>5. TurnSeen' = TurnSeen
    BY <1>5 DEF AcceptWebhook, http, TurnSeen
  <2>6. AheadSeen' = AheadSeen \cup
            {<<w, m>> : w \in {n \in Messages : Promise!Waiting(n) /\ KeyOf[n] = KeyOf[m]}}
    BY <1>5, <1>t, <2>4, JoinsLine
  <2> HIDE DEF MessageSeen, AheadSeen
  <2> QED
    BY <1>5, <2>1, <2>2, <2>4, <2>5, <2>6 DEF Promise!Arrive, AcceptWebhook, process, http, Up
<1>6. ASSUME NEW m \in Messages, EnterTurn(m) PROVE Promise!Run(m) \/ UNCHANGED Promise!vars
  <2>1. CASE message' = [message EXCEPT ![m] = "running"]
    <3>1. message[m] = "spawned" /\ UNCHANGED <<process, http, accepted>>
      BY <1>6 DEF EnterTurn, IsNextToEnter
    <3>2. Up
      BY <1>l, <3>1 DEF LiveMessage
    <3> QED
      BY <1>t, <2>1, <3>1, <3>2, RunIsNext
  <2>2. CASE message' = [message EXCEPT ![m] = "queued"]
    <3>1. message[m] = "spawned" /\ UNCHANGED <<process, http, accepted>>
      BY <1>6 DEF EnterTurn, IsNextToEnter
    <3>2. MessageSeen[m] = "waiting"
      BY <3>1 DEF MessageSeen
    <3>3. MessageSeen'[m] = "waiting"
      BY <1>t, <2>2, MessageChanges DEF MessageSeen
    <3>4. MessageSeen' = [MessageSeen EXCEPT ![m] = "waiting"]
      BY <1>t, <2>2, <3>3, MessageChanges
    <3>5. MessageSeen = [n \in Messages |-> MessageSeen[n]] /\ TurnSeen' = TurnSeen
      BY <3>1 DEF MessageSeen, TurnSeen, http
    <3>6. MessageSeen' = MessageSeen
      <4> HIDE DEF MessageSeen
      <4> QED
        BY <3>2, <3>4, <3>5
    <3> QED
      BY <3>1, <3>5, <3>6, PlacesKept DEF Promise!vars, process, http
  <2> QED
    BY <1>6, <2>1, <2>2 DEF EnterTurn
<1>7. ASSUME NEW m \in Messages, AcquireLock(m) PROVE Promise!Run(m)
  <2>1. /\ message[m] = "queued" /\ UNCHANGED <<process, http, accepted>>
        /\ message' = [message EXCEPT ![m] = "running"]
    BY <1>7 DEF AcquireLock
  <2>2. Up
    BY <1>l, <2>1 DEF LiveMessage
  <2> QED
    BY <1>t, <2>1, <2>2, RunIsNext
<1>8. ASSUME NEW m \in Messages, FinishRun(m) PROVE Promise!Finish(m)
  <2>1. /\ message[m] = "running" /\ UNCHANGED <<process, http, accepted>>
        /\ \E s \in {"silent", "replying"} : message' = [message EXCEPT ![m] = s]
    BY <1>8 DEF FinishRun
  <2>2. Up
    BY <1>l, <2>1 DEF LiveMessage
  <2> QED
    BY <1>t, <2>1, <2>2, FinishIsSeen
<1>9. ASSUME NEW m \in Messages, Deliver(m) PROVE UNCHANGED Promise!vars
  BY <1>9, <1>t, DeliveryIsUnseen DEF Deliver
<1>10. ASSUME NEW m \in Messages, MessageKilled(m) PROVE Promise!Finish(m) \/ UNCHANGED Promise!vars
  <2>1. /\ message[m] \in LiveMessage /\ UNCHANGED <<process, http, accepted>>
        /\ message' = [message EXCEPT ![m] = "killed"] /\ Up
    BY <1>10, <1>l DEF MessageKilled
  <2>2. CASE message[m] = "replying"
    BY <1>t, <2>1, <2>2, DeliveryIsUnseen
  <2>3. CASE message[m] # "replying"
    BY <1>t, <2>1, <2>3, FinishIsSeen DEF LiveMessage
  <2> QED
    BY <2>2, <2>3
<1>11. CASE BeginShutdown
  BY <1>11, <1>u DEF BeginShutdown, http, channel, Up
<1>12. CASE EndShutdown
  <2>1. /\ UNCHANGED <<thread, accepted, turn, message>> /\ Up /\ ~Up'
    BY <1>12 DEF EndShutdown, http, channel, Up
  <2>2. /\ \A t \in Turns : turn[t] \notin LiveTurn
        /\ \A m \in Messages : message[m] \notin LiveMessage
    BY <1>12, <1>t DEF EndShutdown, PhaseInv
  <2>3. turn' = [t \in Turns |-> IF turn[t] \in LiveTurn THEN "lost" ELSE turn[t]]
    BY <1>t, <2>1, <2>2
  <2>4. message' = [m \in Messages |-> IF message[m] \in LiveMessage THEN "lost" ELSE message[m]]
    BY <1>t, <2>1, <2>2
  <2>5. Promise!Stop
    BY <1>t, <2>1, <2>3, <2>4, EndIsSeen
  <2> QED
    BY <2>5 DEF Promise!Next
<1>13. CASE Crash
  <2>1. Promise!Stop
    BY <1>13, <1>t, EndIsSeen DEF Crash, Up
  <2> QED
    BY <2>1 DEF Promise!Next
<1>14. CASE Restart
  <2>1. TurnSeen' = TurnSeen /\ MessageSeen' = MessageSeen
    BY <1>14 DEF Restart, TurnSeen, MessageSeen
  <2>2. Promise!Resume
    BY <1>14, <2>1, PlacesKept DEF Restart, Promise!Resume
  <2> QED
    BY <2>2 DEF Promise!Next
<1>15. CASE UNCHANGED vars
  BY <1>15, <1>u DEF vars, http, channel, process, Up
<1> QED
  BY <1>1, <1>2, <1>3, <1>4, <1>5, <1>6, <1>7, <1>8, <1>9, <1>10, <1>11, <1>12, <1>13, <1>14, <1>15
     DEF Next, RunnerStep, MessageStep, Promise!Next

-----------------------------------------------------------------------------
\* The state of the manager is well typed; in particular the bookkeeping only
\* ever names turns and shutdown only ever cancels tasks.
THEOREM TypeCorrect == Spec => []TypeOK
BY Invariant, PTL DEF IInv

\* No two turns of one HTTP session are ever live together: the 409 check and
\* the release of the bookkeeping suffice, through shutdowns and restarts too.
THEOREM SessionsRunOneTurn == Spec => []OneTurnPerSession
<1>1. IInv => OneTurnPerSession
  BY DEF IInv, TableInv, OneTurnPerSession
<1> QED
  BY <1>1, Invariant, PTL

\* The two tables agree and name exactly the live turns: no session is left
\* answering 409, or streaming a finished turn, while the server serves.
THEOREM TablesAreExact == Spec => []BookkeepingIsExact
<1>1. IInv => BookkeepingIsExact
  BY DEF IInv, TableInv, BookkeepingIsExact
<1> QED
  BY <1>1, Invariant, PTL

\* Two turns of one channel conversation never run together.
THEOREM ConversationsSerialized == Spec => []ChannelTurnsSerialized
<1>1. IInv => ChannelTurnsSerialized
  BY DEF IInv, LockInv, ChannelTurnsSerialized
<1> QED
  BY <1>1, Invariant, PTL

\* shutdown() returns only when no turn of either kind is left.
THEOREM NothingOutlivesRuntime == Spec => []NoTurnOutlivesRuntime
<1>1. IInv => NoTurnOutlivesRuntime
  BY DEF IInv, PhaseInv, ChannelTasks, NoTurnOutlivesRuntime
<1> QED
  BY <1>1, Invariant, PTL

\* A turn never starts while an older message of its conversation waits: tasks
\* start in order and asyncio.Lock is first come, first served.
THEOREM TurnsKeepTheirOrder == Spec => []StartsInOrder
<1>1. TypeOK /\ Waiting => StartsInOrder
  <2> SUFFICES ASSUME TypeOK, Waiting, NEW m \in Messages, NEW n \in Messages,
                      NEW i \in DOMAIN accepted, NEW j \in DOMAIN accepted,
                      i < j, accepted[i] = m, accepted[j] = n, KeyOf[m] = KeyOf[n],
                      message[n] \in Started
               PROVE  message[m] \notin {"spawned", "queued"}
    BY DEF StartsInOrder, Started
  <2>1. Before(m, n)
    BY DEF Before
  <2> QED
    BY <2>1 DEF Waiting, OrderInv
<1> QED
  BY <1>1, QueuesInvariant, Invariant, PTL DEF IInv

\* Every held lock has a running owner and every place of a queue a task that
\* waits: no conversation stops, whatever is cancelled (run_channel_turn).
THEOREM LocksAreOwned == Spec => []LocksHaveLiveOwners
<1>1. TypeOK /\ LockInv /\ Waiting => LocksHaveLiveOwners
  BY DEF TypeOK, LockInv, Waiting, QueueInv, HolderInv, LocksHaveLiveOwners
<1> QED
  BY <1>1, QueuesInvariant, Invariant, PTL DEF IInv

\* Tables, locks and queues implement Conversations, for any sessions, keys,
\* turns, messages and restarts: each step of the manager (start, runner,
\* run_channel_turn, shutdown) is one of Conversations or is not seen.
THEOREM ManagerKeepsConversations == Spec => KeepsConversations
<1>1. Init => Promise!Init
  BY DEF Init, Promise!Init, TurnSeen, MessageSeen, AheadSeen, LiveTurn
<1> QED
  BY <1>1, PromiseStep, Invariant, QueuesInvariant, PTL DEF Spec, KeepsConversations, Promise!Spec
=============================================================================
