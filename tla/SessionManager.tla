--------------------------- MODULE SessionManager ---------------------------
(***************************************************************************)
(* The turns of a running server, class SessionManager of                  *)
(* serving/server.py with the HTTP and webhook handlers that call it.      *)
(*                                                                         *)
(* HTTP turns: a request on a known, idle session replaces the session's   *)
(* broker and task and schedules runner(), which publishes the turn's      *)
(* events (their content: AgentTurn; their fan-out: SessionBroker) and in  *)
(* its finally clause closes the broker and releases the bookkeeping.      *)
(* Channel turns: a webhook is acknowledged at once and its turn runs in a *)
(* background task that takes an asyncio.Lock per session_key, runs the    *)
(* agent inside it and delivers the reply outside it.                      *)
(*                                                                         *)
(* A step is what one task does between two suspensions.  The handlers do  *)
(* not suspend between their checks and start(), and the broker's lock is  *)
(* always free, so the finally clause of runner() is one step.             *)
(***************************************************************************)
EXTENDS Naturals, Sequences, FiniteSets

CONSTANTS HttpThreads,    \* thread ids POST /session can mint
          ChannelThreads, \* thread ids channel adapters use as session_key
          Turns,          \* identities of HTTP turns (a broker and a task each)
          Messages,       \* inbound channel messages
          KeyOf,          \* the session_key the adapter parses for a message
          None,           \* Python's None: no turn, no session
          MaxRestarts     \* bound: restarts of the server

ASSUME KeyAssumption == KeyOf \in [Messages -> ChannelThreads]
ASSUME NoneAssumption == None \notin Turns \cup HttpThreads
ASSUME TaskAssumption == Turns \cap Messages = {}
ASSUME RestartAssumption == MaxRestarts \in Nat

VARIABLES
    phase,        \* of the process: serving, stopping, stopped or crashed
    restarts,     \* restarts so far
    sessions,     \* self._sessions
    brokers,      \* self._brokers
    tasks,        \* self._tasks
    turn,         \* state of each runner task
    thread,       \* the session each turn was started on
    checkpointed, \* threads the checkpointer has state for (survives restarts)
    message,      \* state of each channel message and its background task
    locked,       \* per key: the asyncio.Lock of self._locks is held
    waiters,      \* per key: the tasks queued on that lock, oldest first
    cancelled,    \* tasks whose cancellation shutdown() requested
    accepted      \* history: messages in the order their tasks were created

process == <<phase, restarts, cancelled>>
http == <<sessions, brokers, tasks, turn, thread, checkpointed>>
channel == <<message, locked, waiters, accepted>>
vars == <<process, http, channel>>

Phase == {"serving", "stopping", "stopped", "crashed"}
TurnState == {"unused", "scheduled", "running", "ended", "killed", "lost"}
LiveTurn == {"scheduled", "running"}
MessageState == {"new", "spawned", "queued", "running", "replying",
                 "delivered", "undelivered", "silent", "killed", "lost"}
LiveMessage == {"spawned", "queued", "running", "replying"}

Init ==
    /\ phase = "serving"
    /\ restarts = 0
    /\ cancelled = {}
    /\ sessions = {}
    /\ brokers = [h \in HttpThreads |-> None]
    /\ tasks = [h \in HttpThreads |-> None]
    /\ turn = [t \in Turns |-> "unused"]
    /\ thread = [t \in Turns |-> None]
    /\ checkpointed = {}
    /\ message = [m \in Messages |-> "new"]
    /\ locked = [k \in ChannelThreads |-> FALSE]
    /\ waiters = [k \in ChannelThreads |-> <<>>]
    /\ accepted = <<>>

-----------------------------------------------------------------------------
(* HTTP turns *)

\* create(): uuid4 never repeats an id, not even across restarts.
CreateSession(h) ==
    /\ phase = "serving"
    /\ h \notin sessions \cup checkpointed
    /\ sessions' = sessions \cup {h}
    /\ UNCHANGED <<process, brokers, tasks, turn, thread, checkpointed, channel>>

IsActive(h) == tasks[h] # None /\ turn[tasks[h]] \in LiveTurn

\* Mutant of StartTurn: without the check for a turn in progress.
StartTurnAnyway(h, t) ==
    /\ phase = "serving"
    /\ h \in sessions
    /\ turn[t] = "unused"
    /\ brokers' = [brokers EXCEPT ![h] = t]
    /\ tasks' = [tasks EXCEPT ![h] = t]
    /\ turn' = [turn EXCEPT ![t] = "scheduled"]
    /\ thread' = [thread EXCEPT ![t] = h]
    /\ UNCHANGED <<process, sessions, checkpointed, channel>>

\* POST message or resume: an unknown session is answered 404 and an active
\* one 409 without a change of state; otherwise start() installs a fresh
\* broker and schedules its runner, with no suspension in between.
StartTurn(h, t) ==
    /\ phase = "serving"
    /\ h \in sessions
    /\ ~IsActive(h)
    /\ turn[t] = "unused"
    /\ brokers' = [brokers EXCEPT ![h] = t]
    /\ tasks' = [tasks EXCEPT ![h] = t]
    /\ turn' = [turn EXCEPT ![t] = "scheduled"]
    /\ thread' = [thread EXCEPT ![t] = h]
    /\ UNCHANGED <<process, sessions, checkpointed, channel>>

\* The event loop runs the task for the first time: it enters the try block
\* and streams from then on.
RunnerEnters(t) ==
    /\ turn[t] = "scheduled"
    /\ t \notin cancelled
    /\ turn' = [turn EXCEPT ![t] = "running"]
    /\ UNCHANGED <<process, sessions, brokers, tasks, thread, checkpointed, channel>>

\* Mutant of Release: the task table keeps the finished turn.
ReleaseBroker(t) ==
    LET h == thread[t] IN
    IF brokers[h] = t
    THEN brokers' = [brokers EXCEPT ![h] = None] /\ UNCHANGED tasks
    ELSE UNCHANGED <<brokers, tasks>>

\* The end of runner's finally clause: release the bookkeeping unless a newer
\* turn of the session has replaced it.
Release(t) ==
    LET h == thread[t] IN
    IF brokers[h] = t
    THEN /\ brokers' = [brokers EXCEPT ![h] = None]
         /\ tasks' = [tasks EXCEPT ![h] = None]
    ELSE UNCHANGED <<brokers, tasks>>

\* Mutant of RunnerEnds: the stream swallows the cancellation.
RunnerEndsUncancelled(t) ==
    /\ turn[t] = "running"
    /\ t \notin cancelled
    /\ Release(t)
    /\ turn' = [turn EXCEPT ![t] = "ended"]
    /\ checkpointed' \in {checkpointed, checkpointed \cup {thread[t]}}
    /\ UNCHANGED <<process, sessions, thread, channel>>

\* The stream is exhausted, raises, or is torn down by the cancellation: the
\* finally clause closes the broker and releases.  Checkpoints written by the
\* agent run stay, whichever way it ended.
RunnerEnds(t) ==
    /\ turn[t] = "running"
    /\ Release(t)
    /\ turn' = [turn EXCEPT ![t] = "ended"]
    /\ checkpointed' \in {checkpointed, checkpointed \cup {thread[t]}}
    /\ UNCHANGED <<process, sessions, thread, channel>>

\* A task cancelled before its first step never enters its try block: the
\* broker is not closed and the bookkeeping stays.
RunnerKilled(t) ==
    /\ turn[t] = "scheduled"
    /\ t \in cancelled
    /\ turn' = [turn EXCEPT ![t] = "killed"]
    /\ UNCHANGED <<process, sessions, brokers, tasks, thread, checkpointed, channel>>

RunnerStep(t) == RunnerEnters(t) \/ RunnerEnds(t) \/ RunnerKilled(t)

-----------------------------------------------------------------------------
(* Channel turns *)

\* A verified webhook that is neither a handshake nor a retry and parses to a
\* message: spawn the background turn and acknowledge.
AcceptWebhook(m) ==
    /\ phase = "serving"
    /\ message[m] = "new"
    /\ message' = [message EXCEPT ![m] = "spawned"]
    /\ accepted' = Append(accepted, m)
    /\ UNCHANGED <<process, http, locked, waiters>>

\* The event loop starts tasks in the order they were created.
IsNextToEnter(m) ==
    /\ message[m] = "spawned"
    /\ m \notin cancelled
    /\ \A i, j \in DOMAIN accepted :
          i < j /\ accepted[j] = m => message[accepted[i]] # "spawned"

\* Mutant of LockIsFree: a fresh Lock() for every message.
LockPerMessage(k) == TRUE

\* Mutant of LockIsFree: a newcomer may overtake the tasks already waiting.
LockBarging(k) == ~locked[k]

\* asyncio.Lock lets a task in at once only when nobody holds it or waits.
LockIsFree(k) == ~locked[k] /\ waiters[k] = <<>>

\* run_channel_turn up to its first suspension: take the key's lock and start
\* the agent run, or queue for it.
EnterTurn(m) ==
    LET k == KeyOf[m] IN
    /\ IsNextToEnter(m)
    /\ \/ /\ LockIsFree(k)
          /\ locked' = [locked EXCEPT ![k] = TRUE]
          /\ message' = [message EXCEPT ![m] = "running"]
          /\ UNCHANGED waiters
       \/ /\ ~LockIsFree(k)
          /\ waiters' = [waiters EXCEPT ![k] = Append(@, m)]
          /\ message' = [message EXCEPT ![m] = "queued"]
          /\ UNCHANGED locked
    /\ UNCHANGED <<process, http, accepted>>

\* A released lock wakes its first waiter, which takes it when it next runs.
AcquireLock(m) ==
    LET k == KeyOf[m] IN
    /\ message[m] = "queued"
    /\ m \notin cancelled
    /\ ~locked[k]
    /\ waiters[k] # <<>> /\ Head(waiters[k]) = m
    /\ waiters' = [waiters EXCEPT ![k] = Tail(@)]
    /\ locked' = [locked EXCEPT ![k] = TRUE]
    /\ message' = [message EXCEPT ![m] = "running"]
    /\ UNCHANGED <<process, http, accepted>>

\* Mutant of FinishRun: the lock stays held when the run errored.
FinishRunKeepsLock(m) ==
    /\ message[m] = "running"
    /\ m \notin cancelled
    /\ \/ /\ message' = [message EXCEPT ![m] = "silent"]
          /\ UNCHANGED locked
       \/ /\ message' = [message EXCEPT ![m] = "replying"]
          /\ locked' = [locked EXCEPT ![KeyOf[m]] = FALSE]
    /\ UNCHANGED <<process, http, waiters, accepted>>

\* The agent run ends and the lock is released.  A turn that errored, or whose
\* reply is empty (it paused on an interrupt, say), delivers nothing.
FinishRun(m) ==
    /\ message[m] = "running"
    /\ m \notin cancelled
    /\ locked' = [locked EXCEPT ![KeyOf[m]] = FALSE]
    /\ \E outcome \in {"silent", "replying"} :
          message' = [message EXCEPT ![m] = outcome]
    /\ UNCHANGED <<process, http, waiters, accepted>>

\* adapter.deliver, outside the lock; an exception is logged and dropped.
Deliver(m) ==
    /\ message[m] = "replying"
    /\ m \notin cancelled
    /\ \E outcome \in {"delivered", "undelivered"} :
          message' = [message EXCEPT ![m] = outcome]
    /\ UNCHANGED <<process, http, locked, waiters, accepted>>

\* Mutant of LeaveQueue: a cancelled waiter stays in the lock's queue.
StayInQueue(m) ==
    UNCHANGED waiters

\* A waiter whose acquire() is cancelled is removed from where it stands.
LeaveQueue(m) ==
    LET k == KeyOf[m]
        q == waiters[k]
    IN  \E i \in DOMAIN q :
            /\ q[i] = m
            /\ waiters' = [waiters EXCEPT ![k] = SubSeq(q, 1, i - 1) \o SubSeq(q, i + 1, Len(q))]

\* The cancellation is thrown where the task is suspended: a waiter leaves the
\* queue, the holder leaves `async with` and so releases the lock.
MessageKilled(m) ==
    /\ m \in cancelled
    /\ message[m] \in LiveMessage
    /\ \/ message[m] = "queued" /\ LeaveQueue(m) /\ UNCHANGED locked
       \/ /\ message[m] = "running"
          /\ locked' = [locked EXCEPT ![KeyOf[m]] = FALSE]
          /\ UNCHANGED waiters
       \/ message[m] \in {"spawned", "replying"} /\ UNCHANGED <<locked, waiters>>
    /\ message' = [message EXCEPT ![m] = "killed"]
    /\ UNCHANGED <<process, http, accepted>>

MessageStep(m) ==
    \/ EnterTurn(m) \/ AcquireLock(m) \/ FinishRun(m)
    \/ Deliver(m) \/ MessageKilled(m)

-----------------------------------------------------------------------------
(* The process *)

\* list(self._tasks.values()) and list(self._channel_tasks): a task leaves the
\* first with Release and the second when it is done.
HttpTasks == {tasks[h] : h \in HttpThreads} \ {None}
ChannelTasks == {m \in Messages : message[m] \in LiveMessage}

\* Mutant of BeginShutdown: channel turns are not cancelled.
BeginShutdownHttpOnly ==
    /\ phase = "serving"
    /\ phase' = "stopping"
    /\ cancelled' = HttpTasks
    /\ UNCHANGED <<restarts, http, channel>>

\* The lifespan ends: shutdown() cancels every task without suspending.
BeginShutdown ==
    /\ phase = "serving"
    /\ phase' = "stopping"
    /\ cancelled' = HttpTasks \cup ChannelTasks
    /\ UNCHANGED <<restarts, http, channel>>

\* shutdown() has awaited every task it cancelled; build_runtime closes the
\* checkpointer, the store and the sandboxes.
EndShutdown ==
    /\ phase = "stopping"
    /\ \A t \in cancelled \cap Turns : turn[t] \notin LiveTurn
    /\ \A m \in cancelled \cap Messages : message[m] \notin LiveMessage
    /\ phase' = "stopped"
    /\ UNCHANGED <<restarts, cancelled, http, channel>>

\* The process dies: its tasks stop where they are; what a running turn had
\* checkpointed stays.
Crash ==
    /\ phase \in {"serving", "stopping"}
    /\ phase' = "crashed"
    /\ turn' = [t \in Turns |-> IF turn[t] \in LiveTurn THEN "lost" ELSE turn[t]]
    /\ message' = [m \in Messages |->
                      IF message[m] \in LiveMessage THEN "lost" ELSE message[m]]
    /\ \E saved \in SUBSET {thread[t] : t \in {u \in Turns : turn[u] = "running"}} :
          checkpointed' = checkpointed \cup saved
    /\ UNCHANGED <<restarts, cancelled, sessions, brokers, tasks, thread,
                   locked, waiters, accepted>>

\* A new process: the manager starts empty over the same checkpointer.
Restart ==
    /\ phase \in {"stopped", "crashed"}
    /\ restarts < MaxRestarts
    /\ phase' = "serving"
    /\ restarts' = restarts + 1
    /\ cancelled' = {}
    /\ sessions' = {}
    /\ brokers' = [h \in HttpThreads |-> None]
    /\ tasks' = [h \in HttpThreads |-> None]
    /\ locked' = [k \in ChannelThreads |-> FALSE]
    /\ waiters' = [k \in ChannelThreads |-> <<>>]
    /\ UNCHANGED <<turn, thread, checkpointed, message, accepted>>

Next ==
    \/ \E h \in HttpThreads : CreateSession(h)
    \/ \E h \in HttpThreads, t \in Turns : StartTurn(h, t)
    \/ \E t \in Turns : RunnerStep(t)
    \/ \E m \in Messages : AcceptWebhook(m) \/ MessageStep(m)
    \/ BeginShutdown \/ EndShutdown \/ Crash \/ Restart

Spec == Init /\ [][Next]_vars

\* Every task that is ready runs; agent runs and deliveries end (a run is
\* bounded by recursion_limit and its model and tool calls return or raise).
Fairness ==
    /\ \A t \in Turns : WF_vars(RunnerStep(t))
    /\ \A m \in Messages : WF_vars(MessageStep(m))
    /\ WF_vars(EndShutdown)

FairSpec == Spec /\ Fairness

-----------------------------------------------------------------------------
TypeOK ==
    /\ phase \in Phase
    /\ restarts \in 0 .. MaxRestarts
    /\ cancelled \subseteq Turns \cup Messages
    /\ sessions \subseteq HttpThreads
    /\ brokers \in [HttpThreads -> Turns \cup {None}]
    /\ tasks \in [HttpThreads -> Turns \cup {None}]
    /\ turn \in [Turns -> TurnState]
    /\ thread \in [Turns -> HttpThreads \cup {None}]
    /\ checkpointed \subseteq HttpThreads
    /\ message \in [Messages -> MessageState]
    /\ locked \in [ChannelThreads -> BOOLEAN]
    /\ waiters \in [ChannelThreads -> Seq(Messages)]
    /\ accepted \in Seq(Messages)

\* The promise behind the 409: two turns of one session never run at once, so
\* they never write the same thread's checkpoints concurrently.
OneTurnPerSession ==
    \A s, t \in Turns :
        turn[s] \in LiveTurn /\ turn[t] \in LiveTurn /\ thread[s] = thread[t] => s = t

\* The two tables agree at every suspension: a live turn is the one its
\* session's tables name, and outside a shutdown they name nothing else.
BookkeepingIsExact ==
    /\ \A t \in Turns : turn[t] \in LiveTurn => tasks[thread[t]] = t
    /\ \A h \in HttpThreads :
          /\ brokers[h] = tasks[h]
          /\ phase = "serving" /\ tasks[h] # None => turn[tasks[h]] \in LiveTurn

\* Channel turns are serialized per session_key.
ChannelTurnsSerialized ==
    \A m, n \in Messages :
        message[m] = "running" /\ message[n] = "running" /\ KeyOf[m] = KeyOf[n] => m = n

\* The turns of one conversation run in the order its messages were accepted:
\* a turn never starts while an older message of its key still waits.
StartsInOrder ==
    \A m, n \in Messages, i, j \in DOMAIN accepted :
        /\ i < j /\ accepted[i] = m /\ accepted[j] = n /\ KeyOf[m] = KeyOf[n]
        /\ message[n] \in {"running", "replying", "delivered", "undelivered", "silent"}
        => message[m] \notin {"spawned", "queued"}

\* No lock is held by a task that is gone and no queue has a dead waiter, so
\* every queued conversation moves on.
LocksHaveLiveOwners ==
    phase \in {"serving", "stopping"} =>
        \A k \in ChannelThreads :
            /\ locked[k] <=> \E m \in Messages : KeyOf[m] = k /\ message[m] = "running"
            /\ \A i \in DOMAIN waiters[k] : message[waiters[k][i]] = "queued"

\* When the runtime's resources are closed no turn is left to use them.
NoTurnOutlivesRuntime ==
    phase = "stopped" =>
        /\ \A t \in Turns : turn[t] \notin LiveTurn
        /\ ChannelTasks = {}

\* Every turn that was accepted is settled, and while the server serves a settled
\* HTTP turn leaves its session free: no session answers 409 for ever, no message
\* waits for ever.  A runner killed before its first step (RunnerKilled) counts as
\* settled, although the process that stops keeps its entries to the end.
EveryTurnSettles ==
    /\ \A t \in Turns : turn[t] \in LiveTurn ~> turn[t] \notin LiveTurn
    /\ \A m \in Messages : message[m] \in LiveMessage ~> message[m] \notin LiveMessage

\* A shutdown terminates (or the process is killed under it).
ShutdownTerminates == phase = "stopping" ~> phase # "stopping"

\* Docs: sessions survive restarts.
SessionsSurviveRestarts == phase = "serving" => checkpointed \subseteq sessions

-----------------------------------------------------------------------------
(* What those who send work see of it *)

TurnSeen ==
    [t \in Turns |-> CASE turn[t] = "unused" -> "new"
                       [] turn[t] \in LiveTurn -> "live"
                       [] OTHER -> "over"]

\* A run whose reply is still to be delivered has released its conversation.
MessageSeen ==
    [m \in Messages |-> CASE message[m] = "new" -> "new"
                          [] message[m] \in {"spawned", "queued"} -> "waiting"
                          [] message[m] = "running" -> "running"
                          [] OTHER -> "over"]

Before(m, n) == \E i, j \in DOMAIN accepted : i < j /\ accepted[i] = m /\ accepted[j] = n

AheadSeen ==
    {p \in Messages \X Messages :
        /\ KeyOf[p[1]] = KeyOf[p[2]] /\ Before(p[1], p[2])
        /\ MessageSeen[p[1]] = "waiting" /\ MessageSeen[p[2]] = "waiting"}

Promise == INSTANCE Conversations WITH
    up <- phase \in {"serving", "stopping"}, turns <- TurnSeen, session <- thread,
    work <- MessageSeen, ahead <- AheadSeen

\* Tables, locks and queues keep the promise of Conversations: a session runs
\* one turn at a time, a conversation's messages run alone, in order and never
\* twice, and no work survives its process.
KeepsConversations == Promise!Spec
=============================================================================
