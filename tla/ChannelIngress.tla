--------------------------- MODULE ChannelIngress ---------------------------
(***************************************************************************)
(* A chat channel from the provider's event to the posted reply: the       *)
(* webhook of serving/server.py, the adapters of channels/slack.py and     *)
(* channels/discord.py and the background turn of                          *)
(* SessionManager.run_channel_turn.                                        *)
(*                                                                         *)
(* External, the providers: both send an event until one attempt is        *)
(* acknowledged in time (docs/custom-channels.md: answer within three      *)
(* seconds or they re-deliver) and may have several attempts in flight;    *)
(* Slack marks each one after the first as a retry and also sends the      *)
(* events of the bot's own posts.  Requests and answers may be lost or     *)
(* late.                                                                   *)
(*                                                                         *)
(* The webhook does not suspend after it has read the body, so a request   *)
(* is one step.  Turns of one key run one at a time in the order they were *)
(* accepted; SessionManager has the lock that makes it so.                 *)
(***************************************************************************)
EXTENDS Naturals, Sequences, FiniteSets

CONSTANTS
    Messages,   \* what people post (or the provider sends of its own accord)
    SurfaceOf,  \* of each: the adapter it comes through
    Kind,       \* a text, an event without one, the setup challenge
    ChannelOf,  \* where it is posted
    StampOf,    \* its ts, unique in its channel
    RootOf,     \* the ts of the message that began its thread (Slack)
    None,
    MaxAttempts, \* bound: requests the provider makes, over all events
    MaxCrashes   \* bound: crashes of the server

ASSUME KindAssumption == Kind \in [Messages -> {"text", "textless", "setup"}]
ASSUME NoneAssumption == \A m \in Messages : RootOf[m] # None
ASSUME BoundAssumption == MaxAttempts \in Nat /\ MaxCrashes \in Nat

\* An event is a message or, with bot, the bot's own reply to it.
Event == [msg : Messages, bot : BOOLEAN]
\* A request is an attempt to deliver an event, the first with retry 0.
Request == [event : Event, retry : 0 .. MaxAttempts]
Reply(e) == [msg |-> e.msg, bot |-> TRUE]

VARIABLES
    up,       \* the server runs
    crashes,
    attempts, \* requests the provider has made
    sent,     \* of them, per event
    inFlight, \* requests on their way to the webhook
    acked,    \* events the provider has an acknowledgement of
    task,     \* the background turn of each request
    queue,    \* the waiting turns of each key, in the order they came
    memory,   \* checkpointed thread: whose inputs it has taken in, per key
    posts     \* what the bot posted, and where

provider == <<attempts, sent, inFlight, acked>>
turns == <<task, queue, memory, posts>>
vars == <<up, crashes, provider, turns>>

Settled == {"delivered", "undelivered", "silent", "lost"}

-----------------------------------------------------------------------------
(* The adapters *)

OnSlack(m) == SurfaceOf[m] = "slack"

\* The provider leaves thread_ts out of a message that begins a thread.
ThreadTs(m) == IF RootOf[m] = StampOf[m] THEN None ELSE RootOf[m]
Thread(m) == IF ThreadTs(m) # None THEN ThreadTs(m) ELSE StampOf[m]

\* Discord's parse: a session, and one place for its answers, per channel.
DiscordChannel(m) == <<"discord", ChannelOf[m]>>

\* Mutant of SessionKey: one session per thread stamp, whatever the channel.
SessionKeyByStamp(m) ==
    IF OnSlack(m) THEN <<"slack", None, Thread(m)>> ELSE DiscordChannel(m)

\* Mutant of SessionKey: a session per channel on every surface, unprefixed.
SessionKeyByChannel(m) == <<ChannelOf[m]>>

\* parse: session_key, and with it the channel and thread the reply goes to.
SessionKey(m) ==
    IF OnSlack(m) THEN <<"slack", ChannelOf[m], Thread(m)>> ELSE DiscordChannel(m)

\* Mutant of Target: answers in a thread only where there already was one.
TargetAsPosted(m) ==
    IF OnSlack(m) THEN <<"slack", ChannelOf[m], ThreadTs(m)>> ELSE DiscordChannel(m)

Target(m) ==
    IF OnSlack(m) THEN <<"slack", ChannelOf[m], Thread(m)>> ELSE DiscordChannel(m)

\* parse returns a message, not None: no post of the bot's, no event of another
\* type or without text.
IsMessage(e) == ~e.bot /\ Kind[e.msg] = "text"

\* Mutant of IsRetry: the default of ChannelAdapter.
IsRetryNever(r) == FALSE

\* Discord inherits the default: each of its attempts is a new message.
IsRetry(r) == OnSlack(r.event.msg) /\ r.retry > 0

Keys == {SessionKey(m) : m \in Messages}

Init ==
    /\ up = TRUE
    /\ crashes = 0
    /\ attempts = 0
    /\ sent = [e \in Event |-> 0]
    /\ inFlight = {}
    /\ acked = {}
    /\ task = [r \in Request |-> "none"]
    /\ queue = [k \in Keys |-> <<>>]
    /\ memory = [k \in Keys |-> <<>>]
    /\ posts = {}

-----------------------------------------------------------------------------
(* The provider and the network *)

\* A message can be posted at any time, the bot's post on Slack once it is made.
Exists(e) ==
    e.bot => OnSlack(e.msg) /\ \E p \in posts : Reply(p.answers.event) = e

Send(e) ==
    /\ Exists(e)
    /\ e \notin acked
    /\ attempts < MaxAttempts
    /\ attempts' = attempts + 1
    /\ inFlight' = inFlight \cup {[event |-> e, retry |-> sent[e]]}
    /\ sent' = [sent EXCEPT ![e] = @ + 1]
    /\ UNCHANGED <<up, crashes, acked, turns>>

\* The request is lost, finds the server down or is answered with an error.
Lose(r) ==
    /\ inFlight' = inFlight \ {r}
    /\ UNCHANGED <<up, crashes, attempts, sent, acked, turns>>

\* {"ok": true}, or the handshake; the answer may be lost or too late.
Acknowledge(r) ==
    /\ inFlight' = inFlight \ {r}
    /\ acked' \in {acked, acked \cup {r.event}}
    /\ UNCHANGED <<attempts, sent>>

-----------------------------------------------------------------------------
(* The webhook, in the order of its checks *)

\* 401: the request took longer than Slack's replay window, or its signature
\* does not verify;  503: Discord's optional dependency is not installed.
Reject(r) ==
    /\ up
    /\ inFlight' = inFlight \ {r}
    /\ UNCHANGED <<up, crashes, attempts, sent, acked, turns>>

Handshake(r) ==
    /\ up
    /\ Kind[r.event.msg] = "setup" /\ ~r.event.bot
    /\ Acknowledge(r)
    /\ UNCHANGED <<up, crashes, turns>>

SkipRetry(r) ==
    /\ up
    /\ Kind[r.event.msg] # "setup"
    /\ IsRetry(r)
    /\ Acknowledge(r)
    /\ UNCHANGED <<up, crashes, turns>>

Ignore(r) ==
    /\ up
    /\ Kind[r.event.msg] # "setup"
    /\ ~IsRetry(r)
    /\ ~IsMessage(r.event)
    /\ Acknowledge(r)
    /\ UNCHANGED <<up, crashes, turns>>

\* spawn_channel_turn, then the acknowledgement.
Accept(r) ==
    /\ up
    /\ ~IsRetry(r)
    /\ IsMessage(r.event)
    /\ task' = [task EXCEPT ![r] = "waiting"]
    /\ queue' = [queue EXCEPT ![SessionKey(r.event.msg)] = Append(@, r)]
    /\ Acknowledge(r)
    /\ UNCHANGED <<up, crashes, memory, posts>>

-----------------------------------------------------------------------------
(* The background turn *)

Running(k) == {r \in Request : SessionKey(r.event.msg) = k /\ task[r] = "running"}

\* The run's input is the first thing the thread's checkpoint takes in.
BeginTurn(r) ==
    /\ up
    /\ task[r] = "waiting"
    /\ Running(SessionKey(r.event.msg)) = {}
    /\ queue[SessionKey(r.event.msg)] # <<>>
    /\ r = Head(queue[SessionKey(r.event.msg)])
    /\ queue' = [queue EXCEPT ![SessionKey(r.event.msg)] = Tail(@)]
    /\ task' = [task EXCEPT ![r] = "running"]
    /\ memory' = [memory EXCEPT ![SessionKey(r.event.msg)] = Append(@, r)]
    /\ UNCHANGED <<up, crashes, provider, posts>>

\* The lock is released; an errored turn and an empty reply are not delivered.
EndRun(r) ==
    /\ up
    /\ task[r] = "running"
    /\ \E s \in {"replying", "silent"} : task' = [task EXCEPT ![r] = s]
    /\ UNCHANGED <<up, crashes, provider, queue, memory, posts>>

Post(r) == posts' = posts \cup {[answers |-> r, at |-> Target(r.event.msg)]}

\* One attempt: without a token nothing is posted, and an exception, after or
\* before the post took effect, is logged and forgotten.
Deliver(r) ==
    /\ up
    /\ task[r] = "replying"
    /\ \/ task' = [task EXCEPT ![r] = "delivered"] /\ Post(r)
       \/ task' = [task EXCEPT ![r] = "undelivered"] /\ (Post(r) \/ UNCHANGED posts)
    /\ UNCHANGED <<up, crashes, provider, queue, memory>>

\* Background turns live in memory only; the threads' checkpoints survive.
Crash ==
    /\ up
    /\ crashes < MaxCrashes
    /\ up' = FALSE
    /\ crashes' = crashes + 1
    /\ task' = [r \in Request |-> IF task[r] \in {"waiting", "running", "replying"}
                                  THEN "lost" ELSE task[r]]
    /\ queue' = [k \in Keys |-> <<>>]
    /\ UNCHANGED <<provider, memory, posts>>

Restart ==
    /\ ~up
    /\ up' = TRUE
    /\ UNCHANGED <<crashes, provider, turns>>

Handle(r) ==
    Reject(r) \/ Handshake(r) \/ SkipRetry(r) \/ Ignore(r) \/ Accept(r)

Next ==
    \/ \E e \in Event : Send(e)
    \/ \E r \in inFlight : Lose(r) \/ Handle(r)
    \/ \E r \in Request : BeginTurn(r) \/ EndRun(r) \/ Deliver(r)
    \/ Crash \/ Restart

Spec == Init /\ [][Next]_vars

-----------------------------------------------------------------------------
TypeOK ==
    /\ up \in BOOLEAN
    /\ crashes \in 0 .. MaxCrashes
    /\ attempts \in 0 .. MaxAttempts
    /\ sent \in [Event -> 0 .. MaxAttempts]
    /\ inFlight \subseteq Request
    /\ acked \subseteq Event
    /\ task \in [Request -> {"none", "waiting", "running", "replying"} \cup Settled]
    /\ queue \in [Keys -> Seq(Request)]
    /\ memory \in [Keys -> Seq(Request)]
    /\ posts \subseteq [answers : Request, at : Keys]

\* A thread of Slack, a channel of Discord.
Conversation(m) ==
    IF OnSlack(m) THEN <<"slack", ChannelOf[m], RootOf[m]>> ELSE <<"discord", ChannelOf[m]>>

\* The events of E are in the memory of a session once at most.
TakenOnce(E) ==
    \A k \in Keys : \A i, j \in DOMAIN memory[k] :
        memory[k][i].event = memory[k][j].event /\ memory[k][i].event \in E => i = j

\* A message of Slack enters the agent's memory at most once, however often it
\* is sent, in whatever order its attempts arrive and whether or not the server
\* crashed in between (SlackAdapter.is_retry: no duplicate runs).
SlackRunsAtMostOnce == TakenOnce({e \in Event : OnSlack(e.msg)})

\* The same of every surface, as docs/custom-channels.md has it of Slack and
\* Discord: both re-deliver, and is_retry prevents a second run.
NoDuplicateRuns == TakenOnce(Event)

\* A session's memory is one conversation of one surface: only messages of one
\* thread or channel, all of its messages that ran, and nothing the bot said
\* (parse of both adapters).
MemoryIsOneConversation ==
    \A k, l \in Keys : \A i \in DOMAIN memory[k] : \A j \in DOMAIN memory[l] :
        /\ ~memory[k][i].event.bot
        /\ k = l <=> Conversation(memory[k][i].event.msg) = Conversation(memory[l][j].event.msg)

\* Every post answers a message a turn has run for, in the thread it was
\* posted in, so that an answer to it continues the same session.
PostsContinueConversation ==
    \A p \in posts :
        /\ task[p.answers] \in {"delivered", "undelivered"}
        /\ p.at = Conversation(p.answers.event.msg)

\* Docstring of ChannelAdapter.is_retry: a retry is the re-delivery of an event
\* that was already handled, so a message the provider will not send again, and
\* of which no attempt is under way, has had its turn.
RetriesWereHandled ==
    \A e \in acked :
        IsMessage(e) /\ (\A r \in inFlight : r.event # e)
            => \E r \in Request : r.event = e /\ task[r] # "none"

-----------------------------------------------------------------------------
(* What those who post messages see of it: conversations without sessions.   *)
(* A re-delivery that is accepted is to them one more message.               *)

NoTurns == [t \in {} |-> None]

WorkSeen ==
    [r \in Request |-> CASE task[r] = "none" -> "new"
                         [] task[r] \in {"waiting", "running"} -> task[r]
                         [] OTHER -> "over"]

InLine(q, r) ==
    LET line == queue[SessionKey(r.event.msg)]
    IN  \E i, j \in DOMAIN line : i < j /\ line[i] = q /\ line[j] = r

AheadSeen == {p \in Request \X Request : InLine(p[1], p[2])}

Promise == INSTANCE Conversations WITH
    HttpThreads <- {}, Turns <- {}, Messages <- Request,
    KeyOf <- [r \in Request |-> SessionKey(r.event.msg)],
    turns <- NoTurns, session <- NoTurns, work <- WorkSeen, ahead <- AheadSeen

\* The requests a conversation has accepted run alone, in that order, each once
\* at most and none again after a crash: what SessionManager keeps with its
\* tasks and locks is all this needs of it.
KeepsConversations == Promise!Spec
=============================================================================
