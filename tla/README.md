# Leve: a verification project

TLA+ models of Leve, a framework that turns a directory of files into a served LangGraph agent,
with the TLC configurations that check them and TLAPS proofs of what matters most.
Paths below are relative to `src/src/leve/`; line numbers of every definition are in `PROJECT.json` ("map").

## 1. The system

A process serves one compiled agent.  HTTP clients, the terminal, chat channels and schedules start *turns*
on *threads*; a turn runs the agent graph until it answers, pauses on an interrupt or fails, and
streams events to whoever watches.  Everything runs on one asyncio event loop.

```
 HTTP / SSE ──► routes ──► SessionManager.start ──► runner task ──► AgentRuntime._stream ──► LangGraph
     ▲                                                  │ publish         (EventNormalizer)      │
     └────────────── SessionBroker.subscribe ◄──────────┘                                        ├─ PrincipalMiddleware
 Slack / Discord ─► webhook ─► spawn_channel_turn ─► run_channel_turn ─► runtime.run             │   └─ ApprovalMiddleware ─► tool
                                        adapter.deliver ◄── extract_reply ◄── events             ├─ delegate ─► subagent graph
 schedules ─► run_schedule ─► ScheduleContext.receive ─► runtime.run                             └─ run_shell ─► Sandbox.run
```

### Inventory

| Component | State | Operations | What is hard | What makes it correct |
|---|---|---|---|---|
| **SessionBroker** (`serving/server.py`) | event buffer, closed flag, condition; per subscriber a cursor and a batch | publish, close, subscribe, disconnect | subscribers attach, wait, batch and leave between any two publishes; a close between batch and test | each watcher gets the whole transcript once, in order, and is released |
| **SessionManager** (`serving/server.py`) | known sessions, broker and task per session, background tasks, a lock per conversation | create, message, resume, webhook, shutdown; crash and restart around it | check-then-start, an old turn releasing a new one's entries, FIFO locks under cancellation, shutdown with work queued | one turn per session, one per conversation, in order; every accepted turn settles; none outlives the runtime |
| **AgentRuntime._stream / EventNormalizer** (`serving/session.py`, `events.py`) | locals of the generator, set of runs that streamed | run, resume, normalize, pending interrupts | parallel subagents interleave on one stream; failure and pause in parallel branches; failure of the lookup itself | text exactly once; `turn.end` tells the truth |
| **Turn consumers** (`extract_reply`, `serving/tui.py`, `evals/`) | reply under construction; open line of the terminal; the events an eval has captured | fold over the events, assert on them | streaming and non-streaming runs mixed in a turn; turns that pause, fail or lack their last event | a reply is the whole last message or, without one, all that was streamed; nothing is printed twice; an eval passes only for what happened |
| **Approval and consent** (`core/middleware.py`, `resume`) | LangGraph's checkpoint: paused tasks, their stored answers | gate, consent pause, resume (bare value or id map), re-execution | answers are replayed by position; turns abort between pauses; several interrupts pending; late or partial answers | nothing gated runs unapproved; a refusal has a cause |
| **Channel ingress** (`channels/*.py`, webhook of `server.py`) | none of its own; background turns in memory, threads in the checkpointer | verify, handshake, skip retry, ignore, accept, run, deliver; two adapters | one table of sessions for two surfaces, retries that overtake or outlive the first attempt, own posts coming back, the first message of a thread, crashes after the acknowledgement | at most one run per message (of Slack; section 5 for Discord); a session is one conversation; replies land in it |
| **Sandbox** (`sandbox/*.py`) | the machine of the microsandbox adapter, the working directory of the other | run, write_file, read_file, close | concurrent first use, timeouts against late ends, awaits without a timeout, cancellation, missing exit codes | no call is held up by its command or by another call; no machine survives close; failure is never reported as success |
| **Identity and credentials** (`security/*.py`) | a context variable per task, the OAuth token store | narrow, with_broker, set/reset, inject, resolve, put | concurrent tool calls of different callers, delegation chains, equal subjects of different tenants | delegation never widens; a tool acts for, and spends the credentials of, the caller of its turn |
| **Schedules** (`schedules.py`) | none | receive, run_schedule | errored and empty turns are delivered; a principal passed explicitly has no broker | a fresh thread and an app identity per run |
| **Subagents** (`core/subagents.py`) | a child thread per delegation | delegate | parallel and nested delegations; a child that pauses; re-execution with the parent | inherits the caller; has a thread of its own; reports a pause honestly |
| **Graph assembly, tools** (`core/*.py`, `tools/`) | none after construction | build | agents of one name at different places of the tree, tool-name collisions | the gate is inside the principal binding; each agent has its own tools |
| **Configuration** (`config.py`) | the process environment | load | four sources; `.env` writes into the environment that later projects read | what is exported wins |
| **Loader** (`loader/`) | `sys.modules`, the roots of the mounted projects | mount, purge, import, collect, refuse duplicates | reloads, edits during a load, several projects in one process, imports that fail half-way | a load is fresh, coherent and apart from other projects |
| **Connections** (`connections/`) | none | resolve headers per call, discover tools | headers baked at build for MCP; generated names that repeat or end in a suffix | credentials of the caller; distinct names |
| **Persistence, runtime assembly** (`persistence.py`, `serving/app.py`) | the exit stack | open, set up, discover, compile, serve, unwind | failure or cancellation at each step, failing callbacks, the order of closing | nothing stays open; users close before what they use |
| **Development server, CLI** (`serving/cli.py`, `tui.py`, `create_app`'s lifespan) | the server thread, its `started` and `should_exit`; the lifespan; open responses and requests | start, wait, chat, quit, ^C, stop | a server that dies or stalls while starting; responses that outlast the stop; deadlines and ^C that cut it short | the command ends; the runtime closes after everybody who uses it |
| **Scaffolding, development log** (`scaffold.py`, `devlog.py`) | files | copy, configure, open panes | | |
| **Evals** (`evals/`) | none | run each on a runtime of its own, judge its turns | a verdict that passes for the wrong reason opens the deploy gate | see turn consumers and runtime assembly |
| **Platform authentication, deployment, tracing** (`security/platform_auth.py`, `deploy.py`, `platform.py`, `tracing.py`, `testing.py`) | none | check a token, write files | | |

How they interact: the manager calls the runtime and owns the brokers; the runtime drives the graph, whose tool
calls pass the middlewares and may call the sandbox, a connection or a subagent; channels and schedules call the
manager or the runtime and reduce the turn's events with `extract_reply`.  `leve dev` runs the server in a thread beside the
terminal, which is one more HTTP client; the server's stop waits for responses, whose turns only its lifespan cancels.  All shared state is either local to the
event loop (manager, broker, sandbox) or in the checkpointer, addressed by thread id.

## 2. Modules

| Module | Models | Composed with |
|---|---|---|
| `EventLog` | abstract: an append-only, sealed log with readers | refined by `SessionBroker` |
| `SessionBroker` | class SessionBroker | stands for the fan-out of every HTTP turn of `SessionManager` |
| `DevServer` | `leve dev`: main thread, terminal, server thread, lifespan, one turn and its watchers | extends `SessionBroker`, whose actions are conjuncts of its own; every run of `DevServer` is one of `SessionBroker` (`DevServerUsesBroker`) |
| `Conversations` | abstract: a session takes one turn at a time, a conversation's messages run one at a time and in order | refined by `SessionManager` and `ChannelIngress` |
| `SessionManager` | class SessionManager, the routes and webhooks that call it, shutdown, crash, restart | abstracts the content of a turn (`AgentTurn`) and its fan-out (`SessionBroker`) |
| `AgentTurn` | AgentRuntime._stream with EventNormalizer over LangGraph's event stream | extended by `TurnConsumers` |
| `TurnConsumers` | extract_reply, LeveTUI._render, the assertions of EvalContext, run_eval | extends `AgentTurn` |
| `Approval` | the two middlewares, the resume command, LangGraph's interrupts on one thread | relies on one turn per thread (`SessionManager`) |
| `ChannelIngress` | providers, webhook, Slack and Discord adapters, background turn, delivery | refines the same `Conversations` as `SessionManager` does |
| `SandboxContract` | abstract: what `Sandbox.run` promises | refined by `Sandbox` |
| `Sandbox` | both adapters, timeouts, cancellation, close | relies on `NoTurnOutlivesRuntime` of `SessionManager` |
| `Identity` | principals and credentials of turns, tool calls and delegations | gives `Approval` its tokens, abstracted there to one that is granted or not |
| `Loader` | load_config, mount_project, import_path, collect_instances, the duplicate checks | extended by `Assembly` |
| `Assembly` | build_runtime, inspect_project, run_evals' runtimes, the tools of every agent | extends `Loader`; its turns are those of `SessionManager`, its sandboxes those of `Sandbox` |
| `MC*` | instances for TLC | |
| `*Proofs` | TLAPS proofs of the module of that name | extend it |

**Granularity.**  A step is what one task does between two suspensions of the event loop.  This is justified module
by module: the condition's lock of SessionBroker is free whenever a task runs, because it is never held across
another suspension; the routes do not suspend between their checks and `start`; a webhook does not
suspend after it has read the body; each action of `Sandbox` is one stretch between awaits; a load never suspends, so that in `Loader` only
other processes, which edit files, act between its imports (`Quiet`).

**External code**, modelled from how Leve uses it and marked `external` in the map: asyncio (tasks start in the
order of creation, locks are first come first served, a task cancelled before its first step never runs its body),
LangGraph (events of model and tool runs, `interrupt()` answers by position, checkpoints), the
delivery of Slack and Discord (again and again until one attempt is acknowledged in time; only Slack marks the later ones), uvicorn (when it calls the lifespan and what its
stop waits for), the microsandbox SDK (a machine that is not started
refuses commands, stopping it ends them; starting it and reading an output may take for ever), processes (`kill` ends the shell, not what it started, and
asyncio's `wait()` need not return while that holds the pipes), Python's importer (an entry of `sys.modules` or an execution of the file) and
`AsyncExitStack` (every callback, last first).  A close that raises, `stop()` of a machine included, is taken to have let go of its resource.

### SessionBroker
`events`, `closed` are the fields, `idx`, `batch`, `done` the locals of each generator, `pc` where it is suspended.
`Publish`, `Close`, `Park`, `TakeBatch`, `Yield`, `EndBatch`, `Disconnect` follow the code line by line; `received`
records what the response was given.  The refinement to `EventLog` forgets batches, parking and waking.

### DevServer
`main` is where the main thread stands, `server` where `server.run` stands in whichever thread, `started` and `should_exit` are the
flags they share, polled or set without a lock; `mode` tells the terminal in front of a daemon thread from the server in the
foreground.  The turn's broker and its responses are those of `SessionBroker`: `SendTurn` and `Watch` are
its `Subscribe`, the runner's `Emit` and `EndTurn` its `Publish` and `Close`, and a connection that ends with its process is a
`Disconnect`.  The terminal is the subscriber `Terminal` while its message is open.  `Exit` ends the process, and with it a
daemon thread at whatever point it is.  `hurried` remembers that a deadline or a ^C cut a wait short, which is the one excuse
for leaving a running server behind.  The broker has one turn, so a chat is followed to the end of its first one.

### SessionManager
`sessions`, `brokers`, `tasks`, `locked`, `waiters` are the tables; `turn` and `message` are the states of the tasks.
A runner has three ends: its stream is over or cancelled (`RunnerEnds`, with the `finally` clause), it was cancelled
before its first step (`RunnerKilled`, which leaves the bookkeeping), or the process died.  A channel turn enters,
queues or takes the lock, runs inside it, delivers outside it.  `BeginShutdown` takes the list of tasks and cancels it
in one step; `EndShutdown` waits for all of them.  The refinement to `Conversations` maps a task to what a client could tell of it
(`TurnSeen`, `MessageSeen`, and `AheadSeen`, who waits behind whom): a message is over when its run is, whatever becomes of its reply, and what a process was doing
is over when it has stopped.  Tables, queues, locks and cancellations are forgotten.

### AgentTurn and TurnConsumers
`pc` is the place in `_stream`; the graph may interleave any number of model runs and tool calls, end, pause on any set of
interrupts or raise at any event.  Text is a sequence of pieces `<<run, i>>`, so a lost, repeated or misplaced piece
shows.  `GraphFails` skips the lookup of the interrupts, `CheckFails` and `ResumeLookupFails` are exceptions outside the
`try` block.  `TurnConsumers` adds the two folds over the events
and, for every set of assertions, whether an eval that sends this message passes.

### Approval
`call` is where each tool call stands (`open` before its gate, `calling` in its handler), `saved` the answers LangGraph
stored with a paused task, `given` those it has in this run, `bare` a resume value not yet taken.  A resume builds its
command exactly as `_build_resume_command` does.  `verdict` remembers what the human last decided about each
call; the properties compare what ran with it.

### ChannelIngress
The provider sends events until acknowledged; requests are reordered, lost, late, and answered or not.  The webhook is one
action per return statement.  `memory` is the checkpointed thread, which survives the crash that loses the queue.
`SessionKey` and `Target` are the conversions of the adapters' `parse`: Slack's with the missing `thread_ts` of a first message,
Discord's by channel.  Discord's attempts carry no mark of a retry, each is a new message, and it sends
no events of the bot's; its ping is answered like Slack's challenge.  Background turns and what comes of them are kept per request (event and attempt).
What `SessionManager` shows in detail (the lock, cancellation) is here a queue per key.  Both implement `Conversations`, so the
queue promises no more than the tasks and the lock keep.

### Sandbox
One configuration has one adapter.  `Ensure` stores the machine before it has started, as the code does; a call that finds
it starting is `Refused` by the SDK.  In the microVM only `command.run` is timed (`VmTimeout`), the reads of its output come after it (`reading`, `Read`).
A subprocess that times out is killed and reaped (`KillTimeout`, `Reaped`); only the shell is, and `held` says that it left something behind.  `Cancel` stops a call at any await and leaves its command alone.  `Close` comes when
the runtime's exit stack unwinds, after every turn has settled.

### Identity
A run is a turn's or that of the subagent a call delegates to.  `context` is the principal of each run, `variable` the value of
the context variable in each call's task (a task starts with a copy of its creator's), `held` the principal in the hands of
a tool's code, `used` the credential it has spent, with its true owner.  `Enter` and `Leave` are the two ends of
`PrincipalMiddleware.awrap_tool_call`.  Claims are maps to lists or scalars, as `narrow` distinguishes them.

### Loader and Assembly
`modules` is `sys.modules` below the mounted roots, one record per executed file with the version it was executed at; `disk` is
what other processes make of the files meanwhile.  A load goes file by file (`Import`, `ImportFails`), collects specs the way
`collect_instances` does, imported names included, and is given up on a clash.  `Assembly` goes on with `build_runtime`: each `await` that
may fail is an action with a failing twin, `stack` is the exit stack, `extra` the mapping keyed by node, `graph` what
each agent was compiled with.  A project is served (two loads: `create_app`'s surfaces and the runtime), evaluated (one
runtime after the other) or built (no runtime).

## 3. What is checked

| Run | Instance | Shows |
|---|---|---|
| `broker` | `DevServer`: both modes, the terminal and a second watcher, a turn of 3 events, a scheduled run, liveness | fan-out exact, everyone released, `EventLog` implemented; the runtime closes after the turn, the scheduled run and the responses; the start, the stop and the unwinding end |
| `manager` | 1 session, 2 HTTP turns, 1 conversation of 3 messages, 1 restart, liveness | `Conversations` implemented: one turn per session and conversation; order, exact tables, no dead lock owner, every turn settles, shutdown ends, nothing outlives the runtime |
| `turn` | 2 model runs of 2 pieces, 1 tool call, 2 interrupts | text once, truthful end, replies are the whole last message or all that was streamed, nothing printed twice, verdicts of evals are earned |
| `approval` | 3 calls, 4 turns | gate holds, refusals have a cause |
| `channel` | 3 messages in 2 threads of Slack, a command and a ping of Discord, 3 requests, 1 crash | at most one run per Slack message, one conversation per session, replies in their thread |
| `sandbox` | 3 calls, 2 machines, both adapters, liveness | no machine survives close, timed-out shells are dead, a call returns unless it is itself stuck in an await without a timeout, the contract is kept |
| `identity` | 2 turns, 3 calls, callers of 2 tenants with one subject, a caller without principal, an app, 3 configurations | every call acts for the caller of its turn, claims never widen, credentials are the caller's, delegations have their own thread and report pauses |
| `project` | 2 projects in one process, 4 files and a library with one edit each, a tree of 3 agents, 5 operations of one API | loads fresh, coherent and apart; the environment wins; nothing leaks, turns and sandboxes never outlive the backends; each agent its own, distinctly named tools |
| `manager_restart`, `approval_map`, `channel_retries`, `channel_discord` | | the divergences of section 5 |

**Bounds and why they are enough.**  Two watchers are as many as the properties compare, and one of them is the terminal; three
events, the third like the first, exceed the batch a watcher can hold between two suspensions and tell a repeated event from a new one.
One scheduled run and one turn are as many as the stop has kinds of work to wait for.  Three messages on one key give a holder, a waiter and one that may
overtake it; two turns give an old and a new one on one session; one restart follows a crash or a
clean stop.  Turn and message identities are interchangeable, so the run takes them in a fixed order (`NamesInOrder`).  Two runs of two pieces interleave at every place.  Of the three calls of `approval`, one is gated, one is gated by
a predicate that raises and needs a token, so it pauses twice, and one is malformed; four turns cover message, approval, consent and a further
resume.  Three requests are a message, its re-delivery and another in any order; the identifiers of the two surfaces
are equal, so only the prefix of the key keeps them apart.  Three calls and two
machines let a start fail, a second call meet it and a third follow.  Two turns and three calls make two callers at once with a
delegation of two levels, or a delegation beside a plain call.  The projects of `project` are mounted as the first and, because
`Elsewhere` lets eight others come in between, as the tenth, so that one root is a prefix of the other; an edit breaks a file, gives it a neighbour's
name or changes a library; the five operations repeat a name and use the suffixes that deduplication adds.  Where a proof exists (section 4) the bound does not matter.

**Types.**  Every component has its `TypeOK`, and a theorem that it holds in every instance (`TypeCorrect`, in `StopsInOrder` for
`DevServer`); the runs do not repeat what is proved.  Nor does `manager` check `OneTurnPerSession`, which the table of tasks
gives at once: the step that would break it is no step of `Conversations`, and `SessionsRunOneTurn` proves it.

**Every property has a mutant**: a plausible bug of the code (a dropped guard, a forgotten notify, the wrong key) defined
beside the operator it changes, under which the property fails in the same run.

**Fairness.**  DevServer: weak fairness of both threads, of the two deadlines (clocks advance), of a cancelled turn (a cancelled task
unwinds), of every response that is iterated (the event loop resumes what is ready) and of the end of an ended process's connections;
none of turns and scheduled runs, which may take for ever, and none of people, so `ClosedReleasesEveryone` does not assume that turns end
and `ProcessEnds` does not assume that anybody quits.  SessionManager: weak fairness of each task and of the awaiting
shutdown; that agent runs end rests on LangGraph's recursion limit and on model and tool calls that return or
raise.  Sandbox: the event loop and its timers run, the SDK refuses at once, and a killed process that left nothing behind is
reaped; commands may run for ever, and so may what the code awaits without a timeout: `start()`, the reads of an execution's output, `proc.wait()` while the pipes are held.  No other
run uses fairness.

`CHECK_DEADLOCK` is off where the system may stop for good: a turn is over, the bound of turns, requests or restarts
is reached, the sandbox is closed.

## 4. What is proved

All theorems hold for every value of the constants, under the named assumptions of the modules (bounds are
naturals, `None` is no ordinary value, identities are disjoint, `KeyOf` is a function to keys, the connections of a node have
different names, which the loader sees to).

* **SessionBrokerProofs.**  `WatchersGetTheTurn`: `NothingMissedOrRepeated` from the invariant that received ∘ batch is the buffer up
  to the cursor, which no step but `TakeBatch` extends; `ResponsesEndComplete` adds what `done` means at the time it is
  used: closed was set when the batch was taken, so nothing can follow it; `ParkedHasNothingToRead` because every publish
  and close moves the parked; `ImplementsLogSafety`: each step is a step of `EventLog` or a stutter.  `DevServerUsesBroker`: each step of
  `DevServer` is a step of the broker or leaves it alone, so `DevWatchersGetTheTurn` needs no new invariant, and `DevServerKeepsLog` composes
  the two refinements: what `leve dev` shows its watchers is the abstract log.  `StopsInOrder` from `StageInv`: before the
  server serves there is no work, while it serves and drains nothing is cancelled, and from the unwinding on neither the turn
  nor a scheduled run goes on; `CloseRuntime` then needs only its own guards.
* **SessionManagerProofs.**  The inductive invariant says that live turns are the ones the tables name, that every live task of a stopping process is
  cancelled, that locks are held by running messages and that queues hold queued ones.  From it:
  `SessionsRunOneTurn`, `TablesAreExact`, `ConversationsSerialized`, `NothingOutlivesRuntime`, `LocksAreOwned`.  `TurnsKeepTheirOrder` from `OrderInv` (nothing older than a
  message that has run at all is still without its first step, nothing older of its key than one that has begun still waits) and `QueueInv` (a queued message stands
  in its key's queue, in the order of acceptance); `LocksAreOwned` from `HolderInv` beside it.  `ManagerKeepsConversations`: every step is a step of
  `Conversations` or a stutter.  A lock that is handed over is a `Run` because of `TableInv` (nobody else runs) and `OrderInv` and `QueueInv` (the head of the queue is
  the oldest that waits); the end of a process is a `Stop` because nothing it was doing is left.
* **AgentTurnProofs.**  `TextReachesConsumerOnce` for any number of runs: a run that has streamed is in
  `streamedRuns`, one that has not has said nothing yet.  `TurnsEndTruthfully` from
  `EndInv`: at each place of `_stream` the approvals in `out` are the first `asked` interrupts of the list, errors are there exactly when the turn errored, and `turn.end`
  exactly when it ended.  The consumers fold over the events, and nothing says in TLA+ that a fold has a value: `Solvable` shows by the least
  counterexample that the equation which defines `FoldLeft` on a sequence has a solution, `SolutionsAgree` that it has one only, and
  `OneMore` that one event more is one step more of the consumer.  `ConsumerInv` then ties what the consumers have
  read to what the runs have said: a piece that was read or shown has been said, by a run that streams or is over, and once; if at most one run
  streamed, the deltas are all it has said; the full message that is kept is that of the last run that did not stream, and the deltas are all the others have said
  (`WholeInv`).  From it `RepliesAreWholeTexts`, `ScreenRepeatsNothing`, and with `EndInv` `EvalsCertifyWhatHappened`.
* **ApprovalProofs.**  `GatedCallsAreApproved`: an answer that would open the gate of an undecided call is an approval the human
  last gave about it; stored answers exist exactly past the gate; a call the model has not made has none.  `RefusalsAreExplained`: an answer that
  would close it is a refusal of that call, or came in a map that left a pending call out, and stored answers begin with an approval.
* **ChannelIngressProofs.**  A request is an event and the number of its attempt, each made once (`RequestsAreNew`), so a turn's place in queue and memory is
  unique; `NoSlackMessageRunsTwice` because of Slack's attempts only the first is accepted; `SessionsAreConversations` and `RepliesContinueTheThread` from `SessionKey = Conversation = Target`.  `ChannelKeepsConversations`, the refinement, from `LineInv`:
  the queue of a key holds exactly its waiting requests, each once, so its head is the one nobody is ahead of.  It is about accepted requests: a Discord message
  delivered twice is two of them, and nothing is claimed that tells them apart.
* **IdentityProofs.**  The inductive invariant follows a call to its turn through any number of delegations: a parent call is
  still delegating or over, its run's context is that of the turn, the variable inside the middleware is that context.
  `CallsActForTheirCaller`, `DelegationOnlyNarrows` (one `narrow` shrinks, shrinking is transitive),
  `CredentialsStayWithCallers` (a stored token has the owner its key names), `DelegationsHaveTheirThread`, `PausesReachTheParent` (a
  delegation that answered is over and so is every call of its run, for good).
* **AssemblyProofs.**  `LoaderInv`: roots of projects differ, a root and a file name at most one module, modules under an active
  project's root are no older than its load.  From it `ReloadsAreFresh`, `OneLibraryPerLoad`, `ProjectsAreApart`;
  `TheEnvironmentWins` from `EnvInv`.  `RuntimeInv`: the stack is the checkpointer, the store, then sandboxes, and
  what is open is what is on it, but for a backend between its connection and its set-up.  From it
  `RuntimesCloseEverything` and `BackendsOutliveTheirUsers` (a turn runs only while serving or draining, when the stack is complete, with sandboxes or without); `ToolsReachTheirAgent` from the keys of the mapping.
  `ToolsAreToldApart`, for any operations, names that repeat and names that look like deduplicated ones: of more suffixes than there
  are names one is free (`SomeSuffixIsFree`, a pigeonhole), the least free one makes a new name (`DedupedIsNew`), the equation of the recursive function
  `OpenApiNames` has a solution for every number of operations (`NamesExist`), and no name repeats an earlier one (`OperationsDiffer`);
  between connections the prefix tells them apart.
* **SandboxProofs.**  `NothingSurvivesClose` from "every machine in use is the adapter's"; `TimeoutsKill` (the shell, not what it started); `AdaptersKeepContract`, the
  refinement to `SandboxContract`.

**Only model-checked:** all liveness (`ClosedReleasesEveryone`, `ProcessEnds`, the fairness part of `ImplementsEventLog`, `EveryTurnSettles`,
`ShutdownTerminates`, `EveryCallReturns`), which the prover does not reach.  Every invariant and every other property of a passing run is
also a theorem.  The other way round, `TypeCorrect` of each component, `SessionsRunOneTurn`, `DevServerKeepsLog` and `ChannelKeepsConversations` are theorems without a
run.  TLC confirms the last one in the instance of `channel` with two requests instead of three, where it takes as long as the whole run without it.

## 5. Where the code and its documentation differ

Shown by a run each:

* `manager_restart`: a checkpointed session is unknown after a restart (README: sessions survive restarts).
* `approval_map`: an id map that leaves out one of several pending interrupts refuses all of them (docstring of `resume`).
* `channel_retries`: a retry is skipped although no attempt was handled (docstring of `is_retry`).
* `channel_discord`: a Discord command that is delivered again runs again, because the adapter inherits an `is_retry` that knows no retry (docstring of `is_retry`,
  `docs/custom-channels.md`: Slack and Discord re-deliver after about three seconds).

Seen while modelling, without a run of their own:

* a timed-out subprocess call need not return while what its shell started holds the pipes (docstring of `sandbox/subprocess.py`: the timeout is
  enforced): only the shell is killed, and the wait for it has no timeout.  Whether `wait()` waits for the pipes depends on the release of Python; with 3.11 a
  limit of 1 s on `sleep 6; echo x` came back after 6 s;
* with the documented `get_token` a request carries the `Credential` object instead of its token (SPEC 4.6, `_resolve_headers`; the object of `CustomHeaders`);
* a thread used over HTTP and as a channel's key would run two turns at once; the built-in adapters prefix their keys, so it takes
  a custom one;
* the line marked unreachable in `PrincipalMiddleware` is reached when a consent pause is resumed before the token is stored, and fails the turn;
* `extract_reply` returns all streamed text of a turn rather than its final text, and in a turn of several runs one that does not stream
  replaces what all others said; the terminal drops a full message while
  another run's line is open;
* after an aborted turn a single decision may reach a gate that asked nobody;
* a second call during the start of the microVM is refused although the adapter says that it starts on first use;
* a subagent that pauses is reported and never resumed, where SPEC 4.5 calls delegations durable and resumable;
* the `.env` of one project stays in the environment of the next one loaded by the process;
* `default_model` and `LEVE_DEFAULT_MODEL` are read but no agent is built with them;
* `create_app` and its lifespan load the project separately, so that channels and graph may be of two versions;
* in server mode one signal does not stop a server whose watched turn never ends: the stop waits for the response, the response for the turn,
  and only the lifespan, which comes after, would cancel the turn; a second ^C does (`ForceExit`).  In tui mode the five seconds of the join end it;
* ^C at the prompt is followed by a wait for the thread that reads the line, until Enter is pressed (`InputReturns`); ^C or the deadline during
  `_await_server_start` ends the process with the runtime of the daemon thread open;
* `start()` of the microVM and the reads of an execution's output are awaited without a timeout, a call can be stuck in them.

The properties avoid claiming what does not hold.  Also hard to test, and no promise of the code to check: replies of one conversation
may be posted in another order than its turns ran (delivery is outside the lock); an acknowledged message is lost in a crash;
a failed delivery leaves a reply in the memory that nobody saw; the lock of a conversation is never removed; a predicate is evaluated again, with the
principal that resumes, when its call re-runs, and a tool that acted before it asked for a token acts again; a subprocess whose turn is
cancelled goes on; an edit within one second and of one size is hidden by the bytecode cache; a schedule delivers
an empty reply after a failed turn; a tool of the project may have the name of a generated one.

## 6. Plan

Done, the most important behaviour first: SessionBroker, SessionManager, AgentTurn with its consumers, Approval,
ChannelIngress, Sandbox, Identity, Loader and Assembly, then DevServer around SessionBroker, Discord beside Slack and
the verdicts of evals; each with its run and its proofs.

Left, in order of what it would add:

1. A delegation that starts again when its parent's call is re-run, as a composition of `Approval` (stored answers) and `Identity` (fresh threads).
2. The delivery of a schedule's reply; file operations of the sandboxes (containment of paths, writes whose failure is ignored).
3. Several turns of one chat in `DevServer`, with the manager's tables of `SessionManager` in place of its one turn.

## 7. Not modelled

Platform authentication (a token check the host supplies, which no route calls), the commands of the CLI other than `leve dev` as far as they
only print or write files, scaffolding, the development log, tracing and deployment; of modelled
components, what `PROJECT.json` says of each: construction of models, prompts and skills, schemas of tools, HTTP and MCP transport,
file operations of sandboxes, truncation of output.  Wording, logging and layout are left out.  Signature checks are taken as passed or failed; durability of a checkpoint
is LangGraph's and assumed.
