------------------------------ MODULE DevServer ------------------------------
(***************************************************************************)
(* `leve dev` around one turn and those who watch it: the command of       *)
(* serving/cli.py, the chat loop of serving/tui.py and the lifespan of     *)
(* serving/server.py.  In server mode the main thread serves; in tui mode  *)
(* (and split, which runs it in a pane) a daemon thread serves while the   *)
(* main thread waits for it, runs the terminal and stops it.  The turn's   *)
(* broker and its responses are those of SessionBroker; the terminal is    *)
(* one of the subscribers.                                                 *)
(*                                                                         *)
(* External, uvicorn: it starts the lifespan, then binds, then serves.     *)
(* Asked to exit it accepts nothing more and waits, without a limit, for   *)
(* every response and request in progress; only then the lifespan ends,    *)
(* which cancels the turns the manager knows (manager.shutdown) and closes *)
(* the runtime.                                                            *)
(***************************************************************************)
EXTENDS SessionBroker

CONSTANTS Terminal,  \* the subscriber that is the terminal's open message
          Stream     \* what the turn publishes if nothing cuts it short

ASSUME TerminalAssumption == Terminal \in Subscribers
ASSUME StreamAssumption == Stream \in Seq(Event)

VARIABLES mode,        \* DevMode
          main,        \* where the main thread stands
          server,      \* where server.run stands, in whichever thread
          started,     \* server.started
          should_exit, \* server.should_exit
          turn,        \* the runner of the broker's turn
          scheduled,   \* a POST to a schedule's route, answered after its run
          hurried      \* history: a deadline or a ^C ended a wait for the server

flags == <<started, should_exit>>
work == <<turn, scheduled>>
devVars == <<vars, mode, main, server, flags, work, hurried>>

\* "building": in create_app;  "foreground": in server.run;  "waiting": polls
\* in _await_server_start;  "opening" .. "interrupted": in run_tui (see below);
\* "stopping": at the finally clause;  "joining": in thread.join.
Main == {"building", "foreground", "waiting", "opening", "prompt", "sending",
         "interrupted", "stopping", "joining", "exited"}

\* "opening": in build_runtime;  "draining": waits for responses and requests;
\* "unwinding": manager.shutdown, then the runtime closes;  "dead": returned;
\* "killed": the process ended while it ran.
Server == {"down", "opening", "binding", "serving", "draining", "unwinding",
           "dead", "killed"}

IsUp == server \in {"serving", "draining", "unwinding"}
Open(s) == pc[s] \in {"check", "parked", "yielding"}

DevInit ==
    /\ Init
    /\ mode \in {"tui", "server"}
    /\ main = "building"
    /\ server = "down"
    /\ started = FALSE
    /\ should_exit = FALSE
    /\ turn = "none"
    /\ scheduled = "none"
    /\ hurried = FALSE

\* The interpreter does not wait for a daemon thread.
Exit ==
    /\ main' = "exited"
    /\ server' = IF server \in {"down", "dead"} THEN server ELSE "killed"

-----------------------------------------------------------------------------
(* The main thread until the server is up *)

\* create_app loads the project and may raise, which ends the command.
BuildServer ==
    /\ main = "building"
    /\ \/ Exit
       \/ /\ main' = IF mode = "tui" THEN "waiting" ELSE "foreground"
          /\ server' = "opening"
    /\ UNCHANGED <<vars, mode, flags, work, hurried>>

SeeStarted ==
    /\ main = "waiting"
    /\ started
    /\ main' = "opening"
    /\ UNCHANGED <<vars, mode, server, flags, work, hurried>>

SeeDead ==
    /\ main = "waiting"
    /\ ~started
    /\ server = "dead"
    /\ Exit
    /\ UNCHANGED <<vars, mode, flags, work, hurried>>

\* 15 s.  The server may have started since the flag was read.
StartDeadline ==
    /\ main = "waiting"
    /\ should_exit' = TRUE
    /\ hurried' = TRUE
    /\ Exit
    /\ UNCHANGED <<vars, mode, started, work>>

\* ^C during the wait: no clause of _run_tui_mode covers it yet.
InterruptWait ==
    /\ main = "waiting"
    /\ hurried' = TRUE
    /\ Exit
    /\ UNCHANGED <<vars, mode, flags, work>>

-----------------------------------------------------------------------------
(* The terminal *)

\* Without a session run() returns.
OpenSession ==
    /\ main = "opening"
    /\ \/ IsUp /\ main' = "prompt"
       \/ main' = "stopping"
    /\ UNCHANGED <<vars, mode, server, flags, work, hurried>>

\* A message that is refused, or fails, brings the prompt back.  The broker has
\* one turn: what is said after it is left out.
SendTurn ==
    /\ main = "prompt"
    /\ server = "serving"
    /\ turn = "none"
    /\ main' = "sending"
    /\ turn' = "running"
    /\ Subscribe(Terminal)
    /\ UNCHANGED <<mode, server, flags, scheduled, hurried>>

TurnShown ==
    /\ main = "sending"
    /\ ~Open(Terminal)
    /\ main' = "prompt"
    /\ UNCHANGED <<vars, mode, server, flags, work, hurried>>

\* A quit command or the end of the input.
Quit ==
    /\ main = "prompt"
    /\ main' = "stopping"
    /\ UNCHANGED <<vars, mode, server, flags, work, hurried>>

\* ^C cancels the client.  At the prompt asyncio.run then waits for the thread
\* that reads the line; on the way through client.stream it closes the response.
Interrupt ==
    /\ \/ /\ main = "prompt"
          /\ main' = "interrupted"
          /\ UNCHANGED vars
       \/ /\ main = "sending"
          /\ main' = "stopping"
          /\ IF Open(Terminal) THEN Disconnect(Terminal) ELSE UNCHANGED vars
    /\ UNCHANGED <<mode, server, flags, work, hurried>>

\* The user presses Enter.
InputReturns ==
    /\ main = "interrupted"
    /\ main' = "stopping"
    /\ UNCHANGED <<vars, mode, server, flags, work, hurried>>

-----------------------------------------------------------------------------
(* Stopping *)

\* Mutant of StopServer: the finally clause sets the flag and does not join.
StopServerOnly ==
    /\ main = "stopping"
    /\ should_exit' = TRUE
    /\ Exit
    /\ UNCHANGED <<vars, mode, started, work, hurried>>

StopServer ==
    /\ main = "stopping"
    /\ should_exit' = TRUE
    /\ main' = "joining"
    /\ UNCHANGED <<vars, mode, server, started, work, hurried>>

Joined ==
    /\ main \in {"joining", "foreground"}
    /\ server = "dead"
    /\ Exit
    /\ UNCHANGED <<vars, mode, flags, work, hurried>>

\* Mutant of JoinDeadline: join() without a timeout.
JoinForever == FALSE /\ UNCHANGED devVars

\* 5 s, or ^C.
JoinDeadline ==
    /\ main = "joining"
    /\ hurried' = TRUE
    /\ Exit
    /\ UNCHANGED <<vars, mode, flags, work>>

\* ^C or SIGTERM in server mode, handled by uvicorn.
Signal ==
    /\ main = "foreground"
    /\ ~should_exit
    /\ should_exit' = TRUE
    /\ UNCHANGED <<vars, mode, main, server, started, work, hurried>>

-----------------------------------------------------------------------------
(* The server *)

CancelTurn == turn' = IF turn = "running" THEN "cancelled" ELSE turn

\* build_runtime may fail, and closes what it had opened.
EnterLifespan ==
    /\ server = "opening"
    /\ server' \in {"binding", "dead"}
    /\ UNCHANGED <<vars, mode, main, flags, work, hurried>>

\* A port in use ends the lifespan and the thread; a server that was asked to
\* exit meanwhile has started and ends at once.
Bind ==
    /\ server = "binding"
    /\ \/ started' = TRUE /\ server' = IF should_exit THEN "unwinding" ELSE "serving"
       \/ started' = FALSE /\ server' = "unwinding"
    /\ UNCHANGED <<vars, mode, main, should_exit, work, hurried>>

NoticeExit ==
    /\ server = "serving"
    /\ should_exit
    /\ server' = "draining"
    /\ UNCHANGED <<vars, mode, main, flags, work, hurried>>

\* Mutant of Drained: what is in progress is the streams.
DrainedStreams == \A s \in Subscribers : ~Open(s)

Drained == scheduled # "running" /\ \A s \in Subscribers : ~Open(s)

\* lifespan.shutdown: manager.shutdown cancels its tasks.
EndLifespan ==
    /\ server = "draining"
    /\ Drained
    /\ server' = "unwinding"
    /\ CancelTurn
    /\ UNCHANGED <<vars, mode, main, flags, scheduled, hurried>>

\* A second ^C in server mode: asyncio.run cancels every task, and the
\* lifespan's is one of them.
ForceExit ==
    /\ main = "foreground"
    /\ server = "draining"
    /\ server' = "unwinding"
    /\ CancelTurn
    /\ scheduled' = IF scheduled = "running" THEN "cut" ELSE scheduled
    /\ hurried' = TRUE
    /\ UNCHANGED <<vars, mode, main, flags>>

\* Mutant of CloseRuntime: the cancelled turn is not awaited.
CloseRuntimeAtOnce ==
    /\ server = "unwinding"
    /\ server' = "dead"
    /\ UNCHANGED <<vars, mode, main, flags, work, hurried>>

\* The cancelled turn was awaited; the runtime's exit stack unwinds.
CloseRuntime ==
    /\ server = "unwinding"
    /\ turn # "cancelled"
    /\ \A s \in Subscribers : ~Open(s)
    /\ server' = "dead"
    /\ UNCHANGED <<vars, mode, main, flags, work, hurried>>

-----------------------------------------------------------------------------
(* Turns and requests *)

Others == UNCHANGED <<mode, main, server, flags, hurried>>

\* In server mode another client sends the message.
SendMessage(s) ==
    /\ mode = "server"
    /\ server = "serving"
    /\ turn = "none"
    /\ turn' = "running"
    /\ Subscribe(s)
    /\ UNCHANGED scheduled
    /\ Others

Watch(s) ==
    /\ server = "serving"
    /\ turn = "running"
    /\ s # Terminal \/ mode = "server"
    /\ Subscribe(s)
    /\ UNCHANGED work
    /\ Others

Emit ==
    /\ IsUp
    /\ turn = "running"
    /\ Len(events) < Len(Stream)
    /\ Publish(Stream[Len(events) + 1])
    /\ UNCHANGED work
    /\ Others

\* The graph ends, or its cancellation does: the runner closes the broker.
EndTurn ==
    /\ IsUp
    /\ turn \in {"running", "cancelled"}
    /\ turn' = "settled"
    /\ Close
    /\ UNCHANGED scheduled
    /\ Others

Serve(s) == IsUp /\ Iterate(s) /\ UNCHANGED work /\ Others

Leave(s) == IsUp /\ Disconnect(s) /\ UNCHANGED work /\ Others

\* Only a lifespan that was forced to end still has open responses, which are
\* cancelled with it; the end of the process closes every connection.
Vanish(s) ==
    /\ server \in {"unwinding", "killed"}
    /\ Disconnect(s)
    /\ UNCHANGED work
    /\ Others

\* The schedule's run is awaited in its request and is no task of the manager.
RunSchedule ==
    /\ \/ server = "serving" /\ scheduled = "none" /\ scheduled' = "running"
       \/ IsUp /\ scheduled = "running" /\ scheduled' = "done"
    /\ UNCHANGED <<vars, turn>>
    /\ Others

-----------------------------------------------------------------------------
MainStep ==
    \/ BuildServer \/ SeeStarted \/ SeeDead \/ OpenSession \/ TurnShown
    \/ StopServer \/ Joined

Timers == StartDeadline \/ JoinDeadline

ServerStep == EnterLifespan \/ Bind \/ NoticeExit \/ EndLifespan \/ CloseRuntime

User == InterruptWait \/ SendTurn \/ Quit \/ Interrupt \/ InputReturns \/ Signal \/ ForceExit

DevNext ==
    \/ MainStep \/ Timers \/ ServerStep \/ User
    \/ Emit \/ EndTurn \/ RunSchedule
    \/ \E s \in Subscribers :
          SendMessage(s) \/ Watch(s) \/ Serve(s) \/ Leave(s) \/ Vanish(s)

DevSpec == DevInit /\ [][DevNext]_devVars

\* Both threads run, clocks advance, the event loop resumes what is ready and
\* connections of an ended process close.  Turns and scheduled runs may take
\* for ever unless they are cancelled, and people do as they like.
DevFairSpec ==
    /\ DevSpec
    /\ WF_devVars(MainStep) /\ WF_devVars(Timers) /\ WF_devVars(ServerStep)
    /\ WF_devVars(turn = "cancelled" /\ EndTurn)
    /\ \A s \in Subscribers : WF_devVars(Serve(s)) /\ WF_devVars(Vanish(s))

-----------------------------------------------------------------------------
DevTypeOK ==
    /\ TypeOK
    /\ mode \in {"tui", "server"}
    /\ main \in Main
    /\ server \in Server
    /\ started \in BOOLEAN
    /\ should_exit \in BOOLEAN
    /\ turn \in {"none", "running", "cancelled", "settled"}
    /\ scheduled \in {"none", "running", "done", "cut"}
    /\ hurried \in BOOLEAN

\* The server's runtime is closed only when nobody uses it, and the process
\* leaves a running server behind only when a deadline or a ^C ended its wait:
\* otherwise the turn has settled, every scheduled run was answered and no
\* response is open (finally clause of _run_tui_mode, lifespan of create_app).
StopsAreOrderly ==
    /\ server = "dead" =>
          /\ turn \in {"none", "settled"}
          /\ scheduled # "running"
          /\ \A s \in Subscribers : ~Open(s)
    /\ main = "exited" /\ ~hurried => server \in {"down", "dead"}

\* `leve dev` does not hang: the wait for the server ends, the terminal comes
\* back after it was told to quit whatever turns and their watchers do, and a
\* server told to stop ends once no request is in progress that never ends.
ProcessEnds ==
    /\ main = "waiting" ~> main \in {"opening", "exited"}
    /\ main = "stopping" ~> main = "exited"
    /\ server = "draining" /\ closed /\ scheduled # "running" ~> main = "exited"
    /\ server = "unwinding" ~> server \in {"dead", "killed"}
=============================================================================
