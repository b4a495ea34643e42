------------------------------- MODULE Sandbox -------------------------------
(***************************************************************************)
(* The sandbox an agent's turns share (sandbox/*.py): concurrent calls of  *)
(* run(), the microVM that the first one starts, the subprocess of each    *)
(* call, timeouts, cancelled calls and close().                            *)
(*                                                                         *)
(* The adapter is picked once by the configuration (create_sandbox).  A    *)
(* step is what one coroutine does between two suspensions.  close() is    *)
(* called when the runtime's exit stack unwinds, after every turn and with *)
(* it every call has settled (SessionManager: NoTurnOutlivesRuntime).      *)
(*                                                                         *)
(* External: the microsandbox SDK refuses a command on a machine that is   *)
(* not started, and stopping a machine ends what runs in it; its start()   *)
(* and the reads of an execution's output are awaited without a timeout    *)
(* and may take for ever.  The command of the subprocess adapter is the    *)
(* shell it spawns.  kill() ends the shell only; a process the shell       *)
(* started may go on, and while it holds the pipes asyncio's wait() need   *)
(* not return (releases differ: base_subprocess.py wakes the waiters when  *)
(* the pipes are closed).                                                  *)
(***************************************************************************)
EXTENDS Naturals, FiniteSets

CONSTANTS Calls, \* the calls of run() in the runtime's life
          Vms,   \* identities of PythonSandbox objects
          None   \* Python's None

ASSUME NoneAssumption == None \notin Vms

VARIABLES
    adapter, \* config.sandbox.adapter
    sandbox, \* self._sandbox of the microsandbox adapter
    vm,      \* state of each machine
    on,      \* the machine a call was given by _ensure()
    call,    \* where each call of run() stands
    command, \* what becomes of its command
    held,    \* calls whose killed shell left a process that holds its pipes
    result,  \* what an answered call returned
    closed

vars == <<adapter, sandbox, vm, on, call, command, held, result, closed>>

Live == {"starting", "ready", "executing", "reading", "reaping"}
Settled == {"answered", "raised", "cancelled"}

Init ==
    /\ adapter \in {"microsandbox", "subprocess"}
    /\ sandbox = None
    /\ vm = [v \in Vms |-> "unused"]
    /\ on = [c \in Calls |-> None]
    /\ call = [c \in Calls |-> "idle"]
    /\ command = [c \in Calls |-> "none"]
    /\ held = {}
    /\ result = [c \in Calls |-> "none"]
    /\ closed = FALSE

Goto(c, pc) == call' = [call EXCEPT ![c] = pc]

\* A command ends by itself, called for or not.
Ends(c) ==
    /\ command[c] = "running"
    /\ \E status \in {"zero", "nonzero"} : command' = [command EXCEPT ![c] = status]
    /\ UNCHANGED <<adapter, sandbox, vm, on, call, held, result, closed>>

-----------------------------------------------------------------------------
(* MicrosandboxSandbox *)

\* Mutant of Ensure: the machine is kept by the call, not by the adapter.
EnsureKeepsLocal(c) ==
    /\ adapter = "microsandbox" /\ ~closed
    /\ call[c] = "idle"
    /\ \E v \in Vms :
          /\ vm[v] = "unused"
          /\ vm' = [vm EXCEPT ![v] = "starting"]
          /\ on' = [on EXCEPT ![c] = v]
    /\ Goto(c, "starting")
    /\ UNCHANGED <<adapter, sandbox, command, held, result, closed>>

\* _ensure, up to the await of start(): the first call creates the machine and
\* stores it, any later one gets the stored machine.
Ensure(c) ==
    /\ adapter = "microsandbox" /\ ~closed
    /\ call[c] = "idle"
    /\ IF sandbox = None
       THEN \E v \in Vms :
            /\ vm[v] = "unused"
            /\ sandbox' = v
            /\ vm' = [vm EXCEPT ![v] = "starting"]
            /\ on' = [on EXCEPT ![c] = v]
            /\ Goto(c, "starting")
       ELSE /\ on' = [on EXCEPT ![c] = sandbox]
            /\ Goto(c, "ready")
            /\ UNCHANGED <<sandbox, vm>>
    /\ UNCHANGED <<adapter, command, held, result, closed>>

Starts(c) ==
    /\ call[c] = "starting"
    /\ vm' = [vm EXCEPT ![on[c]] = "running"]
    /\ Goto(c, "ready")
    /\ UNCHANGED <<adapter, sandbox, on, command, held, result, closed>>

\* start() raises; self._sandbox keeps the machine that never started.
StartFails(c) ==
    /\ call[c] = "starting"
    /\ vm' = [vm EXCEPT ![on[c]] = "failed"]
    /\ Goto(c, "raised")
    /\ UNCHANGED <<adapter, sandbox, on, command, held, result, closed>>

\* command.run on the machine.
Execute(c) ==
    /\ call[c] = "ready"
    /\ vm[on[c]] = "running"
    /\ command' = [command EXCEPT ![c] = "running"]
    /\ Goto(c, "executing")
    /\ UNCHANGED <<adapter, sandbox, vm, on, held, result, closed>>

Refused(c) ==
    /\ call[c] = "ready"
    /\ vm[on[c]] # "running"
    /\ Goto(c, "raised")
    /\ UNCHANGED <<adapter, sandbox, vm, on, command, held, result, closed>>

\* Mutant of ReportedStatus: an execution without an exit code succeeded.
ReportedStatusDefaultZero(c) == {IF command[c] = "zero" THEN "ok" ELSE "failed", "ok"}

\* The status of the result: getattr(execution, "exit_code", -1), or the return
\* code of the process; an exit code may be missing.
ReportedStatus(c) == {IF command[c] = "zero" THEN "ok" ELSE "failed", "failed"}

Answer(c, r) ==
    /\ Goto(c, "answered")
    /\ result' = [result EXCEPT ![c] = r]
    /\ UNCHANGED <<adapter, sandbox, vm, on, held, closed>>

\* wait_for returns the execution; its output is read without a timeout.
CommandReturns(c) ==
    /\ adapter = "microsandbox"
    /\ call[c] = "executing"
    /\ command[c] \in {"zero", "nonzero"}
    /\ Goto(c, "reading")
    /\ UNCHANGED <<adapter, sandbox, vm, on, command, held, result, closed>>

\* await execution.output(), await execution.error(), then the result.
Read(c) ==
    /\ call[c] = "reading"
    /\ \E r \in ReportedStatus(c) : Answer(c, r)
    /\ UNCHANGED command

\* The SDK's connection fails, in the run or in a read.
SdkFails(c) ==
    /\ adapter = "microsandbox"
    /\ call[c] \in {"executing", "reading"}
    /\ Goto(c, "raised")
    /\ UNCHANGED <<adapter, sandbox, vm, on, command, held, result, closed>>

\* Mutant of VmTimeout: the reads are timed, the run of the command is not.
VmTimeoutOnOutput(c) ==
    /\ call[c] = "reading"
    /\ Answer(c, "failed")
    /\ UNCHANGED command

\* wait_for gives up on command.run: the answer is 124, the machine is not told
\* to stop the command.
VmTimeout(c) ==
    /\ adapter = "microsandbox"
    /\ call[c] = "executing"
    /\ Answer(c, "failed")
    /\ UNCHANGED command

-----------------------------------------------------------------------------
(* SubprocessSandbox *)

Spawn(c) ==
    /\ adapter = "subprocess" /\ ~closed
    /\ call[c] = "idle"
    /\ command' = [command EXCEPT ![c] = "running"]
    /\ Goto(c, "executing")
    /\ UNCHANGED <<adapter, sandbox, vm, on, held, result, closed>>

\* communicate() returns: the process is over and its output was read in time.
Returns(c) ==
    /\ adapter = "subprocess"
    /\ call[c] = "executing"
    /\ command[c] \in {"zero", "nonzero"}
    /\ \E r \in ReportedStatus(c) : Answer(c, r)
    /\ UNCHANGED command

\* Mutant of KillTimeout: 124 at once, the process is left to itself.
KillTimeoutAnswers(c) ==
    /\ adapter = "subprocess"
    /\ call[c] = "executing"
    /\ Answer(c, "failed")
    /\ UNCHANGED command

\* Mutant of KillTimeout: the process is waited for, not killed.
KillTimeoutWaits(c) ==
    /\ adapter = "subprocess"
    /\ call[c] = "executing"
    /\ Goto(c, "reaping")
    /\ UNCHANGED <<adapter, sandbox, vm, on, command, held, result, closed>>

\* wait_for gives up and the shell is killed, unless it is just over; it may
\* leave behind what it started.
KillTimeout(c) ==
    /\ adapter = "subprocess"
    /\ call[c] = "executing"
    /\ IF command[c] = "running"
       THEN /\ command' = [command EXCEPT ![c] = "killed"]
            /\ held' \in {held, held \cup {c}}
       ELSE UNCHANGED <<command, held>>
    /\ Goto(c, "reaping")
    /\ UNCHANGED <<adapter, sandbox, vm, on, result, closed>>

\* await proc.wait(), then 124.
Reaped(c) ==
    /\ call[c] = "reaping"
    /\ command[c] # "running"
    /\ Answer(c, "failed")
    /\ UNCHANGED command

\* What the shell left behind ends, or closes its pipes.
LetsGo(c) ==
    /\ c \in held
    /\ held' = held \ {c}
    /\ UNCHANGED <<adapter, sandbox, vm, on, call, command, result, closed>>

-----------------------------------------------------------------------------
(* The turns and the runtime *)

\* The task of the call's turn is cancelled at whatever it awaits; neither
\* adapter stops its command then, and a start may or may not have happened.
Cancel(c) ==
    /\ call[c] \in Live
    /\ Goto(c, "cancelled")
    /\ IF call[c] = "starting"
       THEN \E s \in {"running", "failed"} : vm' = [vm EXCEPT ![on[c]] = s]
       ELSE UNCHANGED vm
    /\ UNCHANGED <<adapter, sandbox, on, command, held, result, closed>>

\* close() of either adapter; stop() is taken to succeed.
Close ==
    /\ ~closed
    /\ \A c \in Calls : call[c] \notin Live
    /\ closed' = TRUE
    /\ sandbox' = None
    /\ vm' = [v \in Vms |-> IF v = sandbox THEN "stopped" ELSE vm[v]]
    /\ command' = [c \in Calls |->
                      IF command[c] = "running" /\ sandbox # None /\ on[c] = sandbox
                      THEN "killed" ELSE command[c]]
    /\ UNCHANGED <<adapter, on, call, held, result>>

CallStep(c) ==
    \/ Ensure(c) \/ Starts(c) \/ StartFails(c) \/ Execute(c) \/ Refused(c)
    \/ CommandReturns(c) \/ Read(c) \/ SdkFails(c) \/ VmTimeout(c)
    \/ Spawn(c) \/ Returns(c) \/ KillTimeout(c) \/ Reaped(c)

Next == (\E c \in Calls : CallStep(c) \/ Ends(c) \/ LetsGo(c) \/ Cancel(c)) \/ Close

Spec == Init /\ [][Next]_vars

\* The event loop and its timers run, the SDK refuses at once and a process that
\* is dead and left nothing behind is reaped; a command need not end, nor any
\* await the code does not time.
FairSpec ==
    Spec /\ \A c \in Calls :
        WF_vars(\/ Execute(c) \/ Refused(c) \/ VmTimeout(c) \/ KillTimeout(c)
                \/ c \notin held /\ Reaped(c))

-----------------------------------------------------------------------------
TypeOK ==
    /\ adapter \in {"microsandbox", "subprocess"}
    /\ sandbox \in Vms \cup {None}
    /\ vm \in [Vms -> {"unused", "starting", "running", "failed", "stopped"}]
    /\ on \in [Calls -> Vms \cup {None}]
    /\ call \in [Calls -> {"idle"} \cup Live \cup Settled]
    /\ command \in [Calls -> {"none", "running", "zero", "nonzero", "killed"}]
    /\ held \subseteq Calls
    /\ result \in [Calls -> {"none", "ok", "failed"}]
    /\ closed \in BOOLEAN

\* What the microsandbox adapter started is gone after close(): the machine of
\* the first call, a start that was cancelled half-way, a timed-out command, and
\* no second machine ever existed (MicrosandboxSandbox._ensure and close).
CloseStopsEverything ==
    closed /\ adapter = "microsandbox" =>
        /\ \A v \in Vms : vm[v] \notin {"starting", "running"}
        /\ \A c \in Calls : command[c] # "running"

\* The shell of a timed-out call is dead by the time its caller reads 124
\* (SubprocessSandbox.run); processes the shell started are not meant.
AnsweredProcessesAreDead ==
    \A c \in Calls :
        adapter = "subprocess" /\ call[c] = "answered" => command[c] # "running"

\* Awaits the code does not time: of start(), of the reads of the output, and of
\* a process whose pipes are held.
Untimed(c) == call[c] \in {"starting", "reading"} \/ c \in held

\* No command holds its call for ever, and no start holds another call's: a call
\* comes back, even if its command never ends (the timeouts of both adapters),
\* unless it is itself stuck in an await that has no timeout.
EveryCallReturns ==
    \A c \in Calls : call[c] \in Live ~> (call[c] \in Settled \/ []Untimed(c))

\* Both adapters keep the contract of Sandbox.run.
told == [c \in Calls |->
            IF call[c] = "answered" THEN result[c]
            ELSE IF call[c] \in {"raised", "cancelled"} THEN "raised" ELSE "none"]

Contract == INSTANCE SandboxContract WITH answer <- told
KeepsContract == Contract!Spec
=============================================================================
