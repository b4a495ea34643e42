---------------------------- MODULE SandboxProofs ----------------------------
(* What close() leaves behind, what a timeout leaves behind and what a call  *)
(* is told: for any number of calls and machines.                            *)
EXTENDS Sandbox, TLAPS

(* The machine in self._sandbox is the only one that may be up, and it is    *)
(* the one whose start a call awaits; at most one call does.                 *)
OneMachine ==
    /\ \A v \in Vms : vm[v] \in {"starting", "running"} => sandbox = v
    /\ \A c \in Calls : call[c] = "starting" => sandbox # None /\ on[c] = sandbox
    /\ \A c, d \in Calls : call[c] = "starting" /\ call[d] = "starting" => c = d

(* Where a call of each adapter can stand and what its command does then.    *)
CallInv(c) ==
    /\ call[c] \in {"starting", "ready"} =>
           adapter = "microsandbox" /\ on[c] \in Vms /\ command[c] = "none"
    /\ call[c] = "idle" => command[c] = "none"
    /\ call[c] \in {"executing", "reading", "reaping"} => command[c] # "none"
    /\ call[c] = "reading" => adapter = "microsandbox" /\ command[c] # "running"
    /\ call[c] = "reaping" => adapter = "subprocess"
    /\ call[c] \in {"reaping", "answered"} /\ adapter = "subprocess" => command[c] # "running"
    /\ command[c] = "running" /\ adapter = "microsandbox" =>
           sandbox # None /\ on[c] = sandbox
    /\ closed => call[c] \notin Live

ClosedIsClosed == closed => sandbox = None

IInv ==
    /\ TypeOK
    /\ OneMachine
    /\ \A c \in Calls : CallInv(c)
    /\ ClosedIsClosed

LEMMA InitIInv == Init => IInv
<1> SUFFICES ASSUME Init PROVE IInv
  OBVIOUS
<1>1. TypeOK
  BY DEF Init, TypeOK
<1>2. OneMachine /\ ClosedIsClosed
  BY DEF Init, OneMachine, ClosedIsClosed
<1>3. \A c \in Calls : CallInv(c)
  BY DEF Init, CallInv
<1> QED
  BY <1>1, <1>2, <1>3 DEF IInv

\* The adapter's shared state is left alone by the steps of one call that do
\* not start the machine.
LEMMA CallStepFacts ==
    ASSUME IInv, NEW c \in Calls, NEW pc \in {"idle"} \cup Live \cup Settled,
           pc # "starting", Goto(c, pc), closed' = closed, adapter' = adapter,
           sandbox' = sandbox, vm' = vm, on' = on,
           command' \in [Calls -> {"none", "running", "zero", "nonzero", "killed"}],
           \A d \in Calls \ {c} : command'[d] = command[d],
           held' \subseteq Calls, result' \in [Calls -> {"none", "ok", "failed"}],
           CallInv(c)'
    PROVE  IInv'
<1>1. call \in [Calls -> {"idle"} \cup Live \cup Settled] /\ call' = [call EXCEPT ![c] = pc]
  BY DEF IInv, TypeOK, Goto
<1>2. TypeOK'
  BY <1>1 DEF IInv, TypeOK
<1>3. OneMachine'
  BY <1>1 DEF IInv, OneMachine
<1>4. \A d \in Calls : CallInv(d)'
  <2> SUFFICES ASSUME NEW d \in Calls, d # c PROVE CallInv(d)'
    OBVIOUS
  <2>1. call'[d] = call[d] /\ command'[d] = command[d] /\ CallInv(d)
    BY <1>1 DEF IInv
  <2> QED
    BY <2>1 DEF CallInv
<1>5. ClosedIsClosed'
  BY DEF IInv, ClosedIsClosed
<1> QED
  BY <1>2, <1>3, <1>4, <1>5 DEF IInv

Pcs == {"idle"} \cup Live \cup Settled

LEMMA EnsureIInv ==
    ASSUME IInv, NEW c \in Calls, Ensure(c)
    PROVE  IInv'
<1>1. /\ call \in [Calls -> Pcs] /\ on \in [Calls -> Vms \cup {None}]
      /\ vm \in [Vms -> {"unused", "starting", "running", "failed", "stopped"}]
      /\ sandbox \in Vms \cup {None}
      /\ call[c] = "idle" /\ ~closed /\ adapter = "microsandbox"
      /\ UNCHANGED <<adapter, command, held, result, closed>>
  BY DEF IInv, TypeOK, Ensure, Pcs
<1>2. command[c] = "none"
  BY <1>1 DEF IInv, CallInv
<1>3. CASE sandbox = None
  <2>1. PICK v \in Vms :
           /\ sandbox' = v
           /\ vm' = [vm EXCEPT ![v] = "starting"]
           /\ on' = [on EXCEPT ![c] = v]
           /\ call' = [call EXCEPT ![c] = "starting"]
    BY <1>3 DEF Ensure, Goto
  <2>2. \A d \in Calls : call[d] # "starting"
    BY <1>3 DEF IInv, OneMachine
  <2>3. \A w \in Vms : vm[w] \notin {"starting", "running"}
    BY <1>3, NoneAssumption DEF IInv, OneMachine, NoneAssumption
  <2>4. TypeOK'
    BY <1>1, <2>1 DEF IInv, TypeOK, Live, Pcs
  <2>5. OneMachine'
    <3>1. \A w \in Vms : vm'[w] \in {"starting", "running"} => sandbox' = w
      BY <1>1, <2>1, <2>3
    <3>2. \A d \in Calls : call'[d] = "starting" => d = c
      BY <1>1, <2>1, <2>2
    <3>3. sandbox' # None /\ on'[c] = sandbox'
      BY <1>1, <2>1, NoneAssumption DEF NoneAssumption
    <3> QED
      BY <3>1, <3>2, <3>3 DEF OneMachine
  <2>6. \A d \in Calls : CallInv(d)'
    <3> SUFFICES ASSUME NEW d \in Calls PROVE CallInv(d)'
      OBVIOUS
    <3>1. CASE d = c
      BY <1>1, <1>2, <2>1, <3>1 DEF CallInv
    <3>2. CASE d # c
      <4>1. call'[d] = call[d] /\ on'[d] = on[d] /\ CallInv(d)
        BY <1>1, <2>1, <3>2 DEF IInv
      <4> QED
        BY <1>1, <1>3, <4>1 DEF CallInv
    <3> QED
      BY <3>1, <3>2
  <2> QED
    BY <1>1, <2>4, <2>5, <2>6 DEF IInv, ClosedIsClosed
<1>4. CASE sandbox # None
  <2>1. /\ on' = [on EXCEPT ![c] = sandbox]
        /\ call' = [call EXCEPT ![c] = "ready"]
        /\ UNCHANGED <<sandbox, vm>>
    BY <1>4 DEF Ensure, Goto
  <2>2. TypeOK'
    BY <1>1, <2>1 DEF IInv, TypeOK, Live, Pcs
  <2>3. OneMachine'
    BY <1>1, <2>1 DEF IInv, OneMachine
  <2>4. \A d \in Calls : CallInv(d)'
    <3> SUFFICES ASSUME NEW d \in Calls PROVE CallInv(d)'
      OBVIOUS
    <3>1. CASE d = c
      BY <1>1, <1>2, <1>4, <2>1, <3>1 DEF CallInv
    <3>2. CASE d # c
      <4>1. call'[d] = call[d] /\ on'[d] = on[d] /\ CallInv(d)
        BY <1>1, <2>1, <3>2 DEF IInv
      <4> QED
        BY <1>1, <2>1, <4>1 DEF CallInv
    <3> QED
      BY <3>1, <3>2
  <2> QED
    BY <1>1, <2>2, <2>3, <2>4 DEF IInv, ClosedIsClosed
<1> QED
  BY <1>3, <1>4

\* The await of start() ends: the machine is up or it is not.
LEMMA StartEndsIInv ==
    ASSUME IInv, NEW c \in Calls, NEW s \in {"running", "failed"},
           NEW pc \in {"ready", "raised", "cancelled"},
           call[c] = "starting", Goto(c, pc), vm' = [vm EXCEPT ![on[c]] = s],
           UNCHANGED <<adapter, sandbox, on, command, held, result, closed>>
    PROVE  IInv'
<1>1. /\ call \in [Calls -> Pcs] /\ on \in [Calls -> Vms \cup {None}]
      /\ vm \in [Vms -> {"unused", "starting", "running", "failed", "stopped"}]
      /\ call' = [call EXCEPT ![c] = pc]
  BY DEF IInv, TypeOK, Goto, Pcs
<1>2. /\ CallInv(c) /\ on[c] \in Vms /\ on[c] = sandbox /\ sandbox # None
      /\ adapter = "microsandbox" /\ command[c] = "none"
  BY DEF IInv, CallInv, OneMachine
<1>3. pc \in Pcs
  BY DEF Pcs, Live, Settled
<1>4. TypeOK'
  BY <1>1, <1>2, <1>3 DEF IInv, TypeOK, Pcs
<1>5. OneMachine'
  BY <1>1, <1>2 DEF IInv, OneMachine
<1>6. \A d \in Calls : CallInv(d)'
  <2> SUFFICES ASSUME NEW d \in Calls PROVE CallInv(d)'
    OBVIOUS
  <2>1. CASE d = c
    BY <1>1, <1>2, <2>1 DEF CallInv, Live
  <2>2. CASE d # c
    <3>1. call'[d] = call[d] /\ CallInv(d)
      BY <1>1, <2>2 DEF IInv
    <3> QED
      BY <3>1 DEF CallInv
  <2> QED
    BY <2>1, <2>2
<1> QED
  BY <1>4, <1>5, <1>6 DEF IInv, ClosedIsClosed

LEMMA CloseIInv ==
    ASSUME IInv, Close
    PROVE  IInv'
<1>1. /\ vm \in [Vms -> {"unused", "starting", "running", "failed", "stopped"}]
      /\ command \in [Calls -> {"none", "running", "zero", "nonzero", "killed"}]
      /\ \A c \in Calls : call[c] \notin Live
      /\ closed' = TRUE /\ sandbox' = None
      /\ vm' = [v \in Vms |-> IF v = sandbox THEN "stopped" ELSE vm[v]]
      /\ command' = [c \in Calls |->
                        IF command[c] = "running" /\ sandbox # None /\ on[c] = sandbox
                        THEN "killed" ELSE command[c]]
      /\ UNCHANGED <<adapter, on, call, held, result>>
  BY DEF IInv, TypeOK, Close
<1>2. TypeOK'
  <2>1. vm' \in [Vms -> {"unused", "starting", "running", "failed", "stopped"}]
    BY <1>1
  <2>2. command' \in [Calls -> {"none", "running", "zero", "nonzero", "killed"}]
    BY <1>1
  <2>3. closed' \in BOOLEAN
    BY <1>1
  <2> QED
    BY <1>1, <2>1, <2>2, <2>3 DEF IInv, TypeOK
<1>3. OneMachine'
  BY <1>1 DEF IInv, OneMachine, Live
<1>4. \A c \in Calls : CallInv(c)'
  <2> SUFFICES ASSUME NEW c \in Calls PROVE CallInv(c)'
    OBVIOUS
  <2>1. CallInv(c) /\ call[c] \notin Live
    BY <1>1 DEF IInv
  <2> QED
    BY <1>1, <2>1 DEF CallInv, Live
<1> QED
  BY <1>1, <1>2, <1>3, <1>4 DEF IInv, ClosedIsClosed

LEMMA NextIInv ==
    ASSUME IInv, [Next]_vars
    PROVE  IInv'
<1>1. /\ command \in [Calls -> {"none", "running", "zero", "nonzero", "killed"}]
      /\ result \in [Calls -> {"none", "ok", "failed"}]
      /\ call \in [Calls -> Pcs]
      /\ held \subseteq Calls
      /\ \A c \in Calls : CallInv(c)
  BY DEF IInv, TypeOK, Pcs
<1>2. ASSUME NEW c \in Calls, Ensure(c) PROVE IInv'
  BY <1>2, EnsureIInv
<1>3. ASSUME NEW c \in Calls, Starts(c) PROVE IInv'
  BY <1>3, StartEndsIInv DEF Starts
<1>4. ASSUME NEW c \in Calls, StartFails(c) PROVE IInv'
  BY <1>4, StartEndsIInv DEF StartFails
<1>5. ASSUME NEW c \in Calls, Execute(c) PROVE IInv'
  <2>1. /\ adapter = "microsandbox" /\ on[c] = sandbox /\ sandbox # None /\ ~closed
    BY <1>1, <1>5, NoneAssumption DEF Execute, CallInv, IInv, OneMachine, Live, NoneAssumption
  <2>2. CallInv(c)'
    BY <1>1, <1>5, <2>1 DEF Execute, CallInv, Goto
  <2>3. "executing" \in {"idle"} \cup Live \cup Settled
    BY DEF Live
  <2> QED
    BY <1>1, <1>5, <2>2, <2>3, CallStepFacts DEF Execute
<1>6. ASSUME NEW c \in Calls, Refused(c) PROVE IInv'
  <2>1. CallInv(c)'
    BY <1>1, <1>6 DEF Refused, CallInv, Goto, Live
  <2>2. "raised" \in {"idle"} \cup Live \cup Settled
    BY DEF Settled
  <2> QED
    BY <1>1, <1>6, <2>1, <2>2, CallStepFacts DEF Refused
<1>7. ASSUME NEW c \in Calls, SdkFails(c) PROVE IInv'
  <2>1. CallInv(c)'
    BY <1>1, <1>7 DEF SdkFails, CallInv, Goto, Live
  <2>2. "raised" \in {"idle"} \cup Live \cup Settled
    BY DEF Settled
  <2> QED
    BY <1>1, <1>7, <2>1, <2>2, CallStepFacts DEF SdkFails
<1>8. ASSUME NEW c \in Calls, NEW r \in {"ok", "failed"}, Answer(c, r), command' = command,
             call[c] \in Live, adapter = "subprocess" => command[c] # "running",
             command[c] = "running" => call[c] = "executing"
      PROVE  IInv'
  <2>1. result' = [result EXCEPT ![c] = r] /\ UNCHANGED <<adapter, sandbox, vm, on, held, closed>>
        /\ Goto(c, "answered")
    BY <1>8 DEF Answer
  <2>2. CallInv(c)'
    BY <1>1, <1>8, <2>1 DEF CallInv, Goto, Live
  <2>3. "answered" \in {"idle"} \cup Live \cup Settled
    BY DEF Settled
  <2>4. result' \in [Calls -> {"none", "ok", "failed"}]
    BY <1>1, <2>1
  <2> QED
    BY <1>1, <1>8, <2>1, <2>2, <2>3, <2>4, CallStepFacts
<1>9. ASSUME NEW c \in Calls, Returns(c) \/ Read(c) PROVE IInv'
  <2>1. PICK r \in ReportedStatus(c) : Answer(c, r)
    BY <1>9 DEF Returns, Read
  <2>2. r \in {"ok", "failed"}
    BY DEF ReportedStatus
  <2>3. call[c] \in Live /\ command[c] # "running" /\ command' = command
    BY <1>1, <1>9 DEF Returns, Read, CallInv, Live
  <2> QED
    BY <1>8, <2>1, <2>2, <2>3
<1>10. ASSUME NEW c \in Calls, VmTimeout(c) PROVE IInv'
  <2>1. /\ call[c] \in Live /\ command' = command /\ Answer(c, "failed")
        /\ adapter = "microsandbox" /\ call[c] = "executing"
    BY <1>10 DEF VmTimeout, Live
  <2> QED
    BY <1>8, <2>1
<1>11. ASSUME NEW c \in Calls, Spawn(c) PROVE IInv'
  <2>1. CallInv(c)'
    BY <1>1, <1>11 DEF Spawn, CallInv, Goto
  <2>2. "executing" \in {"idle"} \cup Live \cup Settled
    BY DEF Live
  <2> QED
    BY <1>1, <1>11, <2>1, <2>2, CallStepFacts DEF Spawn
<1>12. ASSUME NEW c \in Calls, KillTimeout(c) PROVE IInv'
  <2>1. CallInv(c)'
    BY <1>1, <1>12 DEF KillTimeout, CallInv, Goto, Live
  <2>2. "reaping" \in {"idle"} \cup Live \cup Settled
    BY DEF Live
  <2>3. /\ command' \in [Calls -> {"none", "running", "zero", "nonzero", "killed"}]
        /\ \A d \in Calls \ {c} : command'[d] = command[d]
        /\ held' \subseteq Calls
    BY <1>1, <1>12 DEF KillTimeout
  <2> QED
    BY <1>1, <1>12, <2>1, <2>2, <2>3, CallStepFacts DEF KillTimeout
<1>13. ASSUME NEW c \in Calls, Reaped(c) PROVE IInv'
  <2>1. call[c] \in Live /\ command' = command /\ Answer(c, "failed") /\ call[c] = "reaping"
    BY <1>13 DEF Reaped, Live
  <2>2. adapter = "subprocess" => command[c] # "running"
    BY <1>1, <2>1 DEF CallInv
  <2>3. command[c] # "running"
    BY <1>1, <2>1, <2>2 DEF CallInv
  <2> QED
    BY <1>8, <2>1, <2>2, <2>3
<1>14. ASSUME NEW c \in Calls, Ends(c) PROVE IInv'
  <2>1. PICK status \in {"zero", "nonzero"} : command' = [command EXCEPT ![c] = status]
    BY <1>14 DEF Ends
  <2>2. command[c] = "running" /\ UNCHANGED <<adapter, sandbox, vm, on, call, held, result, closed>>
    BY <1>14 DEF Ends
  <2>3. call[c] \in {"idle"} \cup Live \cup Settled /\ Goto(c, call[c])
    BY <1>1, <2>2 DEF Goto, Pcs
  <2>4. CallInv(c)'
    BY <1>1, <2>1, <2>2 DEF CallInv
  <2>5. call[c] # "starting"
    BY <1>1, <2>2 DEF CallInv
  <2>6. /\ command' \in [Calls -> {"none", "running", "zero", "nonzero", "killed"}]
        /\ \A d \in Calls \ {c} : command'[d] = command[d]
    BY <1>1, <2>1
  <2> QED
    BY <1>1, <2>2, <2>3, <2>4, <2>5, <2>6, CallStepFacts
<1>15. ASSUME NEW c \in Calls, Cancel(c) PROVE IInv'
  <2>1. CASE call[c] = "starting"
    <3>1. PICK s \in {"running", "failed"} : vm' = [vm EXCEPT ![on[c]] = s]
      BY <1>15, <2>1 DEF Cancel
    <3> QED
      BY <1>15, <2>1, <3>1, StartEndsIInv DEF Cancel
  <2>2. CASE call[c] # "starting"
    <3>1. CallInv(c)'
      BY <1>1, <1>15, <2>2 DEF Cancel, CallInv, Goto, Live
    <3>2. "cancelled" \in {"idle"} \cup Live \cup Settled
      BY DEF Settled
    <3> QED
      BY <1>1, <1>15, <2>2, <3>1, <3>2, CallStepFacts DEF Cancel
  <2> QED
    BY <2>1, <2>2
<1>18. ASSUME NEW c \in Calls, CommandReturns(c) PROVE IInv'
  <2>1. CallInv(c)'
    BY <1>1, <1>18 DEF CommandReturns, CallInv, Goto, Live
  <2>2. "reading" \in {"idle"} \cup Live \cup Settled
    BY DEF Live
  <2> QED
    BY <1>1, <1>18, <2>1, <2>2, CallStepFacts DEF CommandReturns
<1>19. ASSUME NEW c \in Calls, LetsGo(c) PROVE IInv'
  <2>1. TypeOK' /\ OneMachine' /\ ClosedIsClosed'
    BY <1>19 DEF LetsGo, IInv, TypeOK, OneMachine, ClosedIsClosed
  <2>2. \A d \in Calls : CallInv(d)'
    BY <1>1, <1>19 DEF LetsGo, CallInv
  <2> QED
    BY <2>1, <2>2 DEF IInv
<1>16. CASE Close
  BY <1>16, CloseIInv
<1>17. CASE UNCHANGED vars
  <2>1. TypeOK' /\ OneMachine' /\ ClosedIsClosed'
    BY <1>17 DEF vars, IInv, TypeOK, OneMachine, ClosedIsClosed
  <2>2. \A c \in Calls : CallInv(c)'
    BY <1>1, <1>17 DEF vars, CallInv
  <2> QED
    BY <2>1, <2>2 DEF IInv
<1> QED
  BY <1>2, <1>3, <1>4, <1>5, <1>6, <1>7, <1>9, <1>10, <1>11, <1>12, <1>13, <1>14,
     <1>15, <1>16, <1>17, <1>18, <1>19 DEF Next, CallStep

THEOREM Invariant == Spec => []IInv
BY InitIInv, NextIInv, PTL DEF Spec
\* The sandbox's state is well typed, for any calls and machines.
THEOREM TypeCorrect == Spec => []TypeOK
<1>1. IInv => TypeOK
  BY DEF IInv
<1> QED
  BY Invariant, <1>1, PTL

\* close() leaves no machine up and no command running, whatever calls were
\* starting, timed out, failed or were cancelled before.
THEOREM NothingSurvivesClose == Spec => []CloseStopsEverything
<1>1. IInv => CloseStopsEverything
  <2> SUFFICES ASSUME IInv, closed, adapter = "microsandbox"
               PROVE  /\ \A v \in Vms : vm[v] \notin {"starting", "running"}
                      /\ \A c \in Calls : command[c] # "running"
    BY DEF CloseStopsEverything
  <2>1. sandbox = None
    BY DEF IInv, ClosedIsClosed
  <2>2. \A v \in Vms : vm[v] \notin {"starting", "running"}
    BY <2>1, NoneAssumption DEF IInv, OneMachine, NoneAssumption
  <2>3. \A c \in Calls : command[c] # "running"
    BY <2>1 DEF IInv, CallInv
  <2> QED
    BY <2>2, <2>3
<1> QED
  BY Invariant, <1>1, PTL

\* The shell of an answered subprocess call is dead.
THEOREM TimeoutsKill == Spec => []AnsweredProcessesAreDead
<1>1. IInv => AnsweredProcessesAreDead
  BY DEF IInv, CallInv, AnsweredProcessesAreDead
<1> QED
  BY Invariant, <1>1, PTL

-----------------------------------------------------------------------------
ToldOf(pc, r) == IF pc = "answered" THEN r
                 ELSE IF pc \in {"raised", "cancelled"} THEN "raised" ELSE "none"

LEMMA ToldIs == told = [c \in Calls |-> ToldOf(call[c], result[c])]
BY DEF told, ToldOf

\* The view of the callers when call c moves on to pc.
LEMMA ToldAfter ==
    ASSUME TypeOK, NEW c \in Calls, NEW pc, NEW r, Goto(c, pc),
           result' = [result EXCEPT ![c] = r] \/ (result' = result /\ pc # "answered")
    PROVE  told' = [told EXCEPT ![c] = ToldOf(pc, r)]
<1>1. /\ call \in [Calls -> {"idle"} \cup Live \cup Settled] /\ call' = [call EXCEPT ![c] = pc]
      /\ result \in [Calls -> {"none", "ok", "failed"}]
  BY DEF TypeOK, Goto
<1>2. told' = [d \in Calls |-> ToldOf(call'[d], result'[d])]
  BY DEF told, ToldOf
<1>3. \A d \in Calls \ {c} : ToldOf(call'[d], result'[d]) = ToldOf(call[d], result[d])
  BY <1>1 DEF ToldOf
<1>4. ToldOf(call'[c], result'[c]) = ToldOf(pc, r)
  BY <1>1 DEF ToldOf
<1> QED
  BY <1>2, <1>3, <1>4, ToldIs

LEMMA StepKeepsContract ==
    ASSUME IInv, [Next]_vars
    PROVE  [Contract!Next]_(Contract!cvars)
<1>1. /\ TypeOK
      /\ command \in [Calls -> {"none", "running", "zero", "nonzero", "killed"}]
      /\ \A c \in Calls : CallInv(c)
  BY DEF IInv, TypeOK
<1> USE DEF Contract!cvars
<1>2. ASSUME NEW c \in Calls, told[c] = "none",
             NEW pc \in {"raised", "cancelled"}, Goto(c, pc), UNCHANGED <<command, result>>
      PROVE  Contract!Next
  <2>1. told' = [told EXCEPT ![c] = "raised"]
    BY <1>1, <1>2, ToldAfter DEF ToldOf
  <2> QED
    BY <1>2, <2>1 DEF Contract!Next, Contract!Raise
<1>3. ASSUME NEW c \in Calls, told[c] = "none", NEW pc \in Live, Goto(c, pc), result' = result
      PROVE  told' = told
  <2>1. told' = [told EXCEPT ![c] = "none"]
    BY <1>1, <1>3, ToldAfter DEF ToldOf, Live
  <2> QED
    BY <1>3, <2>1, ToldIs
<1>4. \A c \in Calls : call[c] \in {"idle"} \cup Live => told[c] = "none"
  BY DEF told, Live
<1>5. ASSUME NEW c \in Calls,
             \/ Ensure(c) \/ Starts(c) \/ CommandReturns(c)
             \/ StartFails(c) \/ Refused(c) \/ SdkFails(c) \/ Cancel(c)
      PROVE  [Contract!Next]_(Contract!cvars)
  <2>1. told[c] = "none" /\ UNCHANGED <<command, result>>
    BY <1>4, <1>5 DEF Ensure, Starts, CommandReturns, StartFails, Refused, SdkFails, Cancel, Live
  <2>2. CASE Ensure(c) \/ Starts(c) \/ CommandReturns(c)
    <3>1. PICK pc \in Live : Goto(c, pc)
      BY <2>2 DEF Ensure, Starts, CommandReturns, Live
    <3> QED
      BY <1>3, <2>1, <3>1
  <2>3. CASE StartFails(c) \/ Refused(c) \/ SdkFails(c) \/ Cancel(c)
    <3>1. PICK pc \in {"raised", "cancelled"} : Goto(c, pc)
      BY <2>3 DEF StartFails, Refused, SdkFails, Cancel
    <3> QED
      BY <1>2, <2>1, <3>1
  <2> QED
    BY <1>5, <2>2, <2>3
<1>6. ASSUME NEW c \in Calls, Execute(c) \/ Spawn(c) PROVE Contract!Next
  <2>1. /\ command' = [command EXCEPT ![c] = "running"] /\ result' = result
        /\ Goto(c, "executing") /\ call[c] \in {"idle"} \cup Live
    BY <1>6 DEF Execute, Spawn, Live
  <2>2. command[c] = "none"
    BY <1>1, <1>6 DEF Execute, Spawn, CallInv
  <2>3. told[c] = "none" /\ told' = told
    BY <1>3, <1>4, <2>1, "executing" \in Live DEF Live
  <2> QED
    BY <2>1, <2>2, <2>3 DEF Contract!Next, Contract!Begin
<1>7. ASSUME NEW c \in Calls, NEW r \in {"ok", "failed"}, Answer(c, r), command' = command,
             told[c] = "none", command[c] # "none", r = "ok" => command[c] = "zero"
      PROVE  Contract!Next
  <2>1. told' = [told EXCEPT ![c] = r]
    BY <1>1, <1>7, ToldAfter DEF Answer, ToldOf
  <2> QED
    BY <1>7, <2>1 DEF Contract!Next, Contract!Succeed, Contract!Fail
<1>8. ASSUME NEW c \in Calls, Returns(c) \/ Read(c) PROVE Contract!Next
  <2>1. PICK r \in ReportedStatus(c) : Answer(c, r)
    BY <1>8 DEF Returns, Read
  <2>2. r \in {"ok", "failed"} /\ (r = "ok" => command[c] = "zero")
    BY DEF ReportedStatus
  <2>3. told[c] = "none" /\ command[c] # "none" /\ command' = command
    BY <1>1, <1>4, <1>8 DEF Returns, Read, CallInv, Live
  <2> QED
    BY <1>7, <2>1, <2>2, <2>3
<1>9. ASSUME NEW c \in Calls, VmTimeout(c) \/ Reaped(c) PROVE Contract!Next
  <2>1. /\ Answer(c, "failed") /\ command' = command
        /\ call[c] \in {"executing", "reaping"}
    BY <1>9 DEF VmTimeout, Reaped
  <2>2. told[c] = "none" /\ command[c] # "none"
    BY <1>1, <1>4, <2>1 DEF CallInv, Live
  <2> QED
    BY <1>7, <2>1, <2>2
<1>10. ASSUME NEW S \in SUBSET Calls, \A c \in S : command[c] = "running",
              command' \in [Calls -> {"none", "running", "zero", "nonzero", "killed"}],
              \A c \in Calls \ S : command'[c] = command[c],
              \A c \in S : command'[c] \in {"zero", "nonzero", "killed"}, told' = told
       PROVE  Contract!Next
  <2>1. Contract!End(S)
    BY <1>10 DEF Contract!End
  <2> QED
    BY <2>1 DEF Contract!Next
<1>11. ASSUME NEW c \in Calls, KillTimeout(c) PROVE [Contract!Next]_(Contract!cvars)
  <2>1. Goto(c, "reaping") /\ result' = result /\ call[c] \in Live
    BY <1>11 DEF KillTimeout, Live
  <2>2. told' = told
    BY <1>3, <1>4, <2>1, "reaping" \in Live DEF Live
  <2>3. CASE command[c] = "running"
    <3>1. command' = [command EXCEPT ![c] = "killed"]
      BY <1>11, <2>3 DEF KillTimeout
    <3>2. /\ command' \in [Calls -> {"none", "running", "zero", "nonzero", "killed"}]
          /\ \A d \in Calls \ {c} : command'[d] = command[d]
          /\ command'[c] = "killed"
      BY <1>1, <3>1
    <3> QED
      BY <1>10, <2>2, <2>3, <3>2, {c} \in SUBSET Calls
  <2>4. CASE command[c] # "running"
    BY <1>11, <2>2, <2>4 DEF KillTimeout
  <2> QED
    BY <2>3, <2>4
<1>12. ASSUME NEW c \in Calls, Ends(c) PROVE Contract!Next
  <2>1. PICK status \in {"zero", "nonzero"} : command' = [command EXCEPT ![c] = status]
    BY <1>12 DEF Ends
  <2>2. command[c] = "running" /\ told' = told
    BY <1>12 DEF Ends, told
  <2>3. /\ command' \in [Calls -> {"none", "running", "zero", "nonzero", "killed"}]
        /\ \A d \in Calls \ {c} : command'[d] = command[d]
        /\ command'[c] \in {"zero", "nonzero", "killed"}
    BY <1>1, <2>1
  <2> QED
    BY <1>10, <2>2, <2>3, {c} \in SUBSET Calls
<1>13. CASE Close
  <2> DEFINE S == {c \in Calls : command[c] = "running" /\ sandbox # None /\ on[c] = sandbox}
  <2>1. command' = [c \in Calls |-> IF c \in S THEN "killed" ELSE command[c]]
    BY <1>13 DEF Close
  <2>2. told' = told
    BY <1>13 DEF Close, told
  <2>3. S \in SUBSET Calls /\ \A c \in S : command[c] = "running"
    OBVIOUS
  <2> HIDE DEF S
  <2>4. /\ command' \in [Calls -> {"none", "running", "zero", "nonzero", "killed"}]
        /\ \A c \in Calls \ S : command'[c] = command[c]
        /\ \A c \in S : command'[c] \in {"zero", "nonzero", "killed"}
    BY <1>1, <2>1, <2>3
  <2> QED
    BY <1>10, <2>2, <2>3, <2>4
<1>14. ASSUME NEW c \in Calls, LetsGo(c) PROVE UNCHANGED Contract!cvars
  BY <1>14 DEF LetsGo, told
<1>15. CASE UNCHANGED vars
  BY <1>15 DEF vars, told
<1> QED
  BY <1>5, <1>6, <1>8, <1>9, <1>11, <1>12, <1>13, <1>14, <1>15 DEF Next, CallStep

\* Both adapters keep the contract of run(): one answer per call, and ok only
\* for a command that ended by itself with status 0.
THEOREM AdaptersKeepContract == Spec => KeepsContract
<1>1. Init => Contract!Init
  BY DEF Init, Contract!Init, told
<1> QED
  BY <1>1, StepKeepsContract, Invariant, PTL DEF Spec, KeepsContract, Contract!Spec
=============================================================================
