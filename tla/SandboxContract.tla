--------------------------- MODULE SandboxContract ---------------------------
(***************************************************************************)
(* What Sandbox.run promises its caller (sandbox/base.py, SandboxResult    *)
(* and Sandbox.run), whatever the adapter: a call is answered at most once *)
(* and its answer is ok only if the command ended by itself with status 0. *)
(* A failure may be reported for any command that was begun.               *)
(***************************************************************************)
CONSTANT Calls
VARIABLES command, \* what became of each call's command
          answer   \* what its caller was told

cvars == <<command, answer>>

Init ==
    /\ command = [c \in Calls |-> "none"]
    /\ answer = [c \in Calls |-> "none"]

Begin(c) ==
    /\ answer[c] = "none" /\ command[c] = "none"
    /\ command' = [command EXCEPT ![c] = "running"]
    /\ UNCHANGED answer

\* Commands end by themselves, or are killed, several at once if need be.
End(S) ==
    /\ \A c \in S : command[c] = "running"
    /\ command' \in [Calls -> {"none", "running", "zero", "nonzero", "killed"}]
    /\ \A c \in Calls \ S : command'[c] = command[c]
    /\ \A c \in S : command'[c] \in {"zero", "nonzero", "killed"}
    /\ UNCHANGED answer

Succeed(c) ==
    /\ answer[c] = "none" /\ command[c] = "zero"
    /\ answer' = [answer EXCEPT ![c] = "ok"]
    /\ UNCHANGED command

Fail(c) ==
    /\ answer[c] = "none" /\ command[c] # "none"
    /\ answer' = [answer EXCEPT ![c] = "failed"]
    /\ UNCHANGED command

Raise(c) ==
    /\ answer[c] = "none"
    /\ answer' = [answer EXCEPT ![c] = "raised"]
    /\ UNCHANGED command

Next ==
    \/ \E c \in Calls : Begin(c) \/ Succeed(c) \/ Fail(c) \/ Raise(c)
    \/ \E S \in SUBSET Calls : End(S)

Spec == Init /\ [][Next]_cvars
=============================================================================
