------------------------------ MODULE Approval ------------------------------
(***************************************************************************)
(* Human-in-the-loop on one thread: the gate and the consent pause around  *)
(* each tool call (ApprovalMiddleware inside PrincipalMiddleware,          *)
(* core/middleware.py) and the command a resume is turned into             *)
(* (AgentRuntime._build_resume_command, serving/session.py).               *)
(*                                                                         *)
(* External, LangGraph: each tool call of a model answer is a task of its  *)
(* own; interrupt() returns the task's stored answers by position, then    *)
(* takes a bare resume value if one is left, else pauses the task and      *)
(* stores the answers it had; a resumed run re-runs every unfinished task  *)
(* from its start; finished tasks are not re-run; a new message abandons   *)
(* unfinished ones.  A thread runs one turn at a time (SessionManager).    *)
(***************************************************************************)
EXTENDS Naturals, Sequences

CONSTANTS
    Calls,      \* tool calls the model may make on this thread
    Policy,     \* needs_approval for each: none declared, or what it returns
    Malformed,  \* calls whose arguments the input schema rejects
    NeedsToken, \* calls whose tool asks the broker for a token
    None,
    MaxTurns    \* bound: turns on the thread

ASSUME PolicyAssumption == Policy \in [Calls -> {"none", "waive", "require", "raise"}]
ASSUME CallAssumption == Malformed \subseteq Calls /\ NeedsToken \subseteq Calls
ASSUME TurnAssumption == MaxTurns \in Nat

\* A resume value: a map from interrupt ids to decisions (ids, of which yes
\* are approvals), or with no ids one decision, {"approved": ok} or a bool.
Answer == {a \in [ids : SUBSET Calls, yes : SUBSET Calls, ok : BOOLEAN] :
              /\ a.yes \subseteq a.ids
              /\ a.ids # {} => ~a.ok}

ASSUME NoneAssumption ==
    None \notin Answer /\ None \notin {"approval", "consent", "yes", "no"}

VARIABLES
    live,      \* a turn is running
    stage,     \* the node the thread's checkpoint stands before
    call,      \* state of each tool call
    ask,       \* the interrupt each task has pending in the checkpoint
    saved,     \* the answers stored with it
    given,     \* the answers a task has in this run
    bare,      \* the run's resume value no interrupt() has taken yet
    parked,    \* tasks that paused in this run
    granted,   \* the broker holds the caller's token
    turns,
    verdict,   \* history: the human's last decision on each call's approval
    partial    \* history: calls answered by a map that left a pending call out

thread == <<stage, call, ask, saved>>
turn == <<live, given, bare, parked>>
history == <<verdict, partial>>
vars == <<thread, turn, granted, turns, history>>

Init ==
    /\ live = FALSE
    /\ stage = "finished"
    /\ call = [c \in Calls |-> "none"]
    /\ ask = [c \in Calls |-> None]
    /\ saved = [c \in Calls |-> <<>>]
    /\ given = [c \in Calls |-> <<>>]
    /\ bare = None
    /\ parked = {}
    /\ granted = FALSE
    /\ turns = 0
    /\ verdict = [c \in Calls |-> None]
    /\ partial = {}

Unfinished == {c \in Calls : call[c] \in {"open", "calling"}}
Pending == {c \in Unfinished : ask[c] # None}

-----------------------------------------------------------------------------
(* Turns *)

\* runtime.run: a human message abandons what the thread was waiting for.
SendMessage ==
    /\ ~live
    /\ turns < MaxTurns
    /\ live' = TRUE
    /\ turns' = turns + 1
    /\ stage' = "model"
    /\ call' = [c \in Calls |-> IF c \in Unfinished THEN "dropped" ELSE call[c]]
    /\ given' = saved
    /\ bare' = None
    /\ parked' = {}
    /\ UNCHANGED <<ask, saved, granted, verdict, partial>>

Flag(b) == [ids |-> {}, yes |-> {}, ok |-> b]

\* LangGraph's Command(resume=v): a map answers the interrupts it names, any
\* other value is handed to the first interrupt() that has no answer.
Command(v) ==
    IF v.ids = {} THEN [bare |-> v, to |-> [c \in {} |-> v]]
                  ELSE [bare |-> None, to |-> [c \in v.ids |-> Flag(c \in v.yes)]]

AtMostOne(S) == \A c, d \in S : c = d

\* Mutant of BuildResumeCommand: the superset test is strict.
BuildStrictCommand(v, pending) ==
    IF AtMostOne(pending) \/ (pending \subseteq v.ids /\ pending # v.ids)
    THEN Command(v)
    ELSE [bare |-> None, to |-> [c \in pending |-> v]]

\* _build_resume_command: pass the value on when it is for one interrupt or
\* names them all, else broadcast it as it is to every pending interrupt.
BuildResumeCommand(v, pending) ==
    IF AtMostOne(pending) \/ pending \subseteq v.ids
    THEN Command(v)
    ELSE [bare |-> None, to |-> [c \in pending |-> v]]

\* What the human decided: a single decision counts for every unfinished call
\* but those that only wait for a consent, a map for the calls it names.
Decided(v) == {c \in Unfinished : ask[c] # "consent" /\ (v.ids = {} \/ c \in v.ids)}
Says(v, c) == IF v.ok \/ c \in v.yes THEN "yes" ELSE "no"

\* runtime.resume: a map can only name interrupts that were announced.
Resume(v) ==
    LET command == BuildResumeCommand(v, Pending) IN
    /\ ~live
    /\ \A c \in v.ids : ask[c] # None
    /\ turns < MaxTurns
    /\ live' = TRUE
    /\ turns' = turns + 1
    /\ given' = [c \in Calls |-> IF c \in DOMAIN command.to
                                 THEN Append(saved[c], command.to[c]) ELSE saved[c]]
    /\ bare' = command.bare
    /\ parked' = {}
    /\ verdict' = [c \in Calls |-> IF c \in Decided(v) THEN Says(v, c) ELSE verdict[c]]
    /\ partial' = IF v.ids # {} /\ ~(Pending \subseteq v.ids)
                  THEN partial \cup Pending ELSE partial
    /\ UNCHANGED <<thread, granted>>

\* The model answers with tool calls, or with text only.
ModelCalls(S) ==
    /\ live /\ stage = "model"
    /\ S # {}
    /\ \A c \in S : call[c] = "none"
    /\ call' = [c \in Calls |-> IF c \in S THEN "open" ELSE call[c]]
    /\ stage' = "tools"
    /\ bare' = None
    /\ UNCHANGED <<live, ask, saved, given, parked, granted, turns, history>>

ModelFinishes ==
    /\ live /\ stage = "model"
    /\ stage' = "finished"
    /\ UNCHANGED <<call, ask, saved, turn, granted, turns, history>>

ToolsFinish ==
    /\ live /\ stage = "tools"
    /\ Unfinished = {}
    /\ stage' = "model"
    /\ bare' = None
    /\ UNCHANGED <<call, ask, saved, live, given, parked, granted, turns, history>>

\* The run is over, or every unfinished task of it has paused.
EndTurn ==
    /\ live
    /\ \/ stage = "finished"
       \/ stage = "tools" /\ Unfinished # {} /\ Unfinished \subseteq parked
    /\ live' = FALSE
    /\ UNCHANGED <<thread, given, bare, parked, granted, turns, history>>

\* The turn stops with tasks unfinished; what they were answered in it is
\* forgotten, what was stored when they paused is not.
StopTurn ==
    /\ live' = FALSE
    /\ call' = [c \in Calls |-> IF call[c] = "calling" THEN "open" ELSE call[c]]
    /\ bare' = None
    /\ UNCHANGED <<stage, ask, saved, given, parked, granted, turns, history>>

\* The turn's task is cancelled, or the process dies.
Abort ==
    /\ live
    /\ StopTurn

-----------------------------------------------------------------------------
(* The gate: ApprovalMiddleware.awrap_tool_call *)

\* Mutant of NeedsApproval: a predicate that raises lets the call through.
NeedsApprovalFailOpen(c) == c \notin Malformed /\ Policy[c] = "require"

\* Arguments the schema rejects are not gated, the call cannot run anyway; a
\* predicate that raises asks for a review.
NeedsApproval(c) == c \notin Malformed /\ Policy[c] \in {"require", "raise"}

\* Mutant of IsApproved: the truth of the value, a non-empty dict.
IsApprovedIfTruthy(a) == TRUE

\* decision.get("approved") of a dict, or the bare boolean.
IsApproved(a) == a.ok

Runs(c) == live /\ stage = "tools" /\ c \notin parked

PassGate(c) ==
    /\ Runs(c) /\ call[c] = "open"
    /\ ~NeedsApproval(c)
    /\ call' = [call EXCEPT ![c] = "calling"]
    /\ UNCHANGED <<stage, ask, saved, turn, granted, turns, history>>

\* The decision lets the call through to its handler or answers it instead.
Enter(c, decision) ==
    call' = [call EXCEPT ![c] = IF IsApproved(decision) THEN "calling" ELSE "denied"]

\* interrupt() returns an answer: the stored one, or the bare resume value.
Decide(c) ==
    /\ Runs(c) /\ call[c] = "open"
    /\ NeedsApproval(c)
    /\ \/ /\ given[c] # <<>>
          /\ Enter(c, Head(given[c]))
          /\ UNCHANGED <<given, bare>>
       \/ /\ given[c] = <<>> /\ bare # None
          /\ Enter(c, bare)
          /\ given' = [given EXCEPT ![c] = <<bare>>]
          /\ bare' = None
    /\ UNCHANGED <<stage, ask, saved, live, parked, granted, turns, history>>

\* interrupt() pauses the task and stores the answers it had.
Pause(c, kind) ==
    /\ parked' = parked \cup {c}
    /\ call' = [call EXCEPT ![c] = "open"]
    /\ ask' = [ask EXCEPT ![c] = kind]
    /\ saved' = [saved EXCEPT ![c] = given[c]]
    /\ UNCHANGED <<live, stage, given, bare, granted, turns, history>>

AskApproval(c) ==
    /\ Runs(c) /\ call[c] = "open"
    /\ NeedsApproval(c)
    /\ given[c] = <<>> /\ bare = None
    /\ Pause(c, "approval")

-----------------------------------------------------------------------------
(* The tool call: PrincipalMiddleware.awrap_tool_call around the handler *)

LacksToken(c) == c \notin Malformed /\ c \in NeedsToken /\ ~granted

\* The interrupts that come before the consent one.
Gates(c) == IF NeedsApproval(c) THEN 1 ELSE 0

Finish(c) ==
    /\ Runs(c) /\ call[c] = "calling"
    /\ ~LacksToken(c)
    /\ call' = [call EXCEPT ![c] = IF c \in Malformed THEN "rejected" ELSE "executed"]
    /\ UNCHANGED <<stage, ask, saved, turn, granted, turns, history>>

AskConsent(c) ==
    /\ Runs(c) /\ call[c] = "calling"
    /\ LacksToken(c)
    /\ Len(given[c]) <= Gates(c) /\ bare = None
    /\ Pause(c, "consent")

\* interrupt() returns an answer instead of pausing.
ConsentIsAnswered(c) ==
    /\ Runs(c) /\ call[c] = "calling"
    /\ LacksToken(c)
    /\ Len(given[c]) > Gates(c) \/ bare # None

\* NeedsConsent is raised again and fails the turn.
ReRaise(c) == ConsentIsAnswered(c) /\ StopTurn

\* Any other exception of the tool fails the turn too.
ToolRaises(c) ==
    /\ Runs(c) /\ call[c] = "calling"
    /\ c \notin Malformed
    /\ StopTurn

\* The user authorizes the provider and the broker stores the token.
Grant ==
    /\ ~granted
    /\ granted' = TRUE
    /\ UNCHANGED <<thread, turn, turns, history>>

Next ==
    \/ SendMessage \/ \E v \in Answer : Resume(v)
    \/ \E S \in SUBSET Calls : ModelCalls(S)
    \/ ModelFinishes \/ ToolsFinish \/ EndTurn \/ Abort
    \/ \E c \in Calls : PassGate(c) \/ Decide(c) \/ AskApproval(c)
    \/ \E c \in Calls : Finish(c) \/ AskConsent(c) \/ ReRaise(c) \/ ToolRaises(c)
    \/ Grant

Spec == Init /\ [][Next]_vars

-----------------------------------------------------------------------------
TypeOK ==
    /\ live \in BOOLEAN
    /\ stage \in {"model", "tools", "finished"}
    /\ call \in [Calls -> {"none", "open", "calling", "executed", "denied",
                           "rejected", "dropped"}]
    /\ ask \in [Calls -> {None, "approval", "consent"}]
    /\ saved \in [Calls -> Seq(Answer)]
    /\ given \in [Calls -> Seq(Answer)]
    /\ bare \in Answer \cup {None}
    /\ parked \subseteq Calls
    /\ granted \in BOOLEAN
    /\ turns \in 0 .. MaxTurns
    /\ verdict \in [Calls -> {None, "yes", "no"}]
    /\ partial \subseteq Calls

\* A call whose predicate asks for a review, or raises, runs only if the last
\* thing the human decided about it was to approve it: through any series of
\* pauses, consents, failures, aborted turns and repeated resumes, and never
\* with an approval given before the model made the call.
GateHolds ==
    \A c \in Calls :
        call[c] = "executed" /\ Policy[c] \in {"require", "raise"} => verdict[c] = "yes"

\* A call is refused only if the human refused it, or answered several pending
\* interrupts with a map that left one of them out.
DenialsExplained ==
    \A c \in Calls : call[c] = "denied" => verdict[c] = "no" \/ c \in partial

\* Docstring of resume: an id map answers pending interrupts individually, so
\* a refused call is one the human refused.
DenialsAreRefusals ==
    \A c \in Calls : call[c] = "denied" => verdict[c] = "no"
=============================================================================
