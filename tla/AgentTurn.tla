------------------------------ MODULE AgentTurn ------------------------------
(***************************************************************************)
(* One turn of the agent as its consumers see it: AgentRuntime._stream of  *)
(* serving/session.py with the EventNormalizer of serving/events.py.       *)
(*                                                                         *)
(* The graph (LangGraph, external) emits its events while pc = "streaming":*)
(* model runs stream pieces of text or only a final text, several may be   *)
(* open at once (subagents called in parallel), tools start and end, and   *)
(* the run ends, pauses on interrupts or raises.  The generator maps each  *)
(* event to at most one event of the stable schema and closes the turn     *)
(* with the interrupts it finds in the checkpoint.                         *)
(*                                                                         *)
(* Piece i of the text of run r is the pair <<r, i>>.                      *)
(***************************************************************************)
EXTENDS Naturals, Sequences, FiniteSets

CONSTANTS Runs,       \* run ids of the model calls of this turn
          ToolCalls,  \* run ids of its tool calls
          Interrupts, \* interrupts the graph can pause on
          MaxPieces   \* bound: pieces of text a model run produces

ASSUME PieceAssumption == MaxPieces \in Nat
ASSUME InterruptAssumption == IsFiniteSet(Interrupts)

VARIABLES
    pc,           \* where the generator stands
    run,          \* state of each model run of the graph
    streams,      \* runs whose provider streams tokens
    said,         \* pieces each run has produced so far
    spoken,       \* history: runs that ended with text, in that order
    call,         \* state of each tool call of the graph
    paused,       \* interrupts pending in the thread's checkpoint
    streamedRuns, \* self._streamed_runs
    interrupts,   \* the local list interrupts
    asked,        \* how many of them have been yielded
    errored,      \* the local errored
    out,          \* the events yielded so far
    heard         \* history: pieces of each run the events carried, in order

graph == <<run, streams, said, spoken, call>>
vars == <<pc, graph, paused, streamedRuns, interrupts, asked, errored, out, heard>>

PC == {"idle", "streaming", "checking", "ending", "ended", "broken", "cancelled"}

Text(r, n) == [i \in 1 .. n |-> <<r, i>>]

Init ==
    /\ pc = "idle"
    /\ run = [r \in Runs |-> "idle"]
    /\ streams = {}
    /\ said = [r \in Runs |-> 0]
    /\ spoken = <<>>
    /\ call = [c \in ToolCalls |-> "idle"]
    /\ paused = {}
    /\ streamedRuns = {}
    /\ interrupts = <<>>
    /\ asked = 0
    /\ errored = FALSE
    /\ out = <<>>
    /\ heard = [r \in Runs |-> <<>>]

Emit(e) == out' = Append(out, e)

-----------------------------------------------------------------------------
(* Start of the turn *)

Begin ==
    /\ pc = "idle"
    /\ pc' = "streaming"
    /\ Emit([type |-> "turn.start"])
    /\ UNCHANGED <<graph, paused, streamedRuns, interrupts, asked, errored, heard>>

\* resume() reads the pending interrupts before the stream exists: when that
\* read raises the consumer gets no event at all.
ResumeLookupFails ==
    /\ pc = "idle"
    /\ pc' = "broken"
    /\ UNCHANGED <<graph, paused, streamedRuns, interrupts, asked, errored, out, heard>>

-----------------------------------------------------------------------------
(* Events of the graph and what normalize() makes of them *)

ModelStarts(r) ==
    /\ pc = "streaming"
    /\ run[r] = "idle"
    /\ run' = [run EXCEPT ![r] = "open"]
    /\ streams' \in {streams, streams \cup {r}}
    /\ UNCHANGED <<pc, said, spoken, call, paused, streamedRuns, interrupts, asked,
                   errored, out, heard>>

\* on_chat_model_stream with text; a chunk without text is dropped and changes
\* nothing.
ModelStreams(r) ==
    /\ pc = "streaming"
    /\ run[r] = "open"
    /\ r \in streams
    /\ said[r] < MaxPieces
    /\ said' = [said EXCEPT ![r] = @ + 1]
    /\ streamedRuns' = streamedRuns \cup {r}
    /\ Emit([type |-> "model.delta", text |-> <<<<r, said[r] + 1>>>>])
    /\ heard' = [heard EXCEPT ![r] = Append(@, said[r] + 1)]
    /\ UNCHANGED <<pc, run, streams, spoken, call, paused, interrupts, asked, errored>>

\* The text a run ends with: what it streamed, or all of it at once.
FinalLength(r) == IF r \in streams THEN {said[r]} ELSE 0 .. MaxPieces

\* Mutant of Suppressed: one flag for the turn instead of one per run.
SuppressedOnceStreamed(r, n) == streamedRuns # {} \/ n = 0

\* Mutant of Suppressed: streamed runs end with their full text again.
SuppressedIfEmpty(r, n) == n = 0

\* on_chat_model_end is dropped when the run streamed or has no text.
Suppressed(r, n) == r \in streamedRuns \/ n = 0

ModelEnds(r) ==
    /\ pc = "streaming"
    /\ run[r] = "open"
    /\ run' = [run EXCEPT ![r] = "closed"]
    /\ \E n \in FinalLength(r) :
          /\ said' = [said EXCEPT ![r] = n]
          /\ spoken' = IF n = 0 THEN spoken ELSE Append(spoken, r)
          /\ IF Suppressed(r, n)
             THEN UNCHANGED <<out, heard>>
             ELSE /\ Emit([type |-> "model.message", text |-> Text(r, n)])
                  /\ heard' = [heard EXCEPT ![r] = @ \o [i \in 1 .. n |-> i]]
    /\ UNCHANGED <<pc, streams, call, paused, streamedRuns, interrupts, asked, errored>>

ToolStarts(c) ==
    /\ pc = "streaming"
    /\ call[c] = "idle"
    /\ call' = [call EXCEPT ![c] = "open"]
    /\ Emit([type |-> "tool.call", tool |-> c])
    /\ UNCHANGED <<pc, run, streams, said, spoken, paused, streamedRuns, interrupts,
                   asked, errored, heard>>

\* on_tool_end is mapped; on_tool_error (the tool raised, or paused on a
\* consent) is not one of the mapped kinds.
ToolEnds(c) ==
    /\ pc = "streaming"
    /\ call[c] = "open"
    /\ call' = [call EXCEPT ![c] = "closed"]
    /\ \/ Emit([type |-> "tool.result", tool |-> c])
       \/ UNCHANGED out
    /\ UNCHANGED <<pc, run, streams, said, spoken, paused, streamedRuns, interrupts,
                   asked, errored, heard>>

\* The run is over, or every branch of it waits on an interrupt.
GraphEnds ==
    /\ pc = "streaming"
    /\ \A r \in Runs : run[r] # "open"
    /\ \A c \in ToolCalls : call[c] # "open"
    /\ paused' \in SUBSET Interrupts
    /\ pc' = "checking"
    /\ UNCHANGED <<graph, streamedRuns, interrupts, asked, errored, out, heard>>

\* The graph raises, whatever is open; a parallel branch may already be paused.
\* The exception becomes an event and the interrupts are not looked up.
GraphFails ==
    /\ pc = "streaming"
    /\ paused' \in SUBSET Interrupts
    /\ errored' = TRUE
    /\ pc' = "ending"
    /\ Emit([type |-> "error"])
    /\ UNCHANGED <<graph, streamedRuns, interrupts, asked, heard>>

-----------------------------------------------------------------------------
(* End of the turn *)

Listings(S) ==
    {s \in [1 .. Cardinality(S) -> S] :
        \A i, j \in 1 .. Cardinality(S) : s[i] = s[j] => i = j}

\* Mutant of CheckInterrupts: only the last of several interrupts is kept.
CheckLastInterrupt ==
    /\ pc = "checking"
    /\ interrupts' \in {<<>>} \cup {<<i>> : i \in paused}
    /\ pc' = "ending"
    /\ UNCHANGED <<graph, paused, streamedRuns, asked, errored, out, heard>>

CheckInterrupts ==
    /\ pc = "checking"
    /\ interrupts' \in Listings(paused)
    /\ pc' = "ending"
    /\ UNCHANGED <<graph, paused, streamedRuns, asked, errored, out, heard>>

\* The lookup stands outside the try block: when it raises the generator dies
\* without a turn.end.
CheckFails ==
    /\ pc = "checking"
    /\ pc' = "broken"
    /\ UNCHANGED <<graph, paused, streamedRuns, interrupts, asked, errored, out, heard>>

RequestApproval ==
    /\ pc = "ending"
    /\ asked < Len(interrupts)
    /\ asked' = asked + 1
    /\ Emit([type |-> "approval.requested", interrupt |-> interrupts[asked + 1]])
    /\ UNCHANGED <<pc, graph, paused, streamedRuns, interrupts, errored, heard>>

EndTurn ==
    /\ pc = "ending"
    /\ asked = Len(interrupts)
    /\ pc' = "ended"
    /\ Emit([type |-> "turn.end", interrupted |-> interrupts # <<>>, errored |-> errored])
    /\ UNCHANGED <<graph, paused, streamedRuns, interrupts, asked, errored, heard>>

\* The consumer's task is cancelled where the generator is suspended:
\* CancelledError is no Exception, so nothing more is yielded.
Cancel ==
    /\ pc \in {"idle", "streaming", "checking", "ending"}
    /\ pc' = "cancelled"
    /\ UNCHANGED <<graph, paused, streamedRuns, interrupts, asked, errored, out, heard>>

GraphStep ==
    \/ \E r \in Runs : ModelStarts(r) \/ ModelStreams(r) \/ ModelEnds(r)
    \/ \E c \in ToolCalls : ToolStarts(c) \/ ToolEnds(c)
    \/ GraphEnds \/ GraphFails

Next ==
    \/ Begin \/ ResumeLookupFails
    \/ GraphStep
    \/ CheckInterrupts \/ CheckFails \/ RequestApproval \/ EndTurn
    \/ Cancel

Spec == Init /\ [][Next]_vars

-----------------------------------------------------------------------------
TypeOK ==
    /\ pc \in PC
    /\ run \in [Runs -> {"idle", "open", "closed"}]
    /\ streams \subseteq Runs
    /\ said \in [Runs -> 0 .. MaxPieces]
    /\ spoken \in Seq(Runs)
    /\ call \in [ToolCalls -> {"idle", "open", "closed"}]
    /\ paused \subseteq Interrupts
    /\ streamedRuns \subseteq Runs
    /\ interrupts \in Seq(Interrupts)
    /\ asked \in 0 .. Len(interrupts)
    /\ errored \in BOOLEAN
    /\ heard \in [Runs -> Seq(Nat)]

\* A consumer that concatenates deltas and messages has every model run's text
\* exactly once and in order: all of an ended run, all so far of a streaming
\* one, however the runs of parallel subagents interleave.
TextOnce ==
    \A r \in Runs :
        heard[r] = [i \in 1 .. (IF run[r] = "closed" \/ r \in streams THEN said[r] ELSE 0) |-> i]

OfType(type) == {i \in DOMAIN out : out[i].type = type}

\* turn.end is the last event and tells the truth: the turn is "interrupted"
\* exactly when approvals were requested, "errored" exactly when an error was
\* reported, never both; unless it errored it asked for every interrupt
\* pending in the checkpoint, each once.
TurnEndIsTruthful ==
    LET asks == OfType("approval.requested") IN
    /\ OfType("turn.end") # {} <=> pc = "ended"
    /\ pc = "ended" =>
          LET end == out[Len(out)] IN
          /\ OfType("turn.end") = {Len(out)}
          /\ end.interrupted <=> asks # {}
          /\ end.errored <=> OfType("error") # {}
          /\ ~(end.interrupted /\ end.errored)
          /\ ~end.errored =>
                /\ {out[i].interrupt : i \in asks} = paused
                /\ Cardinality(asks) = Cardinality(paused)
=============================================================================
