---------------------------- MODULE TurnConsumers ----------------------------
(***************************************************************************)
(* What the consumers make of the events of one turn: the reply text       *)
(* channels, schedules and evals take from it (extract_reply of            *)
(* serving/session.py), what the terminal prints (LeveTUI._render and      *)
(* _TurnState of serving/tui.py) and the verdict of an eval that sends     *)
(* this turn's message (evals/__init__.py, evals/expect.py).               *)
(***************************************************************************)
EXTENDS AgentTurn, SequencesExt

\* Mutant of ExtractReply: only full messages count.
ExtractMessage(events) ==
    FoldLeft(LAMBDA reply, e : IF e.type = "model.message" THEN e.text ELSE reply,
             <<>>, events)

\* One event of the stream: the last full message so far and every delta joined.
Take(read, e) ==
    CASE e.type = "model.message" -> [read EXCEPT !.final = e.text]
      [] e.type = "model.delta" -> [read EXCEPT !.parts = @ \o e.text]
      [] OTHER -> read

Collected(events) == FoldLeft(Take, [final |-> <<>>, parts |-> <<>>], events)

\* Mutant of ExtractReply: the full message is the fallback.
ExtractDeltas(events) ==
    LET read == Collected(events)
    IN  IF read.parts # <<>> THEN read.parts ELSE read.final

\* The last full message, or every delta of the turn.
ExtractReply(events) ==
    LET read == Collected(events)
    IN  IF read.final # <<>> THEN read.final ELSE read.parts

\* One event on the terminal: streamed marks an open line of streamed tokens,
\* which a tool call, a request, an error or the end of the turn closes.
Render(screen, e) ==
    CASE e.type = "model.delta" ->
            [streamed |-> TRUE, shown |-> screen.shown \o e.text]
      [] e.type = "model.message" /\ ~screen.streamed ->
            [screen EXCEPT !.shown = @ \o e.text]
      [] e.type \in {"tool.call", "approval.requested", "error", "turn.end"} ->
            [screen EXCEPT !.streamed = FALSE]
      [] OTHER -> screen

Rendered(events) == FoldLeft(Render, [streamed |-> FALSE, shown |-> <<>>], events)

-----------------------------------------------------------------------------
(* Evals: EvalContext's assertions on the turn it captured *)

Ends == {out[i] : i \in OfType("turn.end")}

\* Mutant of Completed: a turn that does not pause has completed.
CompletedUnpaused == Ends # {} /\ \A e \in Ends : ~e.interrupted

Completed == Ends # {} /\ \A e \in Ends : ~e.interrupted /\ ~e.errored

NoErrors == OfType("error") = {}

CalledTool(c) == \E i \in OfType("tool.call") : out[i].tool = c

\* check(t.reply, includes(p)): the reply has piece p of the text.
Includes(p) == p \in Range(ExtractReply(out))

Assertion == [kind : {"completed", "no_errors"}]
             \cup [kind : {"called_tool"}, tool : ToolCalls]
             \cup [kind : {"includes", "excludes"}, piece : Runs \X (1 .. MaxPieces)]

Holds(a) ==
    CASE a.kind = "completed"   -> Completed
      [] a.kind = "no_errors"   -> NoErrors
      [] a.kind = "called_tool" -> CalledTool(a.tool)
      [] a.kind = "includes"    -> Includes(a.piece)
      [] a.kind = "excludes"    -> ~Includes(a.piece)

\* An eval that sends the message and makes these assertions: one that fails,
\* or any other exception, of the turn itself too, is a failed eval.
EvalPasses(asserted) == pc = "ended" /\ \A a \in asserted : Holds(a)

-----------------------------------------------------------------------------
Said(p) == p[2] <= said[p[1]]

\* Of the runs that ended with text, the i-th is the last that did not stream.
LastMessage(i) ==
    /\ spoken[i] \notin streamedRuns
    /\ \A j \in DOMAIN spoken : j > i => spoken[j] \in streamedRuns

\* "Prefer the full message": the reply is the whole text of the last run that
\* did not stream, however many runs spoke, and nothing of any other; what was
\* said before it, and every streamed token, is not in the reply.
MessageIsPreferred ==
    pc = "ended" =>
        \A i \in DOMAIN spoken :
            LastMessage(i) => ExtractReply(out) = Text(spoken[i], said[spoken[i]])

\* "And fall back to joined deltas": when all runs that ended with text have
\* streamed it, the reply is all that was said in the turn, also by a run that
\* an error cut off, each piece once and those of one run in their order.
DeltasAreJoined ==
    pc = "ended" /\ Range(spoken) \subseteq streamedRuns =>
        LET reply == ExtractReply(out)
        IN  /\ Range(reply) = {p \in Runs \X (1 .. MaxPieces) : Said(p)}
            /\ \A i, j \in DOMAIN reply :
                  i < j /\ reply[i][1] = reply[j][1] => reply[i][2] < reply[j][2]

\* A reply is one whole text or all of them, as extract_reply's docstring has
\* it, however the provider and parallel runs have split them into events.
RepliesAreWhole == MessageIsPreferred /\ DeltasAreJoined

\* The terminal never prints a piece of text twice.
NothingPrintedTwice ==
    LET shown == Rendered(out).shown
    IN  \A i, j \in DOMAIN shown : shown[i] = shown[j] => i = j

\* What an eval certifies of the turn is so (the deploy gate): "completed" that
\* the graph ran to its end, nothing raised and nothing waits for a human;
\* "called_tool" that the tool was started; "includes" that the agent said it
\* and, of a completed turn of one model run, "excludes" that it did not.  And
\* a turn that went well passes.
VerdictsAreEarned ==
    LET Passes(a) == EvalPasses({a})
        completed == [kind |-> "completed"]
        wentWell == paused = {} /\ ~errored
    IN  /\ Passes(completed) =>
              /\ wentWell
              /\ \A r \in Runs : run[r] # "open"
              /\ \A c \in ToolCalls : call[c] # "open"
        /\ pc = "ended" /\ wentWell => EvalPasses({completed, [kind |-> "no_errors"]})
        /\ \A a \in Assertion : Passes(a) =>
              /\ a.kind = "called_tool" => call[a.tool] # "idle"
              /\ a.kind = "includes" => Said(a.piece)
              /\ a.kind = "excludes" /\ Passes(completed) /\ Len(spoken) = 1
                    => ~Said(a.piece)
=============================================================================
