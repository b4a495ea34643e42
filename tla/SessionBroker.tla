---------------------------- MODULE SessionBroker ----------------------------
(***************************************************************************)
(* One turn's event fan-out, class SessionBroker of serving/server.py: a   *)
(* buffer of events, a closed flag and an asyncio.Condition.  The turn's   *)
(* runner publishes events and closes the broker; every HTTP response that *)
(* watches the turn iterates a subscribe() generator of its own.           *)
(*                                                                         *)
(* asyncio runs one task until it awaits something that is not ready.  The *)
(* condition's lock is released by wait() and is never held across another *)
(* suspension, so it is free whenever a task runs: each `async with`       *)
(* section is one step, and the places where a subscriber can be overtaken *)
(* are the parked wait (pc = "parked") and each yield (pc = "yielding").   *)
(***************************************************************************)
EXTENDS Naturals, Sequences

CONSTANTS Subscribers, \* the responses that may watch this turn
          Event,       \* payloads of the events
          MaxEvents    \* bound: events a turn publishes

ASSUME BoundAssumption == MaxEvents \in Nat

VARIABLES events,      \* self._events
          closed,      \* self._closed
          pc,          \* where each subscribe() generator is suspended
          idx,         \* its local idx
          batch,       \* the rest of its local batch, still to be yielded
          done,        \* its local done
          received     \* history: what the response was given, in order

buffer == <<events, closed>>
generator == <<idx, batch, done>>
vars == <<events, closed, pc, idx, batch, done, received>>

\* "detached": no generator yet;  "check": about to test the predicate of
\* wait_for (first entry, next turn of the loop, or woken by notify_all);
\* "parked": in Condition.wait;  "yielding": in the for loop over the batch.
PC == {"detached", "check", "parked", "yielding", "returned", "cancelled"}

Init ==
    /\ events = <<>>
    /\ closed = FALSE
    /\ pc = [s \in Subscribers |-> "detached"]
    /\ idx = [s \in Subscribers |-> 0]
    /\ batch = [s \in Subscribers |-> <<>>]
    /\ done = [s \in Subscribers |-> FALSE]
    /\ received = [s \in Subscribers |-> <<>>]

\* self._cond.notify_all()
NotifyAll ==
    pc' = [s \in Subscribers |-> IF pc[s] = "parked" THEN "check" ELSE pc[s]]

\* The only publisher is the runner of SessionManager.start, which closes the
\* broker in its finally clause: nothing is published after that.
Publish(e) ==
    /\ ~closed
    /\ Len(events) < MaxEvents
    /\ events' = Append(events, e)
    /\ NotifyAll
    /\ UNCHANGED <<closed, generator, received>>

\* Mutant of Close: the flag is set without notify_all.
CloseSilently ==
    /\ ~closed
    /\ closed' = TRUE
    /\ UNCHANGED <<events, pc, generator, received>>

Close ==
    /\ ~closed
    /\ closed' = TRUE
    /\ NotifyAll
    /\ UNCHANGED <<events, generator, received>>

\* Mutant of Subscribe: a late subscriber starts at the live end.
SubscribeLive(s) ==
    /\ pc[s] = "detached"
    /\ pc' = [pc EXCEPT ![s] = "check"]
    /\ idx' = [idx EXCEPT ![s] = Len(events)]
    /\ UNCHANGED <<buffer, batch, done, received>>

Subscribe(s) ==
    /\ pc[s] = "detached"
    /\ pc' = [pc EXCEPT ![s] = "check"]
    /\ UNCHANGED <<buffer, generator, received>>

\* The predicate handed to wait_for.
Ready(s) == idx[s] < Len(events) \/ closed

Park(s) ==
    /\ pc[s] = "check"
    /\ ~Ready(s)
    /\ pc' = [pc EXCEPT ![s] = "parked"]
    /\ UNCHANGED <<buffer, generator, received>>

\* Mutant of TakeBatch: the cursor advances by one, whatever the batch holds.
TakeBatchByOne(s) ==
    /\ pc[s] = "check"
    /\ Ready(s)
    /\ batch' = [batch EXCEPT ![s] = SubSeq(events, idx[s] + 1, Len(events))]
    /\ idx' = [idx EXCEPT ![s] = IF @ < Len(events) THEN @ + 1 ELSE @]
    /\ done' = [done EXCEPT ![s] = closed /\ idx'[s] >= Len(events)]
    /\ pc' = [pc EXCEPT ![s] = "yielding"]
    /\ UNCHANGED <<buffer, received>>

TakeBatch(s) ==
    /\ pc[s] = "check"
    /\ Ready(s)
    /\ batch' = [batch EXCEPT ![s] = SubSeq(events, idx[s] + 1, Len(events))]
    /\ idx' = [idx EXCEPT ![s] = Len(events)]
    /\ done' = [done EXCEPT ![s] = closed]
    /\ pc' = [pc EXCEPT ![s] = "yielding"]
    /\ UNCHANGED <<buffer, received>>

Yield(s) ==
    /\ pc[s] = "yielding"
    /\ batch[s] # <<>>
    /\ received' = [received EXCEPT ![s] = Append(@, Head(batch[s]))]
    /\ batch' = [batch EXCEPT ![s] = Tail(@)]
    /\ UNCHANGED <<buffer, pc, idx, done>>

\* Mutant of EndBatch: tests closed after the yields instead of the flag
\* computed with the batch.
EndBatchIfClosed(s) ==
    /\ pc[s] = "yielding"
    /\ batch[s] = <<>>
    /\ pc' = [pc EXCEPT ![s] = IF closed THEN "returned" ELSE "check"]
    /\ UNCHANGED <<buffer, generator, received>>

\* The for loop is exhausted: return when done, else wait for the next batch.
EndBatch(s) ==
    /\ pc[s] = "yielding"
    /\ batch[s] = <<>>
    /\ pc' = [pc EXCEPT ![s] = IF done[s] THEN "returned" ELSE "check"]
    /\ UNCHANGED <<buffer, generator, received>>

\* The client disconnects: the response closes the generator where it is
\* suspended.
Disconnect(s) ==
    /\ pc[s] \in {"check", "parked", "yielding"}
    /\ pc' = [pc EXCEPT ![s] = "cancelled"]
    /\ UNCHANGED <<buffer, generator, received>>

Iterate(s) == Park(s) \/ TakeBatch(s) \/ Yield(s) \/ EndBatch(s)

Next ==
    \/ \E e \in Event : Publish(e)
    \/ Close
    \/ \E s \in Subscribers : Subscribe(s) \/ Iterate(s) \/ Disconnect(s)

Spec == Init /\ [][Next]_vars

\* The event loop resumes every task that is ready, and the server keeps
\* asking the generator of an open response for its next event.
FairSpec == Spec /\ \A s \in Subscribers : WF_vars(Iterate(s))

-----------------------------------------------------------------------------
TypeOK ==
    /\ events \in Seq(Event)
    /\ Len(events) <= MaxEvents
    /\ closed \in BOOLEAN
    /\ pc \in [Subscribers -> PC]
    /\ idx \in [Subscribers -> Nat]
    /\ batch \in [Subscribers -> Seq(Event)]
    /\ done \in [Subscribers -> BOOLEAN]
    /\ received \in [Subscribers -> Seq(Event)]

\* What a subscriber was given and what it still holds in its batch is the
\* buffer up to its cursor: it misses no event, repeats none and sees them in
\* the order of publication, wherever it attached and however the runner's
\* publishing falls between its batches.
CursorIsExact ==
    \A s \in Subscribers :
        received[s] \o batch[s] = SubSeq(events, 1, idx[s])

\* No lost wake-up: a subscriber parked on the condition has nothing to read
\* and the broker is still open, so a later publish or close will wake it.
NoLostWakeup ==
    \A s \in Subscribers : pc[s] = "parked" => ~Ready(s)

\* A response ends by itself only after the turn ended and only with the whole
\* transcript: events published between its last batch and the close count.
EndsComplete ==
    \A s \in Subscribers : pc[s] = "returned" => closed /\ received[s] = events

\* What a watcher is shown is at every moment a prefix of the turn, and when
\* its response ends by itself, all of it.
TranscriptIsExact == CursorIsExact /\ EndsComplete

\* Once the runner has closed the broker every open response terminates.
ClosedReleasesEveryone ==
    \A s \in Subscribers :
        closed /\ pc[s] # "detached" ~> pc[s] \in {"returned", "cancelled"}

-----------------------------------------------------------------------------
\* Refinement: where a generator is suspended tells where its reader is.
ReaderOf(p) ==
    CASE p = "detached"  -> "absent"
      [] p = "returned"  -> "finished"
      [] p = "cancelled" -> "gone"
      [] OTHER           -> "reading"

Log == INSTANCE EventLog
       WITH Readers <- Subscribers, log <- events, sealed <- closed,
            reader <- [s \in Subscribers |-> ReaderOf(pc[s])]

\* The broker implements the event log: batching, parking and waking are
\* invisible, and no reader that stays is starved.
ImplementsEventLog == Log!FairSpec
=============================================================================
