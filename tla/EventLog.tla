------------------------------ MODULE EventLog ------------------------------
(***************************************************************************)
(* What one turn's event stream promises to those who watch it: an         *)
(* append-only log with one writer, that is sealed once, and any number of *)
(* readers.  A reader may attach at any time, before, during or after the  *)
(* writing; it reads the whole log from its first event, in order, one     *)
(* event at a time, and finishes only when the log is sealed and read to   *)
(* its end.  SessionBroker implements this with a buffer, batches and a    *)
(* condition variable.                                                     *)
(***************************************************************************)
EXTENDS Naturals, Sequences

CONSTANTS Readers,    \* those who may watch the turn
          Event,      \* the events a turn may emit
          MaxEvents   \* bound: events in one turn

VARIABLES log,        \* the events written so far
          sealed,     \* no further event will be written
          received,   \* what each reader has been given
          reader      \* where each reader is in its life

vars == <<log, sealed, received, reader>>

ReaderState == {"absent", "reading", "finished", "gone"}

Init ==
    /\ log = <<>>
    /\ sealed = FALSE
    /\ received = [r \in Readers |-> <<>>]
    /\ reader = [r \in Readers |-> "absent"]

Write(e) ==
    /\ ~sealed
    /\ Len(log) < MaxEvents
    /\ log' = Append(log, e)
    /\ UNCHANGED <<sealed, received, reader>>

Seal ==
    /\ ~sealed
    /\ sealed' = TRUE
    /\ UNCHANGED <<log, received, reader>>

Attach(r) ==
    /\ reader[r] = "absent"
    /\ reader' = [reader EXCEPT ![r] = "reading"]
    /\ UNCHANGED <<log, sealed, received>>

Read(r) ==
    /\ reader[r] = "reading"
    /\ Len(received[r]) < Len(log)
    /\ received' = [received EXCEPT ![r] = Append(@, log[Len(@) + 1])]
    /\ UNCHANGED <<log, sealed, reader>>

Finish(r) ==
    /\ reader[r] = "reading"
    /\ sealed
    /\ received[r] = log
    /\ reader' = [reader EXCEPT ![r] = "finished"]
    /\ UNCHANGED <<log, sealed, received>>

Leave(r) ==
    /\ reader[r] = "reading"
    /\ reader' = [reader EXCEPT ![r] = "gone"]
    /\ UNCHANGED <<log, sealed, received>>

Next ==
    \/ \E e \in Event : Write(e)
    \/ Seal
    \/ \E r \in Readers : Attach(r) \/ Read(r) \/ Finish(r) \/ Leave(r)

Spec == Init /\ [][Next]_vars

\* A reader that stays is never starved: what was written reaches it, and a
\* sealed log lets it go.
FairSpec ==
    /\ Spec
    /\ \A r \in Readers : WF_vars(Read(r)) /\ WF_vars(Finish(r))
=============================================================================
