---------------------------- MODULE Conversations ----------------------------
(***************************************************************************)
(* What the server promises to whoever sends it work.  A session takes one *)
(* turn at a time and refuses another.  The messages of a conversation are *)
(* run one at a time, each at most once, in the order they came; one that  *)
(* is dropped holds up none of the others.  Nothing goes on when the       *)
(* process has ended, and what a process did not do its successor does not *)
(* do either.  SessionManager implements this with two tables of tasks, a  *)
(* lock per key and asyncio's queues; ChannelIngress relies on no more.    *)
(***************************************************************************)
CONSTANTS HttpThreads, \* sessions
          Turns,       \* the turns clients may ask for
          Messages,    \* the messages platforms may send
          KeyOf,       \* the conversation of a message
          None

VARIABLES up,      \* the process runs
          turns,   \* what became of each turn
          session, \* the session it was started on
          work,    \* what became of each message
          ahead    \* <<m, n>>: both wait in one conversation and m came first

vars == <<up, turns, session, work, ahead>>

Init ==
    /\ up = TRUE
    /\ turns = [t \in Turns |-> "new"]
    /\ session = [t \in Turns |-> None]
    /\ work = [m \in Messages |-> "new"]
    /\ ahead = {}

Start(t, h) ==
    /\ up
    /\ turns[t] = "new"
    /\ \A u \in Turns : turns[u] = "live" => session[u] # h
    /\ turns' = [turns EXCEPT ![t] = "live"]
    /\ session' = [session EXCEPT ![t] = h]
    /\ UNCHANGED <<up, work, ahead>>

End(t) ==
    /\ up
    /\ turns[t] = "live"
    /\ turns' = [turns EXCEPT ![t] = "over"]
    /\ UNCHANGED <<up, session, work, ahead>>

Waiting(m) == work[m] = "waiting"

Arrive(m) ==
    /\ up
    /\ work[m] = "new"
    /\ work' = [work EXCEPT ![m] = "waiting"]
    /\ ahead' = ahead \cup {<<w, m>> : w \in {n \in Messages : Waiting(n) /\ KeyOf[n] = KeyOf[m]}}
    /\ UNCHANGED <<up, turns, session>>

Leaves(m) == ahead' = {p \in ahead : p[1] # m /\ p[2] # m}

Run(m) ==
    /\ up
    /\ Waiting(m)
    /\ \A n \in Messages : <<n, m>> \notin ahead
    /\ \A n \in Messages : KeyOf[n] = KeyOf[m] => work[n] # "running"
    /\ work' = [work EXCEPT ![m] = "running"]
    /\ Leaves(m)
    /\ UNCHANGED <<up, turns, session>>

\* A message has been run, or is dropped by a shutdown.
Finish(m) ==
    /\ up
    /\ work[m] \in {"waiting", "running"}
    /\ work' = [work EXCEPT ![m] = "over"]
    /\ Leaves(m)
    /\ UNCHANGED <<up, turns, session>>

\* The process ends, and with it all it was doing.
Stop ==
    /\ up /\ up' = FALSE
    /\ turns' = [t \in Turns |-> IF turns[t] = "live" THEN "over" ELSE turns[t]]
    /\ work' = [m \in Messages |-> IF work[m] = "new" THEN "new" ELSE "over"]
    /\ ahead' = {}
    /\ UNCHANGED session

Resume ==
    /\ ~up /\ up' = TRUE
    /\ UNCHANGED <<turns, session, work, ahead>>

Next ==
    \/ \E t \in Turns, h \in HttpThreads : Start(t, h)
    \/ \E t \in Turns : End(t)
    \/ \E m \in Messages : Arrive(m) \/ Run(m) \/ Finish(m)
    \/ Stop \/ Resume

Spec == Init /\ [][Next]_vars
=============================================================================
