-------------------------- MODULE MCSessionManager --------------------------
\* Two HTTP turns on one session and three channel messages of one
\* conversation (a holder and two waiters).
EXTENDS SessionManager, TLC

CONSTANTS h1, c1, t1, t2, m1, m2, m3

OneKey == [m \in Messages |-> c1]

\* Turns and the messages of OneKey differ by their names only: it is enough to
\* follow the behaviours that use the names in order.
NamesInOrder ==
    /\ \A t \in Turns \ {t1} : turn'[t] # "unused" => turn'[t1] # "unused"
    /\ \A m \in Messages \ {m1} : message'[m] # "new" => message'[m1] # "new"
    /\ \A m \in Messages \ {m1, m2} : message'[m] # "new" => message'[m2] # "new"

OrderedSpec ==
    /\ Init /\ [][Next /\ NamesInOrder]_vars
    /\ Fairness
=============================================================================
