----------------------------- MODULE MCApproval -----------------------------
\* Three calls: a gated one, one whose predicate raises and that needs a
\* token, and one that varies with the run.
EXTENDS Approval, TLC

CONSTANTS c1, c2, c3, \* the calls
          ThirdPolicy, ThirdMalformed

MCCalls == {c1, c2, c3}
MCPolicy == c1 :> "require" @@ c2 :> "raise" @@ c3 :> ThirdPolicy
MCMalformed == IF ThirdMalformed THEN {c3} ELSE {}
MCNeedsToken == {c2}
=============================================================================
