--------------------------- MODULE ApprovalProofs ---------------------------
(***************************************************************************)
(* Proofs about Approval: its types, that a gated tool call runs only      *)
(* after the human's approval of it, and what accounts for every refusal.  *)
(***************************************************************************)
EXTENDS Approval, SequenceTheorems, TLAPS

USE PolicyAssumption, CallAssumption, TurnAssumption, NoneAssumption
    DEF PolicyAssumption, CallAssumption, TurnAssumption, NoneAssumption

-----------------------------------------------------------------------------
(* The resume command *)

\* A single decision is an answer.
LEMMA FlagIsAnswer ==
    ASSUME NEW b \in BOOLEAN
    PROVE  Flag(b) \in Answer
BY DEF Flag, Answer

\* Whatever the value, the command hands out answers only, to pending calls or
\* to calls the value names.
LEMMA CommandTyped ==
    ASSUME NEW v \in Answer, NEW pending \in SUBSET Calls
    PROVE  LET command == BuildResumeCommand(v, pending) IN
           /\ command.bare \in Answer \cup {None}
           /\ DOMAIN command.to \subseteq pending \cup v.ids
           /\ \A c \in DOMAIN command.to : command.to[c] \in Answer
<1> DEFINE command == BuildResumeCommand(v, pending)
<1>1. CASE v.ids = {} /\ (AtMostOne(pending) \/ pending \subseteq v.ids)
      BY <1>1 DEF BuildResumeCommand, Command
<1>2. CASE v.ids # {} /\ (AtMostOne(pending) \/ pending \subseteq v.ids)
  <2>1. command = [bare |-> None, to |-> [c \in v.ids |-> Flag(c \in v.yes)]]
        BY <1>2 DEF BuildResumeCommand, Command
  <2>2. ASSUME NEW c \in v.ids PROVE Flag(c \in v.yes) \in Answer
    <3>1. (c \in v.yes) \in BOOLEAN
          OBVIOUS
    <3> QED BY <3>1, FlagIsAnswer
  <2> HIDE DEF command
  <2>3. /\ command.bare = None
        /\ DOMAIN command.to = v.ids
        /\ \A c \in v.ids : command.to[c] = Flag(c \in v.yes)
        BY <2>1
  <2>4. \A c \in DOMAIN command.to : command.to[c] \in Answer
        BY <2>2, <2>3
  <2>5. /\ command.bare \in Answer \cup {None}
        /\ DOMAIN command.to \subseteq pending \cup v.ids
        BY <2>3
  <2> QED BY <2>4, <2>5 DEF command
<1>3. CASE ~(AtMostOne(pending) \/ pending \subseteq v.ids)
      BY <1>3 DEF BuildResumeCommand
<1> QED BY <1>1, <1>2, <1>3

\* An approval handed to a call is one the human meant for it: it was named and
\* approved, or every pending call was approved at once.
LEMMA CommandMeans ==
    ASSUME NEW v \in Answer, NEW pending \in SUBSET Calls
    PROVE  LET command == BuildResumeCommand(v, pending) IN
           /\ command.bare # None /\ IsApproved(command.bare) => v.ids = {} /\ v.ok
           /\ \A c \in DOMAIN command.to : IsApproved(command.to[c]) =>
                 \/ c \in v.ids /\ c \in v.yes
                 \/ v.ids = {} /\ v.ok
<1>0. v.ids # {} => ~v.ok
      BY DEF Answer
<1>1. CASE v.ids = {} /\ (AtMostOne(pending) \/ pending \subseteq v.ids)
      BY <1>1 DEF BuildResumeCommand, Command, IsApproved
<1>2. CASE v.ids # {} /\ (AtMostOne(pending) \/ pending \subseteq v.ids)
      BY <1>2 DEF BuildResumeCommand, Command, IsApproved, Flag
<1>3. CASE ~(AtMostOne(pending) \/ pending \subseteq v.ids)
      BY <1>0, <1>3 DEF BuildResumeCommand, IsApproved
<1> QED BY <1>1, <1>2, <1>3

-----------------------------------------------------------------------------
(* Types *)

LEMMA InitTypeOK == Init => TypeOK
<1> SUFFICES ASSUME Init PROVE TypeOK
    OBVIOUS
<1>1. <<>> \in Seq(Answer)
      OBVIOUS
<1>2. saved \in [Calls -> Seq(Answer)] /\ given \in [Calls -> Seq(Answer)]
      BY <1>1 DEF Init
<1>3. turns \in 0 .. MaxTurns
      BY DEF Init
<1>4. /\ call \in [Calls -> {"none", "open", "calling", "executed", "denied",
                             "rejected", "dropped"}]
      /\ ask \in [Calls -> {None, "approval", "consent"}]
      /\ verdict \in [Calls -> {None, "yes", "no"}]
      BY DEF Init
<1>5. /\ live \in BOOLEAN /\ granted \in BOOLEAN
      /\ stage \in {"model", "tools", "finished"}
      /\ bare \in Answer \cup {None}
      /\ parked \subseteq Calls /\ partial \subseteq Calls
      BY DEF Init
<1> QED BY <1>2, <1>3, <1>4, <1>5 DEF TypeOK

LEMMA NextTypeOK == TypeOK /\ [Next]_vars => TypeOK'
<1> SUFFICES ASSUME TypeOK, [Next]_vars PROVE TypeOK'
    OBVIOUS
<1>1. CASE SendMessage
      BY <1>1 DEF SendMessage, TypeOK
<1>2. ASSUME NEW v \in Answer, Resume(v) PROVE TypeOK'
  <2> DEFINE command == BuildResumeCommand(v, Pending)
  <2>1. Pending \in SUBSET Calls
        BY DEF Pending, Unfinished
  <2>2. /\ command.bare \in Answer \cup {None}
        /\ \A c \in DOMAIN command.to : command.to[c] \in Answer
        BY <2>1, CommandTyped
  <2>3. bare' \in Answer \cup {None}
        BY <1>2, <2>2 DEF Resume
  <2>4. given' \in [Calls -> Seq(Answer)]
    <3>1. ASSUME NEW c \in Calls, c \in DOMAIN command.to
          PROVE  Append(saved[c], command.to[c]) \in Seq(Answer)
      <4>1. saved[c] \in Seq(Answer)
            BY DEF TypeOK
      <4>2. command.to[c] \in Answer
            BY <2>2, <3>1
      <4> QED BY <4>1, <4>2
    <3>2. ASSUME NEW c \in Calls PROVE saved[c] \in Seq(Answer)
          BY DEF TypeOK
    <3>3. given' = [c \in Calls |-> IF c \in DOMAIN command.to
                                    THEN Append(saved[c], command.to[c]) ELSE saved[c]]
          BY <1>2 DEF Resume
    <3> HIDE DEF command
    <3> QED BY <3>1, <3>2, <3>3
  <2>5. verdict' \in [Calls -> {None, "yes", "no"}]
        BY <1>2 DEF Resume, TypeOK, Says
  <2>6. partial' \subseteq Calls
        BY <1>2, <2>1 DEF Resume, TypeOK
  <2>7. live' \in BOOLEAN /\ turns' \in 0 .. MaxTurns /\ parked' \subseteq Calls
        BY <1>2 DEF Resume, TypeOK
  <2> QED BY <1>2, <2>3, <2>4, <2>5, <2>6, <2>7 DEF Resume, TypeOK, thread
<1>3. ASSUME NEW S \in SUBSET Calls, ModelCalls(S) PROVE TypeOK'
      BY <1>3 DEF ModelCalls, TypeOK, history
<1>4. CASE ModelFinishes
      BY <1>4 DEF ModelFinishes, TypeOK, turn, history
<1>5. CASE ToolsFinish
      BY <1>5 DEF ToolsFinish, TypeOK, history
<1>6. CASE EndTurn
      BY <1>6 DEF EndTurn, TypeOK, thread, history
<1>7. CASE Abort
      BY <1>7 DEF Abort, StopTurn, TypeOK, history
<1>8. ASSUME NEW c \in Calls, PassGate(c) PROVE TypeOK'
      BY <1>8 DEF PassGate, TypeOK, turn, history
<1>9. ASSUME NEW c \in Calls, Decide(c) PROVE TypeOK'
  <2>1. call' \in [Calls -> {"none", "open", "calling", "executed", "denied",
                             "rejected", "dropped"}]
    <3>1. call' = [call EXCEPT ![c] = "calling"] \/ call' = [call EXCEPT ![c] = "denied"]
          BY <1>9 DEF Decide, Enter
    <3> QED BY <3>1 DEF TypeOK
  <2>2. given' \in [Calls -> Seq(Answer)] /\ bare' \in Answer \cup {None}
    <3>1. CASE UNCHANGED <<given, bare>>
          BY <3>1 DEF TypeOK
    <3>2. CASE bare # None /\ given' = [given EXCEPT ![c] = <<bare>>] /\ bare' = None
      <4>1. <<bare>> \in Seq(Answer)
            BY <3>2 DEF TypeOK
      <4> QED BY <3>2, <4>1 DEF TypeOK
    <3> QED BY <1>9, <3>1, <3>2 DEF Decide
  <2> QED BY <1>9, <2>1, <2>2 DEF Decide, TypeOK, history
<1>10. ASSUME NEW c \in Calls, AskApproval(c) PROVE TypeOK'
      BY <1>10 DEF AskApproval, Pause, TypeOK, history
<1>11. ASSUME NEW c \in Calls, Finish(c) PROVE TypeOK'
      BY <1>11 DEF Finish, TypeOK, turn, history
<1>12. ASSUME NEW c \in Calls, AskConsent(c) PROVE TypeOK'
      BY <1>12 DEF AskConsent, Pause, TypeOK, history
<1>13. ASSUME NEW c \in Calls, ReRaise(c) PROVE TypeOK'
      BY <1>13 DEF ReRaise, ConsentIsAnswered, StopTurn, TypeOK, history
<1>14. ASSUME NEW c \in Calls, ToolRaises(c) PROVE TypeOK'
      BY <1>14 DEF ToolRaises, StopTurn, TypeOK, history
<1>15. CASE Grant
      BY <1>15 DEF Grant, TypeOK, thread, turn, history
<1>16. CASE UNCHANGED vars
      BY <1>16 DEF vars, thread, turn, history, TypeOK
<1> QED BY <1>1, <1>2, <1>3, <1>4, <1>5, <1>6, <1>7, <1>8, <1>9, <1>10, <1>11,
           <1>12, <1>13, <1>14, <1>15, <1>16 DEF Next

\* The thread's state is well typed for any calls and policies.
THEOREM TypeCorrect == Spec => []TypeOK
BY InitTypeOK, NextTypeOK, PTL DEF Spec

-----------------------------------------------------------------------------
(* The gate *)

\* Which answers stand for which decisions while a call is undecided.
AnswersAreMeant(c) ==
    /\ call[c] = "open" /\ live /\ given[c] # <<>> /\ IsApproved(Head(given[c]))
          => verdict[c] = "yes"
    /\ call[c] = "open" /\ live /\ given[c] = <<>> /\ bare # None /\ IsApproved(bare)
          => verdict[c] = "yes"

\* A task has stored answers exactly when it passed its gate and then paused
\* on a consent; past the gate the human has approved it.
StoredAnswersPassed(c) ==
    /\ call[c] \in {"open", "calling"} =>
          (saved[c] # <<>> <=> ask[c] = "consent")
    /\ call[c] = "open" /\ ask[c] = "consent" => verdict[c] = "yes"
    /\ call[c] = "calling" => given[c] # <<>>
    /\ call[c] \in {"calling", "executed"} => verdict[c] = "yes"

\* A call the model has not made has no answers yet.
NotYetMade(c) == call[c] = "none" => ask[c] = None /\ saved[c] = <<>> /\ given[c] = <<>>

\* Where unfinished calls can be.
StagesAreTidy ==
    /\ ~live => \A c \in Calls : call[c] # "calling"
    /\ stage # "tools" => Unfinished = {}
    /\ live => \A c \in parked : call[c] = "open"

CallInv(c) ==
    /\ NotYetMade(c)
    /\ NeedsApproval(c) => AnswersAreMeant(c) /\ StoredAnswersPassed(c)
    /\ call[c] = "executed" => c \notin Malformed

IInv == TypeOK /\ StagesAreTidy /\ \A c \in Calls : CallInv(c)

LEMMA InitIInv == Init => IInv
<1> SUFFICES ASSUME Init PROVE IInv
    OBVIOUS
<1>1. StagesAreTidy
      BY DEF Init, StagesAreTidy, Unfinished
<1>2. ASSUME NEW c \in Calls PROVE CallInv(c)
      BY DEF Init, CallInv, NotYetMade, AnswersAreMeant, StoredAnswersPassed
<1> QED BY InitTypeOK, <1>1, <1>2 DEF IInv

LEMMA NextStages == IInv /\ [Next]_vars => StagesAreTidy'
<1> SUFFICES ASSUME IInv, [Next]_vars PROVE StagesAreTidy'
    OBVIOUS
<1> USE DEF IInv, TypeOK, StagesAreTidy, Unfinished
<1>1. CASE SendMessage
      BY <1>1 DEF SendMessage
<1>2. ASSUME NEW v \in Answer, Resume(v) PROVE StagesAreTidy'
      BY <1>2 DEF Resume, thread
<1>3. ASSUME NEW S \in SUBSET Calls, ModelCalls(S) PROVE StagesAreTidy'
      BY <1>3 DEF ModelCalls
<1>4. CASE ModelFinishes
      BY <1>4 DEF ModelFinishes, turn
<1>5. CASE ToolsFinish
      BY <1>5 DEF ToolsFinish
<1>6. CASE EndTurn
      BY <1>6 DEF EndTurn, thread
<1>7. CASE Abort
      BY <1>7 DEF Abort, StopTurn
<1>8. ASSUME NEW c \in Calls, PassGate(c) PROVE StagesAreTidy'
      BY <1>8 DEF PassGate, Runs, turn
<1>9. ASSUME NEW c \in Calls, Decide(c) PROVE StagesAreTidy'
      BY <1>9 DEF Decide, Enter, Runs
<1>10. ASSUME NEW c \in Calls, AskApproval(c) PROVE StagesAreTidy'
      BY <1>10 DEF AskApproval, Pause, Runs
<1>11. ASSUME NEW c \in Calls, Finish(c) PROVE StagesAreTidy'
      BY <1>11 DEF Finish, Runs, turn
<1>12. ASSUME NEW c \in Calls, AskConsent(c) PROVE StagesAreTidy'
      BY <1>12 DEF AskConsent, Pause, Runs
<1>13. ASSUME NEW c \in Calls, ReRaise(c) PROVE StagesAreTidy'
      BY <1>13 DEF ReRaise, ConsentIsAnswered, StopTurn
<1>14. ASSUME NEW c \in Calls, ToolRaises(c) PROVE StagesAreTidy'
      BY <1>14 DEF ToolRaises, StopTurn
<1>15. CASE Grant
      BY <1>15 DEF Grant, thread, turn
<1>16. CASE UNCHANGED vars
      BY <1>16 DEF vars, thread, turn
<1> QED BY <1>1, <1>2, <1>3, <1>4, <1>5, <1>6, <1>7, <1>8, <1>9, <1>10, <1>11,
           <1>12, <1>13, <1>14, <1>15, <1>16 DEF Next

\* A resume hands each undecided call only what the human meant for it.
LEMMA ResumeCall ==
    ASSUME IInv, NEW v \in Answer, Resume(v), NEW c \in Calls
    PROVE  CallInv(c)'
<1> DEFINE command == BuildResumeCommand(v, Pending)
<1>1. Pending \in SUBSET Calls /\ call[c] # "calling" /\ ~live
      BY DEF Resume, IInv, StagesAreTidy, Pending, Unfinished
<1>2. call' = call /\ ask' = ask /\ saved' = saved /\ bare' = command.bare
      BY DEF Resume, thread
<1>3. given'[c] = IF c \in DOMAIN command.to THEN Append(saved[c], command.to[c]) ELSE saved[c]
      BY DEF Resume
<1>4. verdict'[c] = IF c \in Decided(v) THEN Says(v, c) ELSE verdict[c]
      BY DEF Resume
<1>5. /\ DOMAIN command.to \subseteq Pending \cup v.ids
      /\ \A d \in DOMAIN command.to : command.to[d] \in Answer
      BY <1>1, CommandTyped
<1>6. /\ command.bare # None /\ IsApproved(command.bare) => v.ids = {} /\ v.ok
      /\ \A d \in DOMAIN command.to : IsApproved(command.to[d]) =>
            \/ d \in v.ids /\ d \in v.yes
            \/ v.ids = {} /\ v.ok
      BY <1>1, CommandMeans
<1>7. saved[c] \in Seq(Answer)
      BY DEF IInv, TypeOK
<1> HIDE DEF command
<1>8. CASE call[c] = "none"
  <2>1. ask[c] = None /\ saved[c] = <<>>
        BY <1>8 DEF IInv, CallInv, NotYetMade
  <2>2. c \notin Pending /\ c \notin v.ids
        BY <1>8, <2>1 DEF Pending, Resume
  <2>3. given'[c] = <<>>
        BY <1>3, <1>5, <2>1, <2>2
  <2> QED BY <1>2, <1>8, <2>1, <2>3
          DEF CallInv, NotYetMade, AnswersAreMeant, StoredAnswersPassed
<1>9. CASE call[c] = "open" /\ ~NeedsApproval(c)
      BY <1>2, <1>9 DEF CallInv, NotYetMade, NeedsApproval
<1>10. CASE call[c] = "open" /\ NeedsApproval(c) /\ ask[c] = "consent"
  <2>1. verdict[c] = "yes" /\ saved[c] # <<>>
        BY <1>10 DEF IInv, CallInv, StoredAnswersPassed
  <2>2. verdict'[c] = "yes"
        BY <1>4, <1>10, <2>1 DEF Decided
  <2> QED BY <1>2, <1>10, <2>1, <2>2
          DEF CallInv, NotYetMade, AnswersAreMeant, StoredAnswersPassed
<1>11. CASE call[c] = "open" /\ NeedsApproval(c) /\ ask[c] # "consent"
  <2>1. saved[c] = <<>>
        BY <1>11 DEF IInv, CallInv, StoredAnswersPassed
  <2>2. ASSUME c \in DOMAIN command.to, IsApproved(command.to[c]) PROVE verdict'[c] = "yes"
    <3>1. c \in Decided(v)
          BY <1>6, <1>11, <2>2 DEF Decided, Unfinished
    <3>2. Says(v, c) = "yes"
          BY <1>6, <2>2 DEF Says
    <3> QED BY <1>4, <3>1, <3>2
  <2>3. ASSUME bare' # None, IsApproved(bare') PROVE verdict'[c] = "yes"
    <3>1. v.ids = {} /\ v.ok
          BY <1>2, <1>6, <2>3
    <3>2. c \in Decided(v)
          BY <1>11, <3>1 DEF Decided, Unfinished
    <3> QED BY <1>4, <3>1, <3>2 DEF Says
  <2>4. ASSUME given'[c] # <<>> PROVE c \in DOMAIN command.to /\ Head(given'[c]) = command.to[c]
    <3>1. c \in DOMAIN command.to
          BY <1>3, <2>1, <2>4
    <3>2. command.to[c] \in Answer
          BY <1>5, <3>1
    <3>3. given'[c] = Append(<<>>, command.to[c])
          BY <1>3, <2>1, <3>1
    <3> QED BY <3>1, <3>2, <3>3
  <2>5. AnswersAreMeant(c)'
    <3>1. ASSUME given'[c] # <<>>, IsApproved(Head(given'[c])) PROVE verdict'[c] = "yes"
          BY <2>2, <2>4, <3>1
    <3> QED BY <2>3, <3>1 DEF AnswersAreMeant, IsApproved
  <2>6. StoredAnswersPassed(c)'
        BY <1>2, <1>11, <2>1 DEF StoredAnswersPassed
  <2> QED BY <1>2, <1>11, <2>5, <2>6 DEF CallInv, NotYetMade
<1>12. CASE call[c] \notin {"none", "open"}
  <2>1. verdict'[c] = verdict[c]
        BY <1>1, <1>4, <1>12 DEF Decided, Unfinished
  <2> QED BY <1>1, <1>2, <1>12, <2>1
          DEF IInv, CallInv, NotYetMade, AnswersAreMeant, StoredAnswersPassed, NeedsApproval
<1> QED BY <1>8, <1>9, <1>10, <1>11, <1>12

\* Past the gate the decision that was used is the human's approval.
LEMMA DecideCall ==
    ASSUME IInv, NEW d \in Calls, Decide(d), NEW c \in Calls
    PROVE  CallInv(c)'
<1>1. /\ live /\ stage = "tools" /\ call[d] = "open" /\ NeedsApproval(d)
      /\ UNCHANGED <<ask, saved, live, verdict>>
      BY DEF Decide, Runs, history
<1>2. /\ call' \in {[call EXCEPT ![d] = "calling"], [call EXCEPT ![d] = "denied"]}
      /\ call'[d] = "calling" => verdict[d] = "yes" /\ given'[d] # <<>>
      /\ given'[c] = given[c] \/ c = d
      /\ bare' = bare \/ bare' = None
  <2>1. CASE given[d] # <<>> /\ Enter(d, Head(given[d])) /\ UNCHANGED <<given, bare>>
        BY <1>1, <2>1 DEF Enter, IInv, TypeOK, CallInv, AnswersAreMeant
  <2>2. CASE /\ given[d] = <<>> /\ bare # None /\ Enter(d, bare)
             /\ given' = [given EXCEPT ![d] = <<bare>>] /\ bare' = None
    <3>1. given'[d] = <<bare>> /\ <<bare>> # <<>>
          BY <2>2 DEF IInv, TypeOK
    <3> QED BY <1>1, <2>2, <3>1 DEF Enter, IInv, TypeOK, CallInv, AnswersAreMeant
  <2> QED BY <2>1, <2>2 DEF Decide
<1>3. CASE c = d
      BY <1>1, <1>2, <1>3
         DEF IInv, TypeOK, CallInv, NotYetMade, AnswersAreMeant, StoredAnswersPassed,
             NeedsApproval
<1>4. CASE c # d
  <2>1. call'[c] = call[c] /\ given'[c] = given[c]
        BY <1>2, <1>4 DEF IInv, TypeOK
  <2> QED BY <1>1, <1>2, <2>1
          DEF IInv, CallInv, NotYetMade, AnswersAreMeant, StoredAnswersPassed,
              NeedsApproval
<1> QED BY <1>3, <1>4

\* A task pauses with the answers it had: none at its gate, at least the
\* approval past it.
LEMMA PauseCall ==
    ASSUME IInv, NEW d \in Calls, AskApproval(d) \/ AskConsent(d), NEW c \in Calls
    PROVE  CallInv(c)'
<1>1. /\ call' = [call EXCEPT ![d] = "open"]
      /\ saved' = [saved EXCEPT ![d] = given[d]]
      /\ UNCHANGED <<live, given, bare, verdict>>
      BY DEF AskApproval, AskConsent, Pause, history
<1>2. CASE c # d
  <2>1. call'[c] = call[c] /\ saved'[c] = saved[c] /\ ask'[c] = ask[c]
        BY <1>1, <1>2 DEF IInv, TypeOK, AskApproval, AskConsent, Pause
  <2> QED BY <1>1, <2>1
          DEF IInv, CallInv, NotYetMade, AnswersAreMeant, StoredAnswersPassed,
              NeedsApproval
<1>3. CASE c = d
  <2>1. call'[d] = "open" /\ saved'[d] = given[d]
        BY <1>1 DEF IInv, TypeOK
  <2>2. CASE AskApproval(d)
    <3>1. ask'[d] = "approval" /\ given[d] = <<>> /\ bare = None
          BY <2>2 DEF AskApproval, Pause, IInv, TypeOK
    <3> QED BY <1>1, <1>3, <2>1, <3>1
            DEF CallInv, NotYetMade, AnswersAreMeant, StoredAnswersPassed
  <2>3. CASE AskConsent(d)
    <3>1. ask'[d] = "consent" /\ call[d] = "calling"
          BY <2>3 DEF AskConsent, Pause, IInv, TypeOK
    <3>2. NeedsApproval(d) => given[d] # <<>> /\ verdict[d] = "yes"
          BY <3>1 DEF IInv, CallInv, StoredAnswersPassed
    <3> QED BY <1>1, <1>3, <2>1, <3>1, <3>2
            DEF CallInv, NotYetMade, AnswersAreMeant, StoredAnswersPassed, NeedsApproval
  <2> QED BY <2>2, <2>3
<1> QED BY <1>2, <1>3

LEMMA NextCalls ==
    ASSUME IInv, [Next]_vars, NEW c \in Calls
    PROVE  CallInv(c)'
<1> USE DEF IInv, TypeOK, CallInv, NotYetMade, AnswersAreMeant, StoredAnswersPassed,
            NeedsApproval
<1>1. CASE SendMessage
      BY <1>1 DEF SendMessage, Unfinished
<1>2. ASSUME NEW v \in Answer, Resume(v) PROVE CallInv(c)'
      BY <1>2, ResumeCall
<1>3. ASSUME NEW S \in SUBSET Calls, ModelCalls(S) PROVE CallInv(c)'
  <2>1. call[c] \notin {"open", "calling"}
        BY <1>3 DEF ModelCalls, StagesAreTidy, Unfinished
  <2>2. call'[c] \in {call[c], "open"} /\ (call'[c] # call[c] => call[c] = "none")
        BY <1>3 DEF ModelCalls
  <2>3. bare' = None /\ UNCHANGED <<live, ask, saved, given, verdict>>
        BY <1>3 DEF ModelCalls, history
  <2>4. CASE call'[c] = call[c]
        BY <2>1, <2>3, <2>4
  <2>5. CASE call[c] = "none" /\ call'[c] = "open"
    <3>1. ask'[c] = None /\ saved'[c] = <<>> /\ given'[c] = <<>>
          BY <2>3, <2>5
    <3> QED BY <2>3, <2>5, <3>1
  <2> QED BY <2>2, <2>4, <2>5
<1>4. CASE ModelFinishes
      BY <1>4 DEF ModelFinishes, turn, history
<1>5. CASE ToolsFinish
      BY <1>5 DEF ToolsFinish, history
<1>6. CASE EndTurn
      BY <1>6 DEF EndTurn, thread, history
<1>7. ASSUME live, StopTurn PROVE CallInv(c)'
      BY <1>7 DEF StopTurn, history
<1>8. ASSUME NEW d \in Calls, PassGate(d) PROVE CallInv(c)'
      BY <1>8 DEF PassGate, turn, history
<1>9. ASSUME NEW d \in Calls, Decide(d) PROVE CallInv(c)'
      BY <1>9, DecideCall
<1>10. ASSUME NEW d \in Calls, AskApproval(d) \/ AskConsent(d) PROVE CallInv(c)'
      BY <1>10, PauseCall
<1>11. ASSUME NEW d \in Calls, Finish(d) PROVE CallInv(c)'
      BY <1>11 DEF Finish, turn, history
<1>12. CASE Grant
      BY <1>12 DEF Grant, thread, turn, history
<1>13. CASE UNCHANGED vars
      BY <1>13 DEF vars, thread, turn, history
<1>14. ASSUME NEW d \in Calls, ReRaise(d) \/ ToolRaises(d) PROVE CallInv(c)'
      BY <1>7, <1>14 DEF ReRaise, ConsentIsAnswered, ToolRaises, Runs
<1>15. CASE Abort
      BY <1>7, <1>15 DEF Abort
<1> QED BY <1>1, <1>2, <1>3, <1>4, <1>5, <1>6, <1>8, <1>9, <1>10, <1>11, <1>12,
           <1>13, <1>14, <1>15 DEF Next

LEMMA NextIInv == IInv /\ [Next]_vars => IInv'
<1> SUFFICES ASSUME IInv, [Next]_vars PROVE IInv'
    OBVIOUS
<1>1. TypeOK'
      BY NextTypeOK DEF IInv
<1>2. StagesAreTidy'
      BY NextStages
<1>3. \A c \in Calls : CallInv(c)'
      BY NextCalls
<1> QED BY <1>1, <1>2, <1>3 DEF IInv

\* No gated call runs without the human's approval of it, for any calls,
\* policies and number of turns.
THEOREM GatedCallsAreApproved == Spec => []GateHolds
<1>1. IInv => GateHolds
      BY DEF IInv, CallInv, StoredAnswersPassed, NeedsApproval, GateHolds
<1> QED BY InitIInv, NextIInv, <1>1, PTL DEF Spec

-----------------------------------------------------------------------------
(* Refusals *)

Accounted(c) == verdict[c] = "no" \/ c \in partial

\* An answer that would refuse a call is accounted for, and the answers stored
\* for a call past its gate begin with an approval.
Explained(c) ==
    /\ call[c] = "denied" => Accounted(c)
    /\ NeedsApproval(c) /\ call[c] = "open" /\ live =>
          /\ given[c] # <<>> /\ ~IsApproved(Head(given[c])) => Accounted(c)
          /\ given[c] = <<>> /\ bare # None /\ ~IsApproved(bare) => Accounted(c)
    /\ NeedsApproval(c) /\ call[c] = "calling" => IsApproved(Head(given[c]))
    /\ NeedsApproval(c) /\ call[c] \in {"open", "calling"} /\ ask[c] = "consent" =>
          IsApproved(Head(saved[c]))

ExplainInv == \A c \in Calls : Explained(c)

\* A refusal handed to a pending call is the human's, for that call or for all,
\* or the map it came in left a pending call out.
LEMMA CommandRefuses ==
    ASSUME NEW v \in Answer, NEW pending \in SUBSET Calls
    PROVE  LET command == BuildResumeCommand(v, pending) IN
           /\ command.bare # None => v.ids = {} /\ command.bare = v
           /\ \A c \in DOMAIN command.to : ~IsApproved(command.to[c]) =>
                 \/ c \in v.ids /\ c \notin v.yes /\ ~v.ok
                 \/ c \in pending /\ v.ids = {} /\ ~v.ok /\ c \notin v.yes
                 \/ c \in pending /\ v.ids # {} /\ ~(pending \subseteq v.ids)
<1>0. (v.ids # {} => ~v.ok) /\ (v.ids = {} => v.yes = {})
      BY DEF Answer
<1>1. CASE v.ids = {} /\ (AtMostOne(pending) \/ pending \subseteq v.ids)
      BY <1>1 DEF BuildResumeCommand, Command
<1>2. CASE v.ids # {} /\ (AtMostOne(pending) \/ pending \subseteq v.ids)
      BY <1>0, <1>2 DEF BuildResumeCommand, Command, IsApproved, Flag
<1>3. CASE ~(AtMostOne(pending) \/ pending \subseteq v.ids)
      BY <1>0, <1>3 DEF BuildResumeCommand, IsApproved
<1> QED BY <1>1, <1>2, <1>3

LEMMA ResumeExplains ==
    ASSUME IInv, ExplainInv, NEW v \in Answer, Resume(v), NEW c \in Calls
    PROVE  Explained(c)'
<1> DEFINE command == BuildResumeCommand(v, Pending)
<1>1. Pending \in SUBSET Calls /\ call[c] # "calling"
      BY DEF Resume, IInv, StagesAreTidy, Pending, Unfinished
<1>2. call' = call /\ ask' = ask /\ saved' = saved /\ bare' = command.bare
      BY DEF Resume, thread
<1>3. given'[c] = IF c \in DOMAIN command.to THEN Append(saved[c], command.to[c]) ELSE saved[c]
      BY DEF Resume
<1>4. /\ verdict'[c] = IF c \in Decided(v) THEN Says(v, c) ELSE verdict[c]
      /\ partial \subseteq partial'
      /\ v.ids # {} /\ ~(Pending \subseteq v.ids) => Pending \subseteq partial'
      BY DEF Resume
<1>5. /\ DOMAIN command.to \subseteq Pending \cup v.ids
      /\ \A d \in DOMAIN command.to : command.to[d] \in Answer
      BY <1>1, CommandTyped
<1>6. /\ command.bare # None => v.ids = {} /\ command.bare = v
      /\ \A d \in DOMAIN command.to : ~IsApproved(command.to[d]) =>
            \/ d \in v.ids /\ d \notin v.yes /\ ~v.ok
            \/ d \in Pending /\ v.ids = {} /\ ~v.ok /\ d \notin v.yes
            \/ d \in Pending /\ v.ids # {} /\ ~(Pending \subseteq v.ids)
      BY <1>1, CommandRefuses
<1>7. saved[c] \in Seq(Answer) /\ v.yes \subseteq v.ids
      BY DEF IInv, TypeOK, Answer
<1> HIDE DEF command
<1>8. CASE call[c] # "open" \/ ~NeedsApproval(c)
  <2>1. call[c] = "denied" => Accounted(c)'
        BY <1>4 DEF ExplainInv, Explained, Accounted, Decided, Unfinished
  <2> QED BY <1>1, <1>2, <1>8, <2>1 DEF Explained, NeedsApproval
<1>9. CASE call[c] = "open" /\ NeedsApproval(c) /\ ask[c] = "consent"
  <2>1. saved[c] # <<>> /\ IsApproved(Head(saved[c]))
        BY <1>9 DEF IInv, CallInv, StoredAnswersPassed, ExplainInv, Explained
  <2>2. given'[c] # <<>> /\ Head(given'[c]) = Head(saved[c])
    <3>1. CASE c \in DOMAIN command.to
      <4>1. command.to[c] \in Answer
            BY <1>5, <3>1
      <4> QED BY <1>3, <1>7, <2>1, <3>1, <4>1
    <3> QED BY <1>3, <2>1, <3>1
  <2>3. IsApproved(Head(given'[c]))
        BY <2>1, <2>2
  <2> QED BY <1>2, <1>9, <2>1, <2>2, <2>3 DEF Explained, IsApproved
<1>10. CASE call[c] = "open" /\ NeedsApproval(c) /\ ask[c] # "consent"
  <2>1. saved[c] = <<>>
        BY <1>10 DEF IInv, CallInv, StoredAnswersPassed
  <2>2. ASSUME c \in DOMAIN command.to, ~IsApproved(command.to[c]) PROVE Accounted(c)'
    <3>1. CASE (v.ids = {} \/ c \in v.ids) /\ ~v.ok /\ c \notin v.yes
          BY <1>4, <1>10, <3>1 DEF Accounted, Decided, Unfinished, Says
    <3>2. CASE c \in Pending /\ v.ids # {} /\ ~(Pending \subseteq v.ids)
          BY <1>4, <3>2 DEF Accounted
    <3> QED BY <1>6, <2>2, <3>1, <3>2
  <2>3. ASSUME bare' # None, ~IsApproved(bare') PROVE Accounted(c)'
    <3>1. v.ids = {} /\ ~v.ok /\ c \notin v.yes
          BY <1>2, <1>6, <1>7, <2>3 DEF IsApproved
    <3> QED BY <1>4, <1>10, <3>1 DEF Accounted, Decided, Unfinished, Says
  <2>4. ASSUME given'[c] # <<>> PROVE c \in DOMAIN command.to /\ Head(given'[c]) = command.to[c]
    <3>1. c \in DOMAIN command.to
          BY <1>3, <2>1, <2>4
    <3>2. command.to[c] \in Answer
          BY <1>5, <3>1
    <3>3. given'[c] = Append(<<>>, command.to[c])
          BY <1>3, <2>1, <3>1
    <3> QED BY <3>1, <3>2, <3>3
  <2>5. given'[c] # <<>> /\ ~IsApproved(Head(given'[c])) => Accounted(c)'
        BY <2>2, <2>4
  <2> QED BY <1>2, <1>10, <2>3, <2>5 DEF Explained, IsApproved
<1> QED BY <1>8, <1>9, <1>10

\* The decision that is used is approved past the gate and explained before it.
LEMMA DecideExplains ==
    ASSUME IInv, ExplainInv, NEW d \in Calls, Decide(d), NEW c \in Calls
    PROVE  Explained(c)'
<1>1. /\ live /\ call[d] = "open" /\ NeedsApproval(d)
      /\ UNCHANGED <<ask, saved, live, verdict, partial>>
      BY DEF Decide, Runs, history
<1>2. /\ call' \in {[call EXCEPT ![d] = "calling"], [call EXCEPT ![d] = "denied"]}
      /\ call'[d] = "calling" => IsApproved(Head(given'[d]))
      /\ call'[d] = "denied" => Accounted(d)
      /\ given'[c] = given[c] \/ c = d
      /\ bare' = bare \/ bare' = None
  <2>1. CASE given[d] # <<>> /\ Enter(d, Head(given[d])) /\ UNCHANGED <<given, bare>>
        BY <1>1, <2>1 DEF Enter, IInv, TypeOK, ExplainInv, Explained
  <2>2. CASE /\ given[d] = <<>> /\ bare # None /\ Enter(d, bare)
             /\ given' = [given EXCEPT ![d] = <<bare>>] /\ bare' = None
    <3>1. given'[d] = <<bare>> /\ Head(<<bare>>) = bare
          BY <2>2 DEF IInv, TypeOK
    <3> QED BY <1>1, <2>2, <3>1 DEF Enter, IInv, TypeOK, ExplainInv, Explained
  <2> QED BY <2>1, <2>2 DEF Decide
<1>3. CASE c = d
  <2>1. call'[c] = "calling" \/ call'[c] = "denied"
        BY <1>2, <1>3 DEF IInv, TypeOK
  <2>2. ask[c] = "consent" => IsApproved(Head(saved[c]))
        BY <1>1, <1>3 DEF ExplainInv, Explained
  <2> QED BY <1>1, <1>2, <1>3, <2>1, <2>2 DEF Explained, Accounted, IsApproved
<1>4. CASE c # d
  <2>1. call'[c] = call[c] /\ given'[c] = given[c]
        BY <1>2, <1>4 DEF IInv, TypeOK
  <2> QED BY <1>1, <1>2, <2>1 DEF ExplainInv, Explained, Accounted, NeedsApproval, IsApproved
<1> QED BY <1>3, <1>4

\* A task that pauses stores the approval it passed its gate with.
LEMMA PauseExplains ==
    ASSUME IInv, ExplainInv, NEW d \in Calls, AskApproval(d) \/ AskConsent(d), NEW c \in Calls
    PROVE  Explained(c)'
<1>1. /\ call' = [call EXCEPT ![d] = "open"]
      /\ saved' = [saved EXCEPT ![d] = given[d]]
      /\ UNCHANGED <<live, given, bare, verdict, partial>>
      BY DEF AskApproval, AskConsent, Pause, history
<1>2. CASE c # d
  <2>1. call'[c] = call[c] /\ saved'[c] = saved[c] /\ ask'[c] = ask[c]
        BY <1>1, <1>2 DEF IInv, TypeOK, AskApproval, AskConsent, Pause
  <2> QED BY <1>1, <2>1 DEF ExplainInv, Explained, Accounted, NeedsApproval, IsApproved
<1>3. CASE c = d
  <2>1. call'[d] = "open" /\ saved'[d] = given[d]
        BY <1>1 DEF IInv, TypeOK
  <2>2. CASE AskApproval(d)
    <3>1. ask'[d] = "approval" /\ given[d] = <<>> /\ bare = None
          BY <2>2 DEF AskApproval, Pause, IInv, TypeOK
    <3> QED BY <1>1, <1>3, <2>1, <3>1 DEF Explained
  <2>3. CASE AskConsent(d)
    <3>1. call[d] = "calling"
          BY <2>3 DEF AskConsent
    <3>2. NeedsApproval(d) => IsApproved(Head(given[d])) /\ given[d] # <<>>
          BY <3>1 DEF IInv, CallInv, StoredAnswersPassed, ExplainInv, Explained
    <3> QED BY <1>1, <1>3, <2>1, <3>2 DEF Explained, NeedsApproval, IsApproved
  <2> QED BY <2>2, <2>3
<1> QED BY <1>2, <1>3

LEMMA NextExplained ==
    ASSUME IInv, ExplainInv, [Next]_vars, NEW c \in Calls
    PROVE  Explained(c)'
<1> USE DEF IInv, TypeOK, ExplainInv, Explained, Accounted, NeedsApproval, IsApproved
<1>1. CASE SendMessage
      BY <1>1 DEF SendMessage, Unfinished
<1>2. ASSUME NEW v \in Answer, Resume(v) PROVE Explained(c)'
      BY <1>2, ResumeExplains
<1>3. ASSUME NEW S \in SUBSET Calls, ModelCalls(S) PROVE Explained(c)'
  <2>1. call[c] \notin {"open", "calling"}
        BY <1>3 DEF ModelCalls, StagesAreTidy, Unfinished
  <2>2. call'[c] \in {call[c], "open"} /\ (call'[c] # call[c] => call[c] = "none")
        BY <1>3 DEF ModelCalls
  <2>3. bare' = None /\ UNCHANGED <<ask, saved, given, verdict, partial>>
        BY <1>3 DEF ModelCalls, history
  <2>4. call[c] = "none" => ask[c] = None /\ given[c] = <<>>
        BY DEF CallInv, NotYetMade
  <2> QED BY <2>1, <2>2, <2>3, <2>4
<1>4. CASE ModelFinishes
      BY <1>4 DEF ModelFinishes, turn, history
<1>5. CASE ToolsFinish
      BY <1>5 DEF ToolsFinish, history
<1>6. CASE EndTurn
      BY <1>6 DEF EndTurn, thread, history
<1>7. ASSUME live, StopTurn PROVE Explained(c)'
      BY <1>7 DEF StopTurn, history
<1>8. ASSUME NEW d \in Calls, PassGate(d) PROVE Explained(c)'
      BY <1>8 DEF PassGate, turn, history
<1>9. ASSUME NEW d \in Calls, Decide(d) PROVE Explained(c)'
      BY <1>9, DecideExplains
<1>10. ASSUME NEW d \in Calls, AskApproval(d) \/ AskConsent(d) PROVE Explained(c)'
      BY <1>10, PauseExplains
<1>11. ASSUME NEW d \in Calls, Finish(d) PROVE Explained(c)'
      BY <1>11 DEF Finish, turn, history
<1>12. CASE Grant
      BY <1>12 DEF Grant, thread, turn, history
<1>13. CASE UNCHANGED vars
      BY <1>13 DEF vars, thread, turn, history
<1>14. ASSUME NEW d \in Calls, ReRaise(d) \/ ToolRaises(d) PROVE Explained(c)'
      BY <1>7, <1>14 DEF ReRaise, ConsentIsAnswered, ToolRaises, Runs
<1>15. CASE Abort
      BY <1>7, <1>15 DEF Abort
<1> QED BY <1>1, <1>2, <1>3, <1>4, <1>5, <1>6, <1>8, <1>9, <1>10, <1>11, <1>12,
           <1>13, <1>14, <1>15 DEF Next

\* No call is refused that the human did not refuse, except by a map that left
\* a pending call out, for any calls, policies and number of turns.
THEOREM RefusalsAreExplained == Spec => []DenialsExplained
<1>1. Init => ExplainInv
      BY DEF Init, ExplainInv, Explained
<1>2. IInv /\ ExplainInv /\ [Next]_vars => ExplainInv'
      BY NextExplained DEF ExplainInv
<1>3. ExplainInv => DenialsExplained
      BY DEF ExplainInv, Explained, Accounted, DenialsExplained
<1> QED BY InitIInv, NextIInv, <1>1, <1>2, <1>3, PTL DEF Spec
=============================================================================
