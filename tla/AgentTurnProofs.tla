--------------------------- MODULE AgentTurnProofs ---------------------------
(***************************************************************************)
(* Proofs about AgentTurn and TurnConsumers: the types, that a consumer is *)
(* given the text of every model run exactly once, that turn.end tells the *)
(* truth; and, of what the consumers fold the events into, that the reply  *)
(* keeps the text, that the terminal prints nothing twice, and that the    *)
(* verdicts of an eval are earned.                                         *)
(***************************************************************************)
EXTENDS TurnConsumers, SequenceTheorems, FiniteSetTheorems, WellFoundedInduction, TLAPS

\* The pieces 1 .. n as a sequence.
Count(n) == [i \in 1 .. n |-> i]

\* One more delta after n of them: the pieces are still in order.
LEMMA CountAppend ==
    ASSUME NEW n \in Nat
    PROVE  Append(Count(n), n + 1) = Count(n + 1)
<1>1. Count(n) \in Seq(Nat) /\ Count(n + 1) \in Seq(Nat)
      BY DEF Count
<1>2. Len(Count(n)) = n /\ Len(Count(n + 1)) = n + 1
      BY DEF Count
<1>3. Append(Count(n), n + 1) \in Seq(Nat) /\ Len(Append(Count(n), n + 1)) = n + 1
      BY <1>1, <1>2
<1>4. ASSUME NEW i \in 1 .. n + 1 PROVE Append(Count(n), n + 1)[i] = Count(n + 1)[i]
  <2>1. CASE i = n + 1
        BY <1>1, <1>2, <2>1 DEF Count
  <2>2. CASE i \in 1 .. n
        BY <1>1, <1>2, <2>2 DEF Count
  <2>3. i = n + 1 \/ i \in 1 .. n
        OBVIOUS
  <2> QED BY <2>1, <2>2, <2>3
<1> QED BY <1>1, <1>2, <1>3, <1>4, SeqEqual

\* Nothing heard before, then the whole text at once.
LEMMA CountConcat ==
    ASSUME NEW n \in Nat
    PROVE  Count(0) = <<>> /\ <<>> \o Count(n) = Count(n)
<1>1. Count(0) = <<>>
      BY DEF Count
<1>2. Count(n) \in Seq(Nat)
      BY DEF Count
<1> QED BY <1>1, <1>2, ConcatEmptySeq

-----------------------------------------------------------------------------
\* Which runs the normalizer remembers, and what a run may have said before it
\* ends: the part TextOnce needs to be inductive.
RunsAreTracked ==
    \A r \in Runs :
        /\ run[r] = "idle" => r \notin streams /\ said[r] = 0
        /\ r \in streamedRuns => r \in streams
        /\ r \in streams => (r \in streamedRuns <=> said[r] > 0)
        /\ r \notin streams /\ run[r] = "open" => said[r] = 0

\* No interrupt is listed or asked for before the graph is done.
NothingAskedYet ==
    pc \in {"idle", "streaming", "checking"} => interrupts = <<>> /\ asked = 0

IInv == TypeOK /\ RunsAreTracked /\ NothingAskedYet /\ TextOnce

LEMMA InitIInv == Init => IInv
<1> SUFFICES ASSUME Init PROVE IInv
    OBVIOUS
<1>1. TypeOK
  <2>1. interrupts \in Seq(Interrupts) /\ spoken \in Seq(Runs)
        BY DEF Init
  <2>2. asked \in 0 .. Len(interrupts)
        BY DEF Init
  <2>3. heard \in [Runs -> Seq(Nat)]
    <3>1. <<>> \in Seq(Nat)
          OBVIOUS
    <3> QED BY <3>1 DEF Init
  <2>4. said \in [Runs -> 0 .. MaxPieces]
        BY PieceAssumption DEF Init, PieceAssumption
  <2> QED BY <2>1, <2>2, <2>3, <2>4 DEF Init, TypeOK, PC
<1>2. RunsAreTracked /\ NothingAskedYet
      BY DEF Init, RunsAreTracked, NothingAskedYet
<1>3. TextOnce
  <2> SUFFICES ASSUME NEW r \in Runs PROVE heard[r] = [i \in 1 .. 0 |-> i]
      BY DEF Init, TextOnce
  <2> QED BY CountConcat, 0 \in Nat DEF Init, Count
<1> QED BY <1>1, <1>2, <1>3 DEF IInv

\* Every step of the generator and of the graph under it keeps the invariant.
LEMMA NextIInv == IInv /\ [Next]_vars => IInv'
<1> SUFFICES ASSUME IInv, [Next]_vars PROVE IInv'
    OBVIOUS
<1> USE DEF IInv
<1>0. MaxPieces \in Nat
      BY PieceAssumption DEF PieceAssumption
<1>1. CASE Begin
      BY <1>1 DEF Begin, TypeOK, PC, RunsAreTracked, NothingAskedYet, TextOnce, graph
<1>2. CASE ResumeLookupFails
      BY <1>2 DEF ResumeLookupFails, TypeOK, PC, RunsAreTracked, NothingAskedYet, TextOnce, graph
<1>3. ASSUME NEW r \in Runs, ModelStarts(r) PROVE IInv'
  <2>1. run[r] = "idle" /\ r \notin streams /\ said[r] = 0 /\ r \notin streamedRuns
        BY <1>3 DEF ModelStarts, RunsAreTracked
  <2>2. TypeOK'
        BY <1>3 DEF ModelStarts, TypeOK, PC
  <2>3. RunsAreTracked' /\ NothingAskedYet'
        BY <1>3, <2>1 DEF ModelStarts, TypeOK, RunsAreTracked, NothingAskedYet
  <2>4. ASSUME NEW q \in Runs
        PROVE  heard'[q] = Count(IF run'[q] = "closed" \/ q \in streams' THEN said'[q] ELSE 0)
    <3>1. heard[q] = Count(IF run[q] = "closed" \/ q \in streams THEN said[q] ELSE 0)
          BY DEF TextOnce, Count
    <3>2. heard' = heard /\ said' = said
          BY <1>3 DEF ModelStarts
    <3>3. CASE q = r
          BY <2>1, <3>1, <3>2, <3>3
    <3>4. CASE q # r
      <4>1. run'[q] = run[q] /\ (q \in streams' <=> q \in streams)
            BY <1>3, <3>4 DEF ModelStarts, TypeOK
      <4> QED BY <3>1, <3>2, <4>1
    <3> QED BY <3>3, <3>4
  <2>5. TextOnce'
        BY <2>4 DEF TextOnce, Count
  <2> QED BY <2>2, <2>3, <2>5
<1>4. ASSUME NEW r \in Runs, ModelStreams(r) PROVE IInv'
  <2>1. said[r] \in Nat /\ said'[r] = said[r] + 1 /\ heard[r] = Count(said[r])
        BY <1>4, <1>0 DEF ModelStreams, TypeOK, TextOnce, Count
  <2>2. heard'[r] = Count(said'[r])
        BY <1>4, <2>1, CountAppend DEF ModelStreams, TypeOK
  <2>3. said' \in [Runs -> 0 .. MaxPieces]
        BY <1>4, <1>0 DEF ModelStreams, TypeOK
  <2>4. heard' \in [Runs -> Seq(Nat)]
    <3>1. Append(heard[r], said[r] + 1) \in Seq(Nat)
          BY <2>1 DEF TypeOK
    <3> QED BY <1>4, <3>1 DEF ModelStreams, TypeOK
  <2>5. TypeOK'
        BY <1>4, <2>3, <2>4 DEF ModelStreams, TypeOK, PC
  <2>6. RunsAreTracked' /\ NothingAskedYet'
    <3>1. RunsAreTracked'
          BY <1>4, <1>0, <2>1 DEF ModelStreams, TypeOK, RunsAreTracked
    <3>2. NothingAskedYet'
          BY <1>4 DEF ModelStreams, NothingAskedYet
    <3> QED BY <3>1, <3>2
  <2>7. ASSUME NEW q \in Runs
        PROVE  heard'[q] = Count(IF run'[q] = "closed" \/ q \in streams' THEN said'[q] ELSE 0)
    <3>1. CASE q = r
          BY <1>4, <2>2, <3>1 DEF ModelStreams
    <3>2. CASE q # r
          BY <1>4, <3>2 DEF ModelStreams, TypeOK, TextOnce, Count
    <3> QED BY <3>1, <3>2
  <2>8. TextOnce'
        BY <2>7 DEF TextOnce, Count
  <2> QED BY <2>5, <2>6, <2>8
<1>5. ASSUME NEW r \in Runs, ModelEnds(r) PROVE IInv'
  <2>1. PICK n \in FinalLength(r) :
             /\ said' = [said EXCEPT ![r] = n]
             /\ spoken' = IF n = 0 THEN spoken ELSE Append(spoken, r)
             /\ IF Suppressed(r, n)
                THEN UNCHANGED <<out, heard>>
                ELSE /\ Emit([type |-> "model.message", text |-> Text(r, n)])
                     /\ heard' = [heard EXCEPT ![r] = @ \o [i \in 1 .. n |-> i]]
        BY <1>5 DEF ModelEnds
  <2>2. n \in 0 .. MaxPieces /\ n \in Nat /\ (r \in streams => n = said[r])
        BY <1>0, <2>1 DEF FinalLength, TypeOK
  <2>3. run[r] = "open" /\ run' = [run EXCEPT ![r] = "closed"]
        /\ streams' = streams /\ streamedRuns' = streamedRuns
        BY <1>5 DEF ModelEnds
  <2>4. said'[r] = n /\ \A q \in Runs : q # r => said'[q] = said[q]
        BY <2>1 DEF TypeOK
  <2>5. heard'[r] = Count(n) /\ heard' \in [Runs -> Seq(Nat)]
        /\ \A q \in Runs : q # r => heard'[q] = heard[q]
    <3>1. Count(n) \in Seq(Nat)
          BY <2>2 DEF Count
    <3>2. CASE r \in streams
      <4>1. heard[r] = Count(said[r])
            BY <3>2 DEF TextOnce, Count
      <4>2. Suppressed(r, n)
            BY <2>2, <3>2 DEF Suppressed, RunsAreTracked, TypeOK
      <4> QED BY <2>1, <2>2, <3>2, <4>1, <4>2 DEF TypeOK
    <3>3. CASE r \notin streams
      <4>1. heard[r] = <<>> /\ r \notin streamedRuns
        <5>1. heard[r] = Count(0)
              BY <2>3, <3>3 DEF TextOnce, Count
        <5>2. r \notin streamedRuns
              BY <3>3 DEF RunsAreTracked
        <5> QED BY <5>1, <5>2, CountConcat, 0 \in Nat
      <4>2. CASE n = 0
        <5>1. Suppressed(r, n)
              BY <4>2 DEF Suppressed
        <5> QED BY <2>1, <4>1, <4>2, <5>1, CountConcat, 0 \in Nat DEF TypeOK
      <4>3. CASE n # 0
        <5>1. heard' = [heard EXCEPT ![r] = heard[r] \o Count(n)]
              BY <2>1, <4>1, <4>3 DEF Suppressed, Count
        <5>2. heard[r] \o Count(n) = Count(n)
              BY <2>2, <4>1, CountConcat
        <5> QED BY <3>1, <5>1, <5>2 DEF TypeOK
      <4> QED BY <4>2, <4>3
    <3> QED BY <3>2, <3>3
  <2>6. TypeOK'
    <3>1. said' \in [Runs -> 0 .. MaxPieces]
          BY <2>1, <2>2 DEF TypeOK
    <3>2. spoken' \in Seq(Runs)
      <4>1. Append(spoken, r) \in Seq(Runs)
            BY DEF TypeOK
      <4> QED BY <2>1, <4>1 DEF TypeOK
    <3> QED BY <1>5, <2>5, <3>1, <3>2 DEF ModelEnds, TypeOK, PC
  <2>7. RunsAreTracked' /\ NothingAskedYet'
        BY <1>5, <2>2, <2>3, <2>4 DEF ModelEnds, TypeOK, RunsAreTracked, NothingAskedYet
  <2>8. ASSUME NEW q \in Runs
        PROVE  heard'[q] = Count(IF run'[q] = "closed" \/ q \in streams' THEN said'[q] ELSE 0)
    <3>1. CASE q = r
          BY <2>3, <2>4, <2>5, <3>1 DEF TypeOK
    <3>2. CASE q # r
          BY <2>3, <2>4, <2>5, <3>2 DEF TypeOK, TextOnce, Count
    <3> QED BY <3>1, <3>2
  <2>9. TextOnce'
        BY <2>8 DEF TextOnce, Count
  <2> QED BY <2>6, <2>7, <2>9
<1>6. ASSUME NEW c \in ToolCalls, ToolStarts(c) PROVE IInv'
      BY <1>6 DEF ToolStarts, TypeOK, PC, RunsAreTracked, NothingAskedYet, TextOnce
<1>7. ASSUME NEW c \in ToolCalls, ToolEnds(c) PROVE IInv'
      BY <1>7 DEF ToolEnds, TypeOK, PC, RunsAreTracked, NothingAskedYet, TextOnce
<1>8. CASE GraphEnds
      BY <1>8 DEF GraphEnds, TypeOK, PC, RunsAreTracked, NothingAskedYet, TextOnce, graph
<1>9. CASE GraphFails
      BY <1>9 DEF GraphFails, TypeOK, PC, RunsAreTracked, NothingAskedYet, TextOnce, graph
<1>10. CASE CheckInterrupts
  <2>1. interrupts' \in Seq(Interrupts)
    <3>1. Cardinality(paused) \in Nat
          BY FS_Subset, FS_CardinalityType, InterruptAssumption
             DEF TypeOK, InterruptAssumption
    <3>2. interrupts' \in [1 .. Cardinality(paused) -> Interrupts]
          BY <1>10 DEF CheckInterrupts, Listings, TypeOK
    <3> QED BY <3>1, <3>2
  <2>2. asked' = 0 /\ Len(interrupts') \in Nat
        BY <1>10, <2>1 DEF CheckInterrupts, NothingAskedYet
  <2>3. asked' \in 0 .. Len(interrupts')
        BY <2>2
  <2> QED BY <1>10, <2>1, <2>3 DEF CheckInterrupts, TypeOK, PC, RunsAreTracked, NothingAskedYet, TextOnce, graph
<1>11. CASE CheckFails
      BY <1>11 DEF CheckFails, TypeOK, PC, RunsAreTracked, NothingAskedYet, TextOnce, graph
<1>12. CASE RequestApproval
  <2>1. Len(interrupts) \in Nat
        BY DEF TypeOK
  <2> QED BY <1>12, <2>1 DEF RequestApproval, TypeOK, PC, RunsAreTracked, NothingAskedYet, TextOnce, graph
<1>13. CASE EndTurn
      BY <1>13 DEF EndTurn, TypeOK, PC, RunsAreTracked, NothingAskedYet, TextOnce, graph
<1>14. CASE Cancel
      BY <1>14 DEF Cancel, TypeOK, PC, RunsAreTracked, NothingAskedYet, TextOnce, graph
<1>15. CASE UNCHANGED vars
      BY <1>15 DEF vars, graph, TypeOK, RunsAreTracked, NothingAskedYet, TextOnce
<1> QED BY <1>1, <1>2, <1>3, <1>4, <1>5, <1>6, <1>7, <1>8, <1>9, <1>10, <1>11,
           <1>12, <1>13, <1>14, <1>15 DEF Next, GraphStep

-----------------------------------------------------------------------------
(* The end of the turn: what has been yielded against what the generator     *)
(* holds and what the checkpoint says.                                       *)
Events ==
    [type : {"turn.start", "error"}]
        \cup [type : {"model.delta", "model.message"}, text : Seq(Runs \X Nat)]
        \cup [type : {"tool.call", "tool.result"}, tool : ToolCalls]
        \cup [type : {"approval.requested"}, interrupt : Interrupts]
        \cup [type : {"turn.end"}, interrupted : BOOLEAN, errored : BOOLEAN]

Asks == OfType("approval.requested")

\* What was asked so far is the beginning of the list, and only an error ends
\* a turn without the list being that of the checkpoint.
EndInv ==
    /\ out \in Seq(Events)
    /\ OfType("turn.end") # {} <=> pc = "ended"
    /\ IsFiniteSet(Asks) /\ Cardinality(Asks) = asked
    /\ {out[i].interrupt : i \in Asks} = {interrupts[j] : j \in 1 .. asked}
    /\ errored <=> OfType("error") # {}
    /\ errored => interrupts = <<>>
    /\ pc \in {"idle", "streaming", "checking"} => ~errored
    /\ pc \in {"ending", "ended"} /\ ~errored => interrupts \in Listings(paused)
    /\ pc = "ended" =>
          /\ asked = Len(interrupts)
          /\ OfType("turn.end") = {Len(out)}
          /\ out[Len(out)] =
                [type |-> "turn.end", interrupted |-> interrupts # <<>>, errored |-> errored]

\* An event that is yielded is the last one, and the only new one of its type.
LEMMA Yielded ==
  ASSUME out \in Seq(Events), NEW e \in Events, Emit(e)
  PROVE  /\ out' \in Seq(Events) /\ Len(out) \in Nat /\ Len(out') = Len(out) + 1
         /\ \A i \in DOMAIN out : i # Len(out) + 1 /\ out'[i] = out[i]
         /\ out'[Len(out) + 1] = e
         /\ \A t : OfType(t)' = IF e.type = t THEN OfType(t) \cup {Len(out) + 1} ELSE OfType(t)
<1>1. /\ out' \in Seq(Events) /\ Len(out) \in Nat /\ Len(out') = Len(out) + 1
      /\ DOMAIN out = 1 .. Len(out) /\ DOMAIN out' = 1 .. (Len(out) + 1)
      /\ \A i \in 1 .. Len(out) : out'[i] = out[i]
      /\ out'[Len(out) + 1] = e
  BY DEF Emit
<1>2. ASSUME NEW t
      PROVE  OfType(t)' = IF e.type = t THEN OfType(t) \cup {Len(out) + 1} ELSE OfType(t)
  <2>1. OfType(t)' = {i \in 1 .. (Len(out) + 1) : out'[i].type = t}
    BY <1>1 DEF OfType
  <2>2. \A i : i \in 1 .. (Len(out) + 1) <=> i \in 1 .. Len(out) \/ i = Len(out) + 1
    BY <1>1
  <2> QED
    BY <1>1, <2>1, <2>2 DEF OfType
<1> QED
  BY <1>1, <1>2

\* Nothing yielded, nothing asked.
LEMMA NothingYielded ==
  ASSUME UNCHANGED <<out, interrupts, asked>>
  PROVE  /\ \A t : OfType(t)' = OfType(t)
         /\ Asks' = Asks
         /\ {out[i].interrupt : i \in Asks}' = {out[i].interrupt : i \in Asks}
         /\ {interrupts[j] : j \in 1 .. asked}' = {interrupts[j] : j \in 1 .. asked}
<1>1. Asks' = Asks /\ \A t : OfType(t)' = OfType(t)
  BY DEF Asks, OfType
<1> QED
  BY <1>1

\* An event that is neither a request, an error nor the end tells nothing about
\* the end of the turn.
LEMMA PlainEvent ==
  ASSUME TypeOK, EndInv, pc \in {"idle", "streaming"}, pc' = "streaming",
         UNCHANGED <<interrupts, asked, errored>>,
         out' = out \/ \E e \in Events : /\ Emit(e)
                                         /\ e.type \notin {"approval.requested", "error", "turn.end"}
  PROVE  EndInv'
<1>1. CASE out' = out
  BY <1>1, NothingYielded DEF EndInv
<1>2. ASSUME NEW e \in Events, Emit(e), e.type \notin {"approval.requested", "error", "turn.end"}
      PROVE  EndInv'
  <2>1. /\ out' \in Seq(Events)
        /\ \A i \in DOMAIN out : out'[i] = out[i]
        /\ OfType("approval.requested")' = OfType("approval.requested")
        /\ OfType("error")' = OfType("error")
        /\ OfType("turn.end")' = OfType("turn.end")
    BY <1>2, Yielded DEF EndInv
  <2>2. \A i \in Asks : out'[i] = out[i]
    BY <2>1 DEF Asks, OfType
  <2>3. {out'[i].interrupt : i \in Asks'} = {out[i].interrupt : i \in Asks}
    BY <2>1, <2>2 DEF Asks
  <2> QED
    BY <2>1, <2>3 DEF EndInv, Asks
<1> QED
  BY <1>1, <1>2

LEMMA InitEndInv == Init => EndInv
<1> SUFFICES ASSUME Init PROVE EndInv
  OBVIOUS
<1>1. out = <<>> /\ out \in Seq(Events) /\ DOMAIN out = {}
  BY DEF Init
<1>2. \A t : OfType(t) = {}
  BY <1>1 DEF OfType
<1>3. IsFiniteSet({}) /\ Cardinality({}) = 0
  BY FS_EmptySet
<1>4. Asks = {} /\ asked = 0
  BY <1>2 DEF Asks, Init
<1>5. {out[i].interrupt : i \in Asks} = {} /\ {interrupts[j] : j \in 1 .. asked} = {}
  BY <1>4
<1> QED
  BY <1>1, <1>2, <1>3, <1>4, <1>5 DEF EndInv, Init

LEMMA NextEndInv == IInv /\ EndInv /\ [Next]_vars => EndInv'
<1> SUFFICES ASSUME IInv, EndInv, [Next]_vars PROVE EndInv'
  OBVIOUS
<1>t. TypeOK /\ NothingAskedYet
  BY DEF IInv
<1>0. MaxPieces \in Nat
  BY PieceAssumption DEF PieceAssumption
<1>1. CASE Begin
  <2>1. [type |-> "turn.start"] \in Events
    BY DEF Events
  <2> QED
    BY <1>1, <1>t, <2>1, PlainEvent DEF Begin
<1>2. ASSUME NEW r \in Runs, ModelStarts(r) PROVE EndInv'
  BY <1>2, <1>t, PlainEvent DEF ModelStarts
<1>3. ASSUME NEW r \in Runs, ModelStreams(r) PROVE EndInv'
  <2> DEFINE e == [type |-> "model.delta", text |-> <<<<r, said[r] + 1>>>>]
  <2>1. <<<<r, said[r] + 1>>>> \in Seq(Runs \X Nat)
    BY <1>0, <1>t DEF TypeOK
  <2>2. e \in Events /\ e.type = "model.delta"
    BY <2>1 DEF Events
  <2> HIDE DEF e
  <2>3. Emit(e)
    BY <1>3 DEF ModelStreams, e
  <2> QED
    BY <1>3, <1>t, <2>2, <2>3, PlainEvent DEF ModelStreams
<1>4. ASSUME NEW r \in Runs, ModelEnds(r) PROVE EndInv'
  <2>1. PICK n \in FinalLength(r) :
           \/ UNCHANGED out
           \/ Emit([type |-> "model.message", text |-> Text(r, n)])
    BY <1>4 DEF ModelEnds
  <2>2. n \in Nat
    BY <1>0, <1>t, <2>1 DEF FinalLength, TypeOK
  <2>3. Text(r, n) \in Seq(Runs \X Nat)
    <3>1. \A i \in 1 .. n : <<r, i>> \in Runs \X Nat
      BY <2>2
    <3> QED
      BY <2>2, <3>1 DEF Text
  <2> DEFINE e == [type |-> "model.message", text |-> Text(r, n)]
  <2>4. e \in Events /\ e.type = "model.message"
    BY <2>3 DEF Events
  <2> HIDE DEF e
  <2>5. UNCHANGED out \/ Emit(e)
    BY <2>1 DEF e
  <2> QED
    BY <1>4, <1>t, <2>4, <2>5, PlainEvent DEF ModelEnds
<1>5. ASSUME NEW c \in ToolCalls, ToolStarts(c) \/ ToolEnds(c) PROVE EndInv'
  <2>1. /\ [type |-> "tool.call", tool |-> c] \in Events
        /\ [type |-> "tool.result", tool |-> c] \in Events
    BY DEF Events
  <2> QED
    BY <1>5, <1>t, <2>1, PlainEvent DEF ToolStarts, ToolEnds
<1>6. CASE GraphFails
  <2>1. [type |-> "error"] \in Events
    BY DEF Events
  <2>2. Emit([type |-> "error"]) /\ UNCHANGED <<interrupts, asked>> /\ errored' = TRUE
        /\ pc = "streaming" /\ pc' = "ending"
    BY <1>6 DEF GraphFails
  <2>3. /\ out' \in Seq(Events)
        /\ \A i \in DOMAIN out : out'[i] = out[i]
        /\ OfType("approval.requested")' = OfType("approval.requested")
        /\ OfType("error")' = OfType("error") \cup {Len(out) + 1}
        /\ OfType("turn.end")' = OfType("turn.end")
    BY <2>1, <2>2, Yielded DEF EndInv
  <2>4. \A i \in Asks : out'[i] = out[i]
    BY <2>3 DEF Asks, OfType
  <2>5. {out'[i].interrupt : i \in Asks'} = {out[i].interrupt : i \in Asks}
    BY <2>3, <2>4 DEF Asks
  <2>6. interrupts = <<>>
    BY <1>t, <2>2 DEF NothingAskedYet
  <2> QED
    BY <2>2, <2>3, <2>5, <2>6 DEF EndInv, Asks
<1>7. CASE CheckInterrupts
  <2>1. /\ asked = 0 /\ asked' = 0 /\ out' = out /\ errored' = errored /\ ~errored
        /\ pc = "checking" /\ pc' = "ending" /\ paused' = paused
        /\ interrupts' \in Listings(paused)
    BY <1>7, <1>t DEF CheckInterrupts, NothingAskedYet, EndInv
  <2>2. \A t : OfType(t)' = OfType(t)
    BY <2>1 DEF OfType
  <2>3. {out[i].interrupt : i \in Asks} = {} /\ {interrupts'[j] : j \in 1 .. asked'} = {}
    <3>1. Asks = {}
      BY <2>1, FS_EmptySet DEF EndInv
    <3>2. 1 .. asked' = {}
      BY <2>1
    <3> QED
      BY <3>1, <3>2
  <2>4. Asks' = Asks /\ Listings(paused)' = Listings(paused)
    BY <2>1, <2>2 DEF Asks, Listings
  <2> QED
    BY <2>1, <2>2, <2>3, <2>4 DEF EndInv
<1>8. CASE RequestApproval
  <2> DEFINE e == [type |-> "approval.requested", interrupt |-> interrupts[asked + 1]]
             n == Len(out) + 1
  <2>1. /\ interrupts \in Seq(Interrupts) /\ Len(interrupts) \in Nat
        /\ asked \in Nat /\ asked < Len(interrupts) /\ asked' = asked + 1
        /\ UNCHANGED <<pc, paused, interrupts, errored>> /\ pc = "ending"
    BY <1>8, <1>t DEF RequestApproval, TypeOK
  <2>2. interrupts[asked + 1] \in Interrupts
    BY <2>1
  <2>3. e \in Events /\ e.type = "approval.requested" /\ e.interrupt = interrupts[asked + 1]
    BY <2>2 DEF Events
  <2>4. Emit(e)
    BY <1>8 DEF RequestApproval
  <2> HIDE DEF e
  <2>5. /\ out' \in Seq(Events)
        /\ \A i \in DOMAIN out : i # n /\ out'[i] = out[i]
        /\ out'[n] = e
        /\ OfType("approval.requested")' = OfType("approval.requested") \cup {n}
        /\ OfType("error")' = OfType("error")
        /\ OfType("turn.end")' = OfType("turn.end")
    BY <2>3, <2>4, Yielded DEF EndInv
  <2>6. Asks' = Asks \cup {n} /\ Asks \subseteq DOMAIN out
    BY <2>5 DEF Asks, OfType
  <2>7. IsFiniteSet(Asks') /\ Cardinality(Asks') = asked'
    <3>1. n \notin Asks
      BY <2>5, <2>6
    <3>2. IsFiniteSet(Asks \cup {n}) /\ Cardinality(Asks \cup {n}) = Cardinality(Asks) + 1
      BY <3>1, FS_AddElement DEF EndInv
    <3> QED
      BY <2>1, <2>6, <3>2 DEF EndInv
  <2>8. {out'[i].interrupt : i \in Asks'} = {out[i].interrupt : i \in Asks} \cup {interrupts[asked + 1]}
    BY <2>3, <2>5, <2>6
  <2>9. {interrupts[j] : j \in 1 .. asked + 1} = {interrupts[j] : j \in 1 .. asked} \cup {interrupts[asked + 1]}
    <3>1. \A j : j \in 1 .. asked + 1 <=> j \in 1 .. asked \/ j = asked + 1
      BY <2>1
    <3> QED
      BY <3>1
  <2>10. interrupts # <<>> /\ Listings(paused)' = Listings(paused)
    BY <2>1 DEF Listings
  <2>11. {out'[i].interrupt : i \in Asks'} = {interrupts'[j] : j \in 1 .. asked'}
    <3>1. {out[i].interrupt : i \in Asks} = {interrupts[j] : j \in 1 .. asked}
      BY DEF EndInv
    <3>2. {interrupts'[j] : j \in 1 .. asked'} = {interrupts[j] : j \in 1 .. asked + 1}
      BY <2>1
    <3> QED
      BY <2>8, <2>9, <3>1, <3>2
  <2>12. errored' <=> OfType("error")' # {}
    BY <2>1, <2>5 DEF EndInv
  <2>13. OfType("turn.end")' # {} <=> pc' = "ended"
    BY <2>1, <2>5 DEF EndInv
  <2>14. ~errored => interrupts \in Listings(paused)
    BY <2>1 DEF EndInv
  <2>15. errored => interrupts = <<>>
    BY DEF EndInv
  <2> QED
    BY <2>1, <2>5, <2>7, <2>10, <2>11, <2>12, <2>13, <2>14, <2>15 DEF EndInv
<1>9. CASE EndTurn
  <2> DEFINE e == [type |-> "turn.end", interrupted |-> interrupts # <<>>, errored |-> errored]
             n == Len(out) + 1
  <2>1. /\ asked = Len(interrupts) /\ pc = "ending" /\ pc' = "ended"
        /\ UNCHANGED <<asked, paused, interrupts, errored>>
    BY <1>9 DEF EndTurn
  <2>2. e \in Events /\ e.type = "turn.end"
    BY <1>t DEF Events, TypeOK
  <2>3. Emit(e)
    BY <1>9 DEF EndTurn
  <2>e. e' = e
    BY <2>1
  <2> HIDE DEF e
  <2>4. /\ out' \in Seq(Events) /\ Len(out') = n
        /\ \A i \in DOMAIN out : out'[i] = out[i]
        /\ out'[n] = e
        /\ OfType("approval.requested")' = OfType("approval.requested")
        /\ OfType("error")' = OfType("error")
        /\ OfType("turn.end")' = OfType("turn.end") \cup {n}
    BY <2>2, <2>3, Yielded DEF EndInv
  <2>5. OfType("turn.end")' = {n}
    BY <2>1, <2>4 DEF EndInv
  <2>6. \A i \in Asks : out'[i] = out[i]
    BY <2>4 DEF Asks, OfType
  <2>7. {out'[i].interrupt : i \in Asks'} = {out[i].interrupt : i \in Asks} /\ Asks' = Asks
    BY <2>4, <2>6 DEF Asks
  <2>8. out'[Len(out')] =
           [type |-> "turn.end", interrupted |-> interrupts' # <<>>, errored |-> errored']
    BY <2>1, <2>4 DEF e
  <2>9. Listings(paused)' = Listings(paused)
    BY <2>1 DEF Listings
  <2> QED
    BY <2>1, <2>4, <2>5, <2>7, <2>8, <2>9 DEF EndInv
<1>10. ASSUME UNCHANGED <<interrupts, asked, errored, out>>,
              \/ pc \in {"idle", "streaming"} /\ pc' = "checking"
              \/ pc' \in {"broken", "cancelled"} /\ pc # "ended"
              \/ UNCHANGED <<pc, paused>>
       PROVE  EndInv'
  <2>1. UNCHANGED paused => Listings(paused)' = Listings(paused)
    BY DEF Listings
  <2> QED
    BY <1>10, <2>1, NothingYielded DEF EndInv
<1>11. CASE GraphEnds \/ ResumeLookupFails \/ CheckFails \/ Cancel
  BY <1>10, <1>11 DEF GraphEnds, ResumeLookupFails, CheckFails, Cancel
<1>12. CASE UNCHANGED vars
  BY <1>10, <1>12 DEF vars
<1> QED
  BY <1>1, <1>2, <1>3, <1>4, <1>5, <1>6, <1>7, <1>8, <1>9, <1>11, <1>12 DEF Next, GraphStep

\* A list without repetitions, as long as the set has members, has them all.
LEMMA ListingIsAll ==
  ASSUME NEW S \in SUBSET Interrupts, NEW s \in Listings(S)
  PROVE  /\ IsFiniteSet(S) /\ Cardinality(S) \in Nat
         /\ Len(s) = Cardinality(S)
         /\ {s[j] : j \in 1 .. Len(s)} = S
<1>1. IsFiniteSet(S) /\ Cardinality(S) \in Nat
  BY FS_Subset, FS_CardinalityType, InterruptAssumption DEF InterruptAssumption
<1> DEFINE n == Cardinality(S)
<1>2. s \in [1 .. n -> S] /\ \A i, j \in 1 .. n : s[i] = s[j] => i = j
  BY DEF Listings
<1>3. Len(s) = n /\ DOMAIN s = 1 .. n
  BY <1>1, <1>2
<1>4. s \in Injection(1 .. n, S)
  BY <1>2 DEF Injection, IsInjective
<1>5. Cardinality(1 .. n) = n
  BY <1>1, FS_Interval
<1>6. s \in Surjection(1 .. n, S)
  BY <1>1, <1>4, <1>5, FS_Injection
<1>7. {s[j] : j \in 1 .. n} = S
  BY <1>2, <1>6 DEF Surjection
<1> QED
  BY <1>1, <1>3, <1>7

-----------------------------------------------------------------------------
\* The generator's state stays well typed for any runs, tools and interrupts.
THEOREM TypeCorrect == Spec => []TypeOK
<1>1. IInv => TypeOK
      BY DEF IInv
<1> QED BY InitIInv, NextIInv, <1>1, PTL DEF Spec

\* Every model run's text reaches the consumer exactly once, for any number of
\* interleaved runs and any length of text.
THEOREM TextReachesConsumerOnce == Spec => []TextOnce
<1>1. IInv => TextOnce
      BY DEF IInv
<1> QED BY InitIInv, NextIInv, <1>1, PTL DEF Spec

\* turn.end tells the truth: every interrupt of the checkpoint was asked for,
\* each once, unless an error was reported, for any number of interrupts.
THEOREM TurnsEndTruthfully == Spec => []TurnEndIsTruthful
<1>1. IInv /\ EndInv => TurnEndIsTruthful
  <2> SUFFICES ASSUME IInv, EndInv PROVE TurnEndIsTruthful
    OBVIOUS
  <2>1. CASE pc # "ended"
    BY <2>1 DEF EndInv, TurnEndIsTruthful
  <2>2. CASE pc = "ended"
    <3> DEFINE end == out[Len(out)]
    <3>0. errored \in BOOLEAN
      BY DEF IInv, TypeOK
    <3>1. /\ OfType("turn.end") = {Len(out)}
          /\ end.interrupted <=> interrupts # <<>>
          /\ end.errored <=> errored
      <4>1. /\ end = [type |-> "turn.end", interrupted |-> interrupts # <<>>, errored |-> errored]
            /\ OfType("turn.end") = {Len(out)}
        BY <2>2 DEF EndInv
      <4> HIDE DEF end
      <4>2. end.interrupted = (interrupts # <<>>) /\ end.errored = errored
        BY <4>1
      <4> QED
        BY <4>1, <4>2
    <3> HIDE DEF end
    <3>2. /\ interrupts \in Seq(Interrupts) /\ asked = Len(interrupts) /\ asked \in Nat
          /\ paused \subseteq Interrupts
      BY <2>2 DEF IInv, TypeOK, EndInv
    <3>3. interrupts # <<>> <=> Asks # {}
      <4>1. interrupts # <<>> <=> asked # 0
        BY <3>2
      <4>2. Cardinality(Asks) = 0 <=> Asks = {}
        BY FS_EmptySet DEF EndInv
      <4> QED
        BY <4>1, <4>2 DEF EndInv
    <3>4. ~errored => /\ {out[i].interrupt : i \in Asks} = paused
                      /\ Cardinality(Asks) = Cardinality(paused)
      <4> SUFFICES ASSUME ~errored
                   PROVE  /\ {out[i].interrupt : i \in Asks} = paused
                          /\ Cardinality(Asks) = Cardinality(paused)
        OBVIOUS
      <4>1. interrupts \in Listings(paused)
        BY <2>2 DEF EndInv
      <4> QED
        BY <3>2, <4>1, ListingIsAll DEF EndInv
    <3>5. errored => interrupts = <<>>
      BY DEF EndInv
    <3>6. errored <=> OfType("error") # {}
      BY DEF EndInv
    <3> QED
      BY <2>2, <3>1, <3>3, <3>4, <3>5, <3>6 DEF TurnEndIsTruthful, Asks, end
  <2> QED
    BY <2>1, <2>2
<1> QED
  BY <1>1, InitIInv, NextIInv, InitEndInv, NextEndInv, PTL DEF Spec

\* The consumers that fold the events, with what they start from and what one
\* event does to it.
Start(c) == IF c = "reply" THEN [final |-> <<>>, parts |-> <<>>]
                           ELSE [streamed |-> FALSE, shown |-> <<>>]
Consume(c, a, e) == IF c = "reply" THEN Take(a, e) ELSE Render(a, e)

\* The equation that FoldLeft's function on the sets of positions solves.
Solves(g, c, s, n) ==
    g = [t \in SUBSET (1 .. n) |->
           IF t = {} THEN Start(c) ELSE Consume(c, g[t \ {Max(t)}], s[Max(t)])]

\* Every nonempty set of naturals has a least member.
LEMMA Least ==
  ASSUME NEW T \in SUBSET Nat, T # {}
  PROVE  \E n \in T : \A m \in T : n <= m
<1> DEFINE R == {ss \in Nat \X Nat : ss[1] < ss[2]}
<1>1. IsWellFoundedOn(R, Nat)
  BY NatLessThanWellFounded DEF OpToRel
<1>2. \A x, y \in Nat : y < x => <<y, x>> \in R
  OBVIOUS
<1> HIDE DEF R
<1>3. PICK x \in T : \A y \in T : ~ (<<y, x>> \in R)
  BY <1>1, WFMin
<1>4. \A m \in T : ~ (m < x)
  BY <1>2, <1>3
<1>5. \A m \in T : x <= m
  BY <1>4
<1> QED
  BY <1>5

\* Induction over the naturals, for a property given as the set that has it.
LEMMA Inductively ==
  ASSUME NEW T, 0 \in T, \A n \in Nat : n \in T => n + 1 \in T
  PROVE  Nat \subseteq T
<1> SUFFICES ASSUME Nat \ T # {} PROVE FALSE
  OBVIOUS
<1>1. PICK n \in Nat \ T : \A m \in Nat \ T : n <= m
  BY Least
<1>2. n # 0 /\ n - 1 \in Nat
  OBVIOUS
<1>3. n - 1 \in T
  BY <1>1, <1>2
<1> QED
  BY <1>2, <1>3

\* The set that holds n and nothing above it: n is the one the fold takes last.
LEMMA LastPosition ==
  ASSUME NEW n \in Nat, NEW t \in SUBSET (1 .. n), n \in t
  PROVE  Max(t) = n /\ t \ {Max(t)} \in SUBSET (1 .. (n - 1))
<1>1. \A y \in t : n >= y
  OBVIOUS
<1>2. \A x \in t : (\A y \in t : x >= y) => x = n
  OBVIOUS
<1>3. Max(t) = n
  BY <1>1, <1>2 DEF Max
<1> QED
  BY <1>3

\* The first n + 1 positions are the first n and one more.
LEMMA Positions ==
  ASSUME NEW n \in Nat
  PROVE  /\ \A i : i \in 1 .. (n + 1) <=> i \in 1 .. n \/ i = n + 1
         /\ n + 1 \notin 1 .. n
  OBVIOUS

\* A solution at the first n + 1 positions.
LEMMA LastStep ==
  ASSUME NEW c, NEW s, NEW g, NEW n \in Nat, NEW j \in Nat, j < n, Solves(g, c, s, n)
  PROVE  g[1 .. 0] = Start(c) /\ g[1 .. j + 1] = Consume(c, g[1 .. j], s[j + 1])
<1>1. 1 .. j + 1 \in SUBSET (1 .. n) /\ 1 .. j + 1 \in SUBSET (1 .. j + 1) /\ j + 1 \in 1 .. j + 1
  OBVIOUS
<1>2. 1 .. j + 1 # {} /\ (1 .. j + 1) \ {j + 1} = 1 .. j
  BY Positions
<1>3. Max(1 .. j + 1) = j + 1
  BY <1>1, LastPosition
<1>4. 1 .. 0 = {} /\ {} \in SUBSET (1 .. n)
  OBVIOUS
<1>5. \A t \in SUBSET (1 .. n) :
        g[t] = IF t = {} THEN Start(c) ELSE Consume(c, g[t \ {Max(t)}], s[Max(t)])
  BY DEF Solves
<1> QED
  BY <1>1, <1>2, <1>3, <1>4, <1>5

\* The fold is well defined: its equation has a solution over any prefix.
LEMMA Solvable ==
  ASSUME NEW c, NEW s
  PROVE  \A n \in Nat : \E g : Solves(g, c, s, n)
<1> DEFINE T == {n \in Nat : \E g : Solves(g, c, s, n)}
<1>1. 0 \in T
  <2> DEFINE g == [t \in {{}} |-> Start(c)]
  <2>1. SUBSET (1 .. 0) = {{}}
    OBVIOUS
  <2>2. g = [t \in SUBSET (1 .. 0) |->
               IF t = {} THEN Start(c) ELSE Consume(c, g[t \ {Max(t)}], s[Max(t)])]
    BY <2>1
  <2> QED
    BY <2>2 DEF Solves
<1>2. ASSUME NEW n \in Nat, n \in T PROVE n + 1 \in T
  <2>1. PICK g : Solves(g, c, s, n)
    BY <1>2
  <2> DEFINE h == [t \in SUBSET (1 .. (n + 1)) |->
                     IF n + 1 \in t THEN Consume(c, g[t \ {n + 1}], s[n + 1]) ELSE g[t]]
  <2>2. ASSUME NEW t \in SUBSET (1 .. n + 1)
        PROVE  h[t] = IF t = {} THEN Start(c) ELSE Consume(c, h[t \ {Max(t)}], s[Max(t)])
    <3>1. CASE n + 1 \in t
      <4>1. Max(t) = n + 1 /\ t \ {n + 1} \in SUBSET (1 .. n) /\ n + 1 \notin t \ {n + 1}
        BY <3>1, LastPosition
      <4>2. SUBSET (1 .. n) \subseteq SUBSET (1 .. n + 1)
        OBVIOUS
      <4>3. h[t \ {n + 1}] = g[t \ {n + 1}]
        BY <4>1, <4>2
      <4> QED
        BY <3>1, <4>1, <4>3
    <3>2. CASE n + 1 \notin t
      <4>1. t \in SUBSET (1 .. n) /\ t \ {Max(t)} \in SUBSET (1 .. n)
        BY <3>2, Positions
      <4>2. h[t] = g[t] /\ h[t \ {Max(t)}] = g[t \ {Max(t)}]
        BY <3>2, <4>1
      <4> QED
        BY <2>1, <4>1, <4>2 DEF Solves
    <3> QED
      BY <3>1, <3>2
  <2>3. Solves(h, c, s, n + 1)
    <3> HIDE DEF h
    <3>1. h = [t \in SUBSET (1 .. n + 1) |-> h[t]]
      BY DEF h
    <3>2. h = [t \in SUBSET (1 .. n + 1) |-> IF t = {} THEN Start(c) ELSE Consume(c, h[t \ {Max(t)}], s[Max(t)])]
      BY <3>1, <2>2
    <3> QED
      BY <3>2 DEF Solves
  <2> HIDE DEF h
  <2> QED
    BY <2>3
<1> HIDE DEF T
<1>3. Nat \subseteq T
  BY <1>1, <1>2, Inductively
<1> QED
  BY <1>3 DEF T

\* Two folds over sequences that begin alike agree on what they share.
LEMMA SolutionsAgree ==
  ASSUME NEW c, NEW s, NEW z, NEW g, NEW h, NEW n \in Nat, NEW m \in Nat, NEW k \in Nat,
         Solves(g, c, s, n), Solves(h, c, z, m), k <= n, k <= m,
         \A i \in 1 .. k : s[i] = z[i]
  PROVE  g[1 .. k] = h[1 .. k]
<1> DEFINE T == {j \in Nat : j <= k => g[1 .. j] = h[1 .. j]}
<1>1. 0 \in T
  BY DEF Solves
<1>2. ASSUME NEW j \in Nat, j \in T PROVE j + 1 \in T
  <2> SUFFICES ASSUME j + 1 <= k PROVE g[1 .. j + 1] = h[1 .. j + 1]
    OBVIOUS
  <2>3. g[1 .. j + 1] = Consume(c, g[1 .. j], s[j + 1]) /\ h[1 .. j + 1] = Consume(c, h[1 .. j], z[j + 1])
    BY LastStep
  <2>4. g[1 .. j] = h[1 .. j] /\ s[j + 1] = z[j + 1]
    BY <1>2
  <2> QED
    BY <2>3, <2>4
<1> HIDE DEF T
<1>3. Nat \subseteq T
  BY <1>1, <1>2, Inductively
<1> QED
  BY <1>3 DEF T

\* What consumer c has made of the events.
Made(c, s) == (CHOOSE g : Solves(g, c, s, Len(s)))[1 .. Len(s)]

\* One event more: the consumer handles it and changes nothing else.
LEMMA OneMore ==
  ASSUME NEW c, NEW E, NEW s \in Seq(E), NEW e \in E
  PROVE  Made(c, <<>>) = Start(c) /\ Made(c, Append(s, e)) = Consume(c, Made(c, s), e)
<1> DEFINE n == Len(s)
           z == Append(s, e)
           g == CHOOSE f : Solves(f, c, s, n)
           h == CHOOSE f : Solves(f, c, z, n + 1)
           b == CHOOSE f : Solves(f, c, <<>>, 0)
<1>1. n \in Nat /\ Len(z) = n + 1 /\ z[n + 1] = e /\ \A i \in 1 .. n : z[i] = s[i]
  OBVIOUS
<1>2. Solves(g, c, s, n) /\ Solves(h, c, z, n + 1) /\ Solves(b, c, <<>>, 0)
  <2>1. \A y : \A j \in Nat : Solves(CHOOSE f : Solves(f, c, y, j), c, y, j)
    BY Solvable
  <2> QED
    BY <1>1, <2>1
<1>3. /\ Made(c, <<>>) = b[1 .. 0]
      /\ Made(c, s) = g[1 .. n] /\ Made(c, Append(s, e)) = h[1 .. n + 1]
  BY <1>1 DEF Made
<1> HIDE DEF n, z, g, h, b
<1>4. b[1 .. 0] = Start(c)
  <2>1. 1 .. 0 = {} /\ {} \in SUBSET (1 .. 0)
    OBVIOUS
  <2> QED
    BY <1>2, <2>1 DEF Solves
<1>5. g[1 .. n] = h[1 .. n]
  BY <1>1, <1>2, SolutionsAgree
<1>6. h[1 .. n + 1] = Consume(c, h[1 .. n], z[n + 1])
  <2>1. n + 1 \in Nat /\ n < n + 1
    BY <1>1
  <2> QED
    BY <1>1, <1>2, <2>1, LastStep
<1> QED
  BY <1>1, <1>3, <1>4, <1>5, <1>6

\* extract_reply's loop is the fold that Made computes.
LEMMA CollectedIsMade ==
  ASSUME NEW s, DOMAIN s = 1 .. Len(s)
  PROVE  Collected(s) = Made("reply", s)
<1> DEFINE P(g) == g = [t \in SUBSET DOMAIN s |->
                       IF t = {} THEN [final |-> <<>>, parts |-> <<>>]
                       ELSE Take(g[t \ {Max(t)}], s[Max(t)])]
<1>1. Collected(s) = (CHOOSE g : P(g))[DOMAIN s]
  BY DEF Collected, FoldLeft, MapThenFoldSet
<1>2. \A g : Solves(g, "reply", s, Len(s)) <=> P(g)
  BY DEF Solves, Start, Consume
<1> HIDE DEF P
<1>3. (CHOOSE g : P(g)) = (CHOOSE g : Solves(g, "reply", s, Len(s)))
  BY <1>2
<1> QED
  BY <1>1, <1>3 DEF Made

\* The terminal's rendering is the fold that Made computes.
LEMMA RenderedIsMade ==
  ASSUME NEW s, DOMAIN s = 1 .. Len(s)
  PROVE  Rendered(s) = Made("screen", s)
<1> DEFINE P(g) == g = [t \in SUBSET DOMAIN s |->
                       IF t = {} THEN [streamed |-> FALSE, shown |-> <<>>]
                       ELSE Render(g[t \ {Max(t)}], s[Max(t)])]
<1>1. Rendered(s) = (CHOOSE g : P(g))[DOMAIN s]
  BY DEF Rendered, FoldLeft, MapThenFoldSet
<1>2. \A g : Solves(g, "screen", s, Len(s)) <=> P(g)
  BY DEF Solves, Start, Consume
<1> HIDE DEF P
<1>3. (CHOOSE g : P(g)) = (CHOOSE g : Solves(g, "screen", s, Len(s)))
  BY <1>2
<1> QED
  BY <1>1, <1>3 DEF Made

\* What the consumers have made of the events so far.
Read == Collected(out)
Shown == Rendered(out).shown

Piece == Runs \X Nat
Screens == [streamed : BOOLEAN, shown : Seq(Piece)]
Reads == [final : Seq(Piece), parts : Seq(Piece)]

\* A run is in spoken when it has ended with text.
SpokenInv == \A r \in Runs : r \in Range(spoken) <=> run[r] = "closed" /\ said[r] > 0

\* The deltas are what the streamed runs have said, all of it when there is
\* one; the last message is all that a run has said that did not stream.
ReplyInv ==
    /\ Read \in Reads
    /\ streamedRuns # {} => Read.parts # <<>>
    /\ spoken # <<>> => Read.final # <<>> \/ streamedRuns # {}
    /\ \A r \in Runs : streamedRuns \subseteq {r} =>
          Read.parts = Text(r, IF r \in streamedRuns THEN said[r] ELSE 0)
    /\ \A i \in DOMAIN Read.parts : /\ Read.parts[i][1] \in streamedRuns
                                    /\ Read.parts[i][2] \in 1 .. said[Read.parts[i][1]]
    /\ Read.final # <<>> => \E r \in Range(spoken) : Read.final = Text(r, said[r])

\* The message that is kept is the last one; the deltas are all that the runs
\* have said that streamed, those of one run in their order.
WholeInv ==
    /\ \A i \in DOMAIN spoken :
          LastMessage(i) => Read.final = Text(spoken[i], said[spoken[i]])
    /\ (\A i \in DOMAIN spoken : spoken[i] \in streamedRuns) => Read.final = <<>>
    /\ \A r \in streamedRuns : \A n \in 1 .. said[r] :
          \E k \in DOMAIN Read.parts : Read.parts[k] = <<r, n>>
    /\ \A i, j \in DOMAIN Read.parts :
          i < j /\ Read.parts[i][1] = Read.parts[j][1] => Read.parts[i][2] < Read.parts[j][2]

\* A piece on the screen has been said, by a run that streams or is over.
ScreenInv ==
    /\ Rendered(out) \in Screens
    /\ \A i \in DOMAIN Shown : /\ Shown[i][2] \in 1 .. said[Shown[i][1]]
                               /\ \/ Shown[i][1] \in streamedRuns
                                  \/ run[Shown[i][1]] = "closed"
    /\ \A i, j \in DOMAIN Shown : Shown[i] = Shown[j] => i = j

\* A graph that came to its end has nothing open; an event of a tool call is
\* one of a call that was started.
QuietInv ==
    /\ pc \in {"checking", "ending", "ended"} /\ ~errored =>
          /\ \A r \in Runs : run[r] # "open"
          /\ \A c \in ToolCalls : call[c] # "open"
    /\ \A i \in OfType("tool.call") : call[out[i].tool] # "idle"

ConsumerInv == SpokenInv /\ ReplyInv /\ WholeInv /\ ScreenInv

\* An event reaches the consumers, which handle it.
LEMMA Handled ==
  ASSUME out \in Seq(Events), NEW e \in Events, Emit(e)
  PROVE  Read' = Take(Read, e) /\ Rendered(out)' = Render(Rendered(out), e)
<1>1. out' = Append(out, e) /\ out' \in Seq(Events)
  BY DEF Emit
<1>2. DOMAIN out = 1 .. Len(out) /\ DOMAIN out' = 1 .. Len(out')
  BY <1>1
<1>3. Collected(out) = Made("reply", out) /\ Collected(out') = Made("reply", out')
  BY <1>2, CollectedIsMade
<1>4. Rendered(out) = Made("screen", out) /\ Rendered(out') = Made("screen", out')
  BY <1>2, RenderedIsMade
<1>5. \A c : Made(c, Append(out, e)) = Consume(c, Made(c, out), e)
  BY OneMore
<1> QED
  BY <1>1, <1>3, <1>4, <1>5 DEF Consume, Read

\* Two of the events carry text.
LEMMA TextEvents ==
  ASSUME out \in Seq(Events), Read \in Reads, Rendered(out) \in Screens,
         NEW e \in Events, Emit(e)
  PROVE  /\ e.type = "model.delta" =>
              /\ Read' = [Read EXCEPT !.parts = @ \o e.text]
              /\ Rendered(out)' = [streamed |-> TRUE, shown |-> Shown \o e.text]
         /\ e.type = "model.message" =>
              /\ Read' = [Read EXCEPT !.final = e.text]
              /\ \/ Rendered(out)' = Rendered(out)
                 \/ Rendered(out)' = [Rendered(out) EXCEPT !.shown = @ \o e.text]
         /\ e.type \notin {"model.delta", "model.message"} =>
              /\ Read' = Read
              /\ Rendered(out)' \in Screens /\ Shown' = Shown
<1>1. Read' = Take(Read, e) /\ Rendered(out)' = Render(Rendered(out), e)
  BY Handled
<1>2. CASE e.type = "model.delta"
  BY <1>1, <1>2 DEF Take, Render, Shown
<1>3. CASE e.type = "model.message"
  BY <1>1, <1>3 DEF Take, Render
<1>4. CASE e.type \notin {"model.delta", "model.message"}
  <2>1. Take(Read, e) = Read
    BY <1>4 DEF Take
  <2>2. Render(Rendered(out), e) \in {Rendered(out), [Rendered(out) EXCEPT !.streamed = FALSE]}
    BY <1>4 DEF Render
  <2>3. Rendered(out)' \in Screens /\ Rendered(out)'.shown = Rendered(out).shown
    BY <1>1, <2>2 DEF Screens
  <2> QED
    BY <1>1, <1>4, <2>1, <2>3 DEF Shown
<1> QED
  BY <1>2, <1>3, <1>4

\* A step that changes neither what was said nor what was streamed, and yields
\* no text.
LEMMA SilentStep ==
  ASSUME ConsumerInv, out \in Seq(Events), UNCHANGED <<said, spoken, streamedRuns>>,
         \/ UNCHANGED run
         \/ \E r \in Runs : run[r] = "idle" /\ run' = [run EXCEPT ![r] = "open"],
         run \in [Runs -> {"idle", "open", "closed"}],
         out' = out \/ \E e \in Events : /\ Emit(e)
                                         /\ e.type \notin {"model.delta", "model.message"}
  PROVE  ConsumerInv'
<1>1. Read' = Read /\ Rendered(out)' \in Screens /\ Shown' = Shown
  BY TextEvents DEF ConsumerInv, ReplyInv, ScreenInv, Read, Shown
<1>2. \A r \in Runs : run'[r] = "closed" <=> run[r] = "closed"
  OBVIOUS
<1>3. SpokenInv'
  BY <1>2 DEF ConsumerInv, SpokenInv, Range
<1>4. ReplyInv'
  BY <1>1 DEF ConsumerInv, ReplyInv, Text, Range
<1>5. ScreenInv'
  <2>1. Rendered(out)' \in Screens
    BY <1>1
  <2>2. \A i \in DOMAIN Shown : Shown[i][1] \in Runs
    BY DEF ConsumerInv, ScreenInv, Screens, Shown, Piece
  <2> QED
    BY <1>1, <1>2, <2>2 DEF ConsumerInv, ScreenInv
<1>6. WholeInv'
  <2>1. \A i : LastMessage(i)' <=> LastMessage(i)
    BY DEF LastMessage
  <2>2. \A r, n : Text(r, n)' = Text(r, n)
    BY DEF Text
  <2>3. \A i \in DOMAIN spoken :
           LastMessage(i)' => Read'.final = Text(spoken[i], said[spoken[i]])
    BY <1>1, <2>1 DEF ConsumerInv, WholeInv
  <2>4. (\A i \in DOMAIN spoken : spoken[i] \in streamedRuns) => Read'.final = <<>>
    BY <1>1 DEF ConsumerInv, WholeInv
  <2>5. \A r \in streamedRuns : \A n \in 1 .. said[r] :
           \E k \in DOMAIN Read'.parts : Read'.parts[k] = <<r, n>>
    BY <1>1 DEF ConsumerInv, WholeInv
  <2>6. \A i, j \in DOMAIN Read'.parts :
           i < j /\ Read'.parts[i][1] = Read'.parts[j][1] => Read'.parts[i][2] < Read'.parts[j][2]
    BY <1>1 DEF ConsumerInv, WholeInv
  <2> QED
    BY <2>2, <2>3, <2>4, <2>5, <2>6 DEF WholeInv
<1> QED
  BY <1>3, <1>4, <1>5, <1>6 DEF ConsumerInv

\* Before a turn the consumers hold nothing.
LEMMA InitConsumerInv == Init => ConsumerInv /\ QuietInv
<1> SUFFICES ASSUME Init PROVE ConsumerInv /\ QuietInv
  OBVIOUS
<1>1. out = <<>> /\ DOMAIN out = 1 .. Len(out) /\ DOMAIN out = {}
  BY DEF Init
<1>2. \A c : Made(c, <<>>) = Start(c)
  <2>1. <<>> \in Seq({0}) /\ 0 \in {0}
    OBVIOUS
  <2> QED
    BY <2>1, OneMore
<1>3. Read = [final |-> <<>>, parts |-> <<>>] /\ Rendered(out) = [streamed |-> FALSE, shown |-> <<>>]
  BY <1>1, <1>2, CollectedIsMade, RenderedIsMade DEF Read, Start
<1>4. <<>> \in Seq(Piece)
  OBVIOUS
<1>5. SpokenInv
  BY DEF Init, SpokenInv, Range
<1>6. ReplyInv
  <2>1. \A r : Text(r, 0) = <<>>
    BY DEF Text
  <2> QED
    BY <1>3, <1>4, <2>1 DEF Init, ReplyInv, Reads
<1>7. ScreenInv
  BY <1>3, <1>4 DEF ScreenInv, Screens, Shown
<1>8. QuietInv
  BY <1>1 DEF Init, QuietInv, OfType
<1>9. WholeInv
  BY <1>3 DEF Init, WholeInv
<1> QED
  BY <1>5, <1>6, <1>7, <1>8, <1>9 DEF ConsumerInv

\* A sequence and one member more.
LEMMA OnePast ==
  ASSUME NEW S, NEW t \in Seq(S), NEW p \in S
  PROVE  /\ t \o <<p>> \in Seq(S) /\ Len(t) \in Nat /\ Len(t \o <<p>>) = Len(t) + 1
         /\ DOMAIN t = 1 .. Len(t) /\ DOMAIN (t \o <<p>>) = 1 .. (Len(t) + 1)
         /\ \A i \in 1 .. Len(t) : (t \o <<p>>)[i] = t[i]
         /\ (t \o <<p>>)[Len(t) + 1] = p
  OBVIOUS

\* A sequence after another.
LEMMA TwoParts ==
  ASSUME NEW S, NEW t \in Seq(S), NEW u \in Seq(S)
  PROVE  /\ Len(t) \in Nat /\ DOMAIN (t \o u) = 1 .. (Len(t) + Len(u))
         /\ \A i \in 1 .. Len(t) : (t \o u)[i] = t[i]
         /\ \A i \in (Len(t) + 1) .. (Len(t) + Len(u)) : (t \o u)[i] = u[i - Len(t)]
  OBVIOUS

\* The text of a run, one piece longer; and what is in it.
LEMMA TextGrows ==
  ASSUME NEW r \in Runs, NEW n \in Nat
  PROVE  /\ Text(r, n) \in Seq(Piece) /\ Len(Text(r, n)) = n /\ DOMAIN Text(r, n) = 1 .. n
         /\ \A i \in 1 .. n : Text(r, n)[i] = <<r, i>>
         /\ Text(r, n) \o <<<<r, n + 1>>>> = Text(r, n + 1)
         /\ Text(r, 0) = <<>>
<1>1. \A m \in Nat : Text(r, m) \in Seq(Piece) /\ Len(Text(r, m)) = m
  <2> SUFFICES ASSUME NEW m \in Nat PROVE Text(r, m) \in Seq(Piece) /\ Len(Text(r, m)) = m
    OBVIOUS
  <2>1. \A i \in 1 .. m : <<r, i>> \in Piece
    BY DEF Piece
  <2> QED
    BY <2>1 DEF Text
<1>2. <<<<r, n + 1>>>> \in Seq(Piece)
  BY DEF Piece
<1> DEFINE t == Text(r, n)
           u == t \o <<<<r, n + 1>>>>
           v == Text(r, n + 1)
<1>3. /\ \A i \in 1 .. n : t[i] = <<r, i>>
      /\ \A i \in 1 .. n + 1 : v[i] = <<r, i>>
  BY DEF Text
<1>4. t \in Seq(Piece) /\ v \in Seq(Piece) /\ Len(t) = n /\ Len(v) = n + 1
  BY <1>1
<1> HIDE DEF t, v
<1>5. u \in Seq(Piece) /\ Len(u) = n + 1
  BY <1>2, <1>4
<1>6. ASSUME NEW i \in 1 .. n + 1 PROVE u[i] = v[i]
  <2>0. <<r, n + 1>> \in Piece /\ t \in Seq(Piece)
    BY <1>4 DEF Piece
  <2>1. CASE i \in 1 .. n
    <3>1. u[i] = t[i]
      BY <1>4, <2>0, <2>1, OnePast
    <3> QED
      BY <1>3, <2>1, <3>1
  <2>2. CASE i = n + 1
    <3>0. u[Len(t) + 1] = <<r, n + 1>>
      BY <2>0, OnePast
    <3> HIDE DEF u
    <3>1. u[i] = <<r, n + 1>>
      BY <1>4, <2>2, <3>0
    <3> QED
      BY <1>3, <2>2, <3>1
  <2> QED
    BY <2>1, <2>2, Positions
<1>7. u = v
  BY <1>4, <1>5, <1>6, SeqEqual
<1>8. DOMAIN Text(r, n) = 1 .. n /\ Text(r, 0) = <<>>
  BY DEF Text
<1>9. t \o <<<<r, n + 1>>>> = v
  BY <1>7 DEF u
<1> QED
  BY <1>3, <1>4, <1>8, <1>9 DEF t, v

\* A delta is a new piece of its run, the next one.
LEMMA DeltaStep ==
  ASSUME ConsumerInv, EndInv, IInv, NEW r \in Runs, ModelStreams(r)
  PROVE  ConsumerInv'
<1> DEFINE p == <<r, said[r] + 1>>
           e == [type |-> "model.delta", text |-> <<p>>]
<1>0. /\ said \in [Runs -> Nat] /\ said[r] \in Nat /\ MaxPieces \in Nat
      /\ streamedRuns \subseteq Runs
  BY PieceAssumption DEF IInv, TypeOK, PieceAssumption
<1>1. p \in Piece /\ <<p>> \in Seq(Piece) /\ e \in Events
  BY <1>0 DEF Piece, Events
<1>2. /\ Emit(e) /\ run[r] = "open" /\ UNCHANGED <<run, spoken>>
      /\ said' = [said EXCEPT ![r] = @ + 1] /\ streamedRuns' = streamedRuns \cup {r}
  BY DEF ModelStreams
<1>3. /\ Read' = [Read EXCEPT !.parts = @ \o <<p>>]
      /\ Rendered(out)' = [streamed |-> TRUE, shown |-> Shown \o <<p>>]
  <2>1. e.type = "model.delta" /\ e.text = <<p>>
    OBVIOUS
  <2> HIDE DEF e
  <2> QED
    BY <1>1, <1>2, <2>1, TextEvents DEF ConsumerInv, ReplyInv, ScreenInv, EndInv
<1>4. said'[r] = said[r] + 1 /\ \A q \in Runs : q # r => said'[q] = said[q]
  BY <1>0, <1>2
<1> HIDE DEF p, e
<1>5. SpokenInv'
  <2>1. ASSUME NEW q \in Runs
        PROVE  run'[q] = "closed" /\ said'[q] > 0 <=> run[q] = "closed" /\ said[q] > 0
    BY <1>2, <1>4
  <2> QED
    BY <1>2, <2>1 DEF ConsumerInv, SpokenInv, Range
<1>6. Read \in Reads /\ Read.parts \in Seq(Piece) /\ Read.final \in Seq(Piece)
  BY DEF ConsumerInv, ReplyInv, Reads
<1>7. /\ Read' \in Reads /\ Read'.final = Read.final /\ Read'.parts = Read.parts \o <<p>>
      /\ Read'.parts \in Seq(Piece)
  <2>1. Read.parts \o <<p>> \in Seq(Piece)
    BY <1>1, <1>6, OnePast
  <2>2. Read' = [final |-> Read.final, parts |-> Read.parts \o <<p>>]
    BY <1>3, <1>6 DEF Reads
  <2>3. Read'.final = Read.final /\ Read'.parts = Read.parts \o <<p>>
    BY <2>2
  <2> QED
    BY <1>6, <2>1, <2>2, <2>3 DEF Reads
<1>8. /\ Len(Read'.parts) = Len(Read.parts) + 1 /\ Len(Read.parts) \in Nat
      /\ DOMAIN Read'.parts = 1 .. (Len(Read.parts) + 1)
      /\ \A i \in 1 .. Len(Read.parts) : Read'.parts[i] = Read.parts[i]
      /\ Read'.parts[Len(Read.parts) + 1] = p
  BY <1>1, <1>6, <1>7
<1>9. ASSUME NEW i \in DOMAIN Read'.parts
      PROVE  /\ Read'.parts[i][1] \in streamedRuns'
             /\ Read'.parts[i][2] \in 1 .. said'[Read'.parts[i][1]]
  <2>1. CASE i = Len(Read.parts) + 1
    BY <1>0, <1>2, <1>4, <1>8, <2>1 DEF p
  <2>2. CASE i \in 1 .. Len(Read.parts)
    <3>1. DOMAIN Read.parts = 1 .. Len(Read.parts)
      BY <1>6
    <3>2. /\ Read.parts[i][1] \in streamedRuns
          /\ Read.parts[i][2] \in 1 .. said[Read.parts[i][1]]
      BY <2>2, <3>1 DEF ConsumerInv, ReplyInv
    <3>3. Read'.parts[i] = Read.parts[i]
      BY <1>8, <2>2
    <3> QED
      BY <1>0, <1>2, <1>4, <3>2, <3>3
  <2> QED
    BY <1>8, <2>1, <2>2, Positions
<1>10. ASSUME NEW q \in Runs, streamedRuns' \subseteq {q}
       PROVE  Read'.parts = Text(q, IF q \in streamedRuns' THEN said'[q] ELSE 0)
  <2>1. q = r /\ streamedRuns \subseteq {r} /\ r \in streamedRuns'
    BY <1>2, <1>10
  <2>2. Read.parts = Text(r, said[r])
    <3>1. r \notin streamedRuns => said[r] = 0
      BY <1>0 DEF IInv, RunsAreTracked, ModelStreams
    <3> QED
      BY <2>1, <3>1 DEF ConsumerInv, ReplyInv
  <2> QED
    BY <1>0, <1>4, <1>7, <2>1, <2>2, TextGrows DEF p
<1>11. ReplyInv'
  <2>1. Read.final # <<>> => \E q \in Range(spoken)' : Read.final = Text(q, said'[q])
    <3> SUFFICES ASSUME Read.final # <<>>
                 PROVE  \E q \in Range(spoken)' : Read.final = Text(q, said'[q])
      OBVIOUS
    <3>1. PICK q \in Range(spoken) : Read.final = Text(q, said[q])
      BY DEF ConsumerInv, ReplyInv
    <3>2. q \in Runs
      BY <3>1 DEF IInv, TypeOK, Range
    <3>3. q # r
      BY <1>2, <3>1, <3>2 DEF ConsumerInv, SpokenInv
    <3>4. q \in Range(spoken)'
      BY <1>2, <3>1 DEF Range
    <3> QED
      BY <1>4, <3>1, <3>2, <3>3, <3>4
  <2>2. streamedRuns' # {} /\ Read'.parts # <<>>
    BY <1>2, <1>8
  <2> QED
    BY <1>7, <1>9, <1>10, <2>1, <2>2 DEF ReplyInv, Text
<1>12. ScreenInv'
  <2>0. Rendered(out) \in Screens /\ Shown \in Seq(Piece) /\ DOMAIN Shown = 1 .. Len(Shown)
    BY DEF ConsumerInv, ScreenInv, Screens, Shown
  <2>1. Rendered(out)' \in Screens /\ Shown' = Shown \o <<p>>
    <3>1. Shown \o <<p>> \in Seq(Piece)
      BY <1>1, <2>0
    <3> QED
      BY <1>3, <3>1 DEF Screens, Shown
  <2>2. /\ Len(Shown) \in Nat /\ DOMAIN Shown' = 1 .. (Len(Shown) + 1)
        /\ \A i \in 1 .. Len(Shown) : Shown'[i] = Shown[i]
        /\ Shown'[Len(Shown) + 1] = p
    BY <1>1, <2>0, <2>1
  <2>3. ASSUME NEW i \in 1 .. Len(Shown)
        PROVE  /\ Shown[i] # p
               /\ Shown[i][2] \in 1 .. said'[Shown[i][1]]
               /\ Shown[i][1] \in streamedRuns' \/ run'[Shown[i][1]] = "closed"
    <3>1. /\ Shown[i][2] \in 1 .. said[Shown[i][1]] /\ Shown[i][1] \in Runs
          /\ Shown[i][1] \in streamedRuns \/ run[Shown[i][1]] = "closed"
      BY <2>0 DEF ConsumerInv, ScreenInv, Piece
    <3> QED
      BY <1>0, <1>2, <1>4, <3>1 DEF p
  <2>4. p[1] \in streamedRuns' /\ p[2] \in 1 .. said'[p[1]]
    BY <1>0, <1>2, <1>4 DEF p
  <2>5. \A i, j \in DOMAIN Shown : Shown[i] = Shown[j] => i = j
    BY DEF ConsumerInv, ScreenInv
  <2>6. \A i \in DOMAIN Shown' : i \in 1 .. Len(Shown) \/ i = Len(Shown) + 1
    BY <2>2, Positions
  <2>7. \A i, j \in DOMAIN Shown' : Shown'[i] = Shown'[j] => i = j
    BY <2>0, <2>2, <2>3, <2>5, <2>6
  <2>8. ASSUME NEW i \in DOMAIN Shown'
        PROVE  /\ Shown'[i][2] \in 1 .. said'[Shown'[i][1]]
               /\ Shown'[i][1] \in streamedRuns' \/ run'[Shown'[i][1]] = "closed"
    BY <2>2, <2>3, <2>4, <2>6
  <2> QED
    BY <2>1, <2>7, <2>8 DEF ScreenInv
<1>13. WholeInv'
  <2> DEFINE m == Len(Read.parts)
  <2>0. DOMAIN Read.parts = 1 .. m /\ m \in Nat
    BY <1>6
  <2>1. \A i \in DOMAIN spoken : spoken[i] \in Runs /\ spoken[i] # r
    <3>1. spoken \in Seq(Runs)
      BY DEF IInv, TypeOK
    <3>2. \A i \in DOMAIN spoken : spoken[i] \in Runs /\ spoken[i] \in Range(spoken)
      BY <3>1 DEF Range
    <3>3. r \notin Range(spoken)
      BY <1>2 DEF ConsumerInv, SpokenInv
    <3> QED
      BY <3>2, <3>3
  <2>2. \A i \in DOMAIN spoken : spoken[i] \in streamedRuns' <=> spoken[i] \in streamedRuns
    BY <1>2, <2>1
  <2>3. \A i \in DOMAIN spoken' : LastMessage(i)' => Read'.final = Text(spoken[i], said'[spoken[i]])
    BY <1>2, <1>4, <1>7, <2>1, <2>2 DEF ConsumerInv, WholeInv, LastMessage
  <2>4. (\A i \in DOMAIN spoken' : spoken'[i] \in streamedRuns') => Read'.final = <<>>
    BY <1>2, <1>7, <2>2 DEF ConsumerInv, WholeInv
  <2>5. ASSUME NEW q \in streamedRuns', NEW n \in 1 .. said'[q]
        PROVE  \E k \in DOMAIN Read'.parts : Read'.parts[k] = <<q, n>>
    <3>1. CASE q = r /\ n = said[r] + 1
      <4>1. m + 1 \in DOMAIN Read'.parts /\ Read'.parts[m + 1] = <<q, n>>
        BY <1>8, <2>0, <3>1 DEF p
      <4> QED
        BY <4>1
    <3>2. CASE q \in streamedRuns /\ n \in 1 .. said[q]
      <4>1. PICK k \in DOMAIN Read.parts : Read.parts[k] = <<q, n>>
        BY <3>2 DEF ConsumerInv, WholeInv
      <4>2. k \in 1 .. m /\ k \in DOMAIN Read'.parts
        BY <1>8, <2>0, <4>1
      <4> QED
        BY <1>8, <4>1, <4>2
    <3>3. r \notin streamedRuns => said[r] = 0
      BY <1>0 DEF IInv, RunsAreTracked, ModelStreams
    <3>4. q = r => n = said[r] + 1 \/ (r \in streamedRuns /\ n \in 1 .. said[r])
      BY <1>0, <1>4, <2>5, <3>3
    <3>5. q # r => q \in streamedRuns /\ n \in 1 .. said[q]
      BY <1>0, <1>2, <1>4, <2>5
    <3> QED
      BY <3>1, <3>2, <3>4, <3>5
  <2>6. ASSUME NEW i \in DOMAIN Read'.parts, NEW j \in DOMAIN Read'.parts,
               i < j, Read'.parts[i][1] = Read'.parts[j][1]
        PROVE  Read'.parts[i][2] < Read'.parts[j][2]
    <3>1. i \in 1 .. m /\ Read'.parts[i] = Read.parts[i]
      BY <1>8, <2>6
    <3>2. CASE j \in 1 .. m
      <4>1. Read'.parts[j] = Read.parts[j]
        BY <1>8, <3>2
      <4> QED
        BY <2>0, <2>6, <3>1, <3>2, <4>1 DEF ConsumerInv, WholeInv
    <3>3. CASE j = m + 1
      <4>1. Read'.parts[j] = p
        BY <1>8, <3>3
      <4>2. Read.parts[i][1] = r
        BY <2>6, <3>1, <4>1 DEF p
      <4>3. Read.parts[i][2] \in 1 .. said[r]
        BY <2>0, <3>1, <4>2 DEF ConsumerInv, ReplyInv
      <4> QED
        BY <1>0, <3>1, <4>1, <4>3 DEF p
    <3> QED
      BY <1>8, <3>2, <3>3, Positions
  <2>7. \A q, k : Text(q, k)' = Text(q, k)
    BY DEF Text
  <2> QED
    BY <1>2, <2>3, <2>4, <2>5, <2>6, <2>7 DEF WholeInv
<1> QED
  BY <1>5, <1>11, <1>12, <1>13 DEF ConsumerInv

\* A run that did not stream ends: its message, if any, is all it has said.
LEMMA EndStep ==
  ASSUME ConsumerInv, EndInv, IInv, NEW r \in Runs, ModelEnds(r)
  PROVE  ConsumerInv'
<1>0. /\ said \in [Runs -> Nat] /\ MaxPieces \in Nat /\ streamedRuns \subseteq Runs
      /\ run \in [Runs -> {"idle", "open", "closed"}]
      /\ spoken \in Seq(Runs) /\ DOMAIN spoken = 1 .. Len(spoken)
  BY PieceAssumption DEF IInv, TypeOK, PieceAssumption
<1>1. PICK n \in FinalLength(r) :
        /\ said' = [said EXCEPT ![r] = n]
        /\ spoken' = IF n = 0 THEN spoken ELSE Append(spoken, r)
        /\ IF Suppressed(r, n)
           THEN out' = out
           ELSE Emit([type |-> "model.message", text |-> Text(r, n)])
  BY DEF ModelEnds
<1>2. n \in Nat /\ (r \in streams => n = said[r])
  BY <1>0, <1>1 DEF FinalLength
<1>3. /\ run[r] = "open" /\ run' = [run EXCEPT ![r] = "closed"] /\ streamedRuns' = streamedRuns
  BY DEF ModelEnds
<1>4. said'[r] = n /\ \A q \in Runs : q # r => said'[q] = said[q] /\ run'[q] = run[q]
  BY <1>0, <1>1, <1>3
<1>5. run'[r] = "closed"
  BY <1>0, <1>3
<1>6. /\ r \notin Range(spoken)
      /\ r \in streamedRuns => n = said[r] /\ n > 0
  BY <1>0, <1>2, <1>3 DEF ConsumerInv, SpokenInv, IInv, RunsAreTracked
<1>7. Range(spoken') = IF n = 0 THEN Range(spoken) ELSE Range(spoken) \cup {r}
  <2>1. ASSUME n # 0 PROVE Range(Append(spoken, r)) = Range(spoken) \cup {r}
    <3> DEFINE s == Append(spoken, r)
    <3>1. /\ DOMAIN s = 1 .. (Len(spoken) + 1) /\ s[Len(spoken) + 1] = r
          /\ \A i \in 1 .. Len(spoken) : s[i] = spoken[i]
      BY <1>0
    <3>2. \A i : i \in 1 .. (Len(spoken) + 1) <=> i \in 1 .. Len(spoken) \/ i = Len(spoken) + 1
      BY <1>0, Positions
    <3> HIDE DEF s
    <3>3. Range(s) = {s[i] : i \in 1 .. Len(spoken)} \cup {r}
      BY <3>1, <3>2 DEF Range
    <3> QED
      BY <1>0, <3>1, <3>3 DEF Range, s
  <2> QED
    BY <1>1, <2>1
<1>8. SpokenInv'
  <2>1. ASSUME NEW q \in Runs
        PROVE  q \in Range(spoken') <=> run'[q] = "closed" /\ said'[q] > 0
    <3>1. CASE q = r
      BY <1>2, <1>4, <1>5, <1>6, <1>7, <3>1
    <3>2. CASE q # r
      BY <1>4, <1>7, <3>2 DEF ConsumerInv, SpokenInv
    <3> QED
      BY <3>1, <3>2
  <2> QED
    BY <2>1 DEF SpokenInv
<1>9. \A q \in streamedRuns : said'[q] = said[q]
  BY <1>0, <1>4, <1>6
<1> DEFINE e == [type |-> "model.message", text |-> Text(r, n)]
<1>10. e \in Events /\ e.type = "model.message" /\ e.text = Text(r, n) /\ Text(r, n) \in Seq(Piece)
  <2>1. Text(r, n) \in Seq(Piece)
    BY <1>2, TextGrows
  <2> QED
    BY <2>1 DEF Events, Piece
<1> HIDE DEF e
<1>11. \/ Suppressed(r, n) /\ Read' = Read /\ Rendered(out)' = Rendered(out)
       \/ /\ ~Suppressed(r, n)
          /\ Read' = [Read EXCEPT !.final = Text(r, n)]
          /\ \/ Rendered(out)' = Rendered(out)
             \/ Rendered(out)' = [Rendered(out) EXCEPT !.shown = @ \o Text(r, n)]
  <2>1. CASE Suppressed(r, n)
    BY <1>1, <2>1 DEF Read
  <2>2. CASE ~Suppressed(r, n)
    <3>1. Emit(e)
      BY <1>1, <2>2 DEF e
    <3> QED
      BY <1>10, <2>2, <3>1, TextEvents DEF ConsumerInv, ReplyInv, ScreenInv, EndInv
  <2> QED
    BY <2>1, <2>2
<1>12. Read \in Reads /\ Read.parts \in Seq(Piece) /\ Read.final \in Seq(Piece)
  BY DEF ConsumerInv, ReplyInv, Reads
<1>13. /\ Read' \in Reads /\ Read'.parts = Read.parts
       /\ Read'.final = IF Suppressed(r, n) THEN Read.final ELSE Text(r, n)
  BY <1>10, <1>11, <1>12 DEF Reads
<1>14. ReplyInv'
  <2>1. spoken' # <<>> => Read'.final # <<>> \/ streamedRuns # {}
    <3>1. CASE n = 0
      BY <1>1, <1>13, <3>1 DEF ConsumerInv, ReplyInv, Suppressed
    <3>2. CASE n # 0 /\ r \notin streamedRuns
      <4>1. Len(Text(r, n)) = n
        BY <1>2, TextGrows
      <4> QED
        BY <1>2, <1>13, <3>2, <4>1 DEF Suppressed
    <3>3. CASE r \in streamedRuns
      BY <3>3
    <3> QED
      BY <3>1, <3>2, <3>3
  <2>2. ASSUME Read'.final # <<>> PROVE \E q \in Range(spoken') : Read'.final = Text(q, said'[q])
    <3>1. CASE Suppressed(r, n)
      <4>1. PICK q \in Range(spoken) : Read.final = Text(q, said[q])
        BY <1>13, <2>2, <3>1 DEF ConsumerInv, ReplyInv
      <4>2. q # r /\ q \in Range(spoken')
        BY <1>6, <1>7, <4>1
      <4>3. q \in Runs
        BY <1>0, <4>1 DEF Range
      <4> QED
        BY <1>4, <1>13, <3>1, <4>1, <4>2, <4>3
    <3>2. CASE ~Suppressed(r, n)
      BY <1>4, <1>7, <1>13, <3>2 DEF Suppressed
    <3> QED
      BY <3>1, <3>2
  <2>3. ASSUME NEW q \in Runs, streamedRuns \subseteq {q}
        PROVE  Read.parts = Text(q, IF q \in streamedRuns THEN said'[q] ELSE 0)
    BY <1>9, <2>3 DEF ConsumerInv, ReplyInv
  <2>4. \A i \in DOMAIN Read.parts : /\ Read.parts[i][1] \in streamedRuns
                                      /\ Read.parts[i][2] \in 1 .. said'[Read.parts[i][1]]
    BY <1>9 DEF ConsumerInv, ReplyInv
  <2>5. streamedRuns # {} => Read.parts # <<>>
    BY DEF ConsumerInv, ReplyInv
  <2>6. \A q, m : Text(q, m)' = Text(q, m)
    BY DEF Text
  <2> QED
    BY <1>3, <1>13, <2>1, <2>2, <2>3, <2>4, <2>5 DEF ReplyInv, Text, Range
<1>15. ScreenInv'
  <2>0. Rendered(out) \in Screens /\ Shown \in Seq(Piece) /\ DOMAIN Shown = 1 .. Len(Shown)
    BY DEF ConsumerInv, ScreenInv, Screens, Shown
  <2>1. ASSUME NEW i \in 1 .. Len(Shown)
        PROVE  /\ Shown[i][1] \in Runs
               /\ Shown[i][2] \in 1 .. said'[Shown[i][1]]
               /\ Shown[i][1] \in streamedRuns' \/ run'[Shown[i][1]] = "closed"
               /\ Shown[i][1] = r => r \in streamedRuns
    <3>1. /\ Shown[i][2] \in 1 .. said[Shown[i][1]] /\ Shown[i][1] \in Runs
          /\ Shown[i][1] \in streamedRuns \/ run[Shown[i][1]] = "closed"
      BY <2>0 DEF ConsumerInv, ScreenInv, Piece
    <3> QED
      BY <1>3, <1>4, <1>5, <1>6, <3>1
  <2>2. CASE Rendered(out)' = Rendered(out)
    BY <2>0, <2>1, <2>2 DEF ConsumerInv, ScreenInv, Shown
  <2>3. CASE ~Suppressed(r, n) /\ Rendered(out)' = [Rendered(out) EXCEPT !.shown = @ \o Text(r, n)]
    <3> DEFINE t == Text(r, n)
               s == Shown \o t
               m == Len(Shown)
    <3>1. Rendered(out)' \in Screens /\ Shown' = s
      <4>1. Shown \o t \in Seq(Piece)
        BY <1>10, <2>0
      <4> QED
        BY <2>0, <2>3, <4>1 DEF Screens, Shown
    <3>2. Len(t) = n /\ \A i \in 1 .. n : t[i] = <<r, i>>
      BY <1>2, TextGrows
    <3> HIDE DEF t
    <3>3. /\ m \in Nat /\ DOMAIN s = 1 .. (m + n)
          /\ \A i \in 1 .. m : s[i] = Shown[i]
          /\ \A i \in (m + 1) .. (m + n) : s[i] = t[i - m]
      <4>1. t \in Seq(Piece)
        BY <1>10 DEF t
      <4> QED
        BY <2>0, <3>2, <4>1, TwoParts
    <3>4. \A i \in (m + 1) .. (m + n) : i - m \in 1 .. n /\ s[i] = <<r, i - m>>
      BY <1>2, <3>2, <3>3
    <3> HIDE DEF m, s
    <3>5. \A i : i \in 1 .. (m + n) <=> i \in 1 .. m \/ i \in (m + 1) .. (m + n)
      BY <1>2, <3>3
    <3>6. \A i \in 1 .. m : s[i][1] # r
      BY <2>1, <2>3, <3>3 DEF Suppressed, m
    <3>7. ASSUME NEW i \in DOMAIN s
          PROVE  /\ s[i][2] \in 1 .. said'[s[i][1]]
                 /\ s[i][1] \in streamedRuns' \/ run'[s[i][1]] = "closed"
      <4>1. CASE i \in 1 .. m
        BY <2>1, <3>3, <4>1 DEF m
      <4>2. CASE i \in (m + 1) .. (m + n)
        BY <1>4, <1>5, <3>4, <4>2
      <4> QED
        BY <3>3, <3>5, <4>1, <4>2
    <3>8. ASSUME NEW i \in DOMAIN s, NEW j \in DOMAIN s, s[i] = s[j] PROVE i = j
      <4>1. CASE i \in 1 .. m /\ j \in 1 .. m
        BY <2>0, <3>3, <3>8, <4>1 DEF ConsumerInv, ScreenInv, m
      <4>2. CASE i \in (m + 1) .. (m + n) /\ j \in (m + 1) .. (m + n)
        <5>1. i - m = j - m /\ i \in Int /\ j \in Int
          BY <3>4, <3>8, <4>2
        <5> QED
          BY <3>3, <5>1
      <4>3. CASE i \in 1 .. m /\ j \in (m + 1) .. (m + n)
        BY <3>4, <3>6, <3>8, <4>3
      <4>4. CASE j \in 1 .. m /\ i \in (m + 1) .. (m + n)
        BY <3>4, <3>6, <3>8, <4>4
      <4> QED
        BY <3>3, <3>5, <4>1, <4>2, <4>3, <4>4
    <3> QED
      BY <3>1, <3>7, <3>8 DEF ScreenInv
  <2> QED
    BY <1>11, <2>2, <2>3
<1>16. WholeInv'
  <2> DEFINE m == Len(spoken)
  <2>1. \A i \in DOMAIN spoken : spoken[i] \in Runs /\ spoken[i] # r
    BY <1>0, <1>6 DEF Range
  <2>2. /\ \A i \in DOMAIN spoken' : LastMessage(i)' => Read'.final = Text(spoken'[i], said'[spoken'[i]])
        /\ (\A i \in DOMAIN spoken' : spoken'[i] \in streamedRuns) => Read'.final = <<>>
    <3>1. CASE n = 0
      <4>1. spoken' = spoken /\ Read'.final = Read.final
        BY <1>1, <1>13, <3>1 DEF Suppressed
      <4> QED
        BY <1>3, <1>4, <2>1, <4>1 DEF ConsumerInv, WholeInv, LastMessage
    <3>2. CASE n # 0
      <4>1. /\ m \in Nat /\ DOMAIN spoken' = 1 .. (m + 1) /\ spoken'[m + 1] = r
            /\ \A i \in 1 .. m : spoken'[i] = spoken[i]
        BY <1>0, <1>1, <3>2
      <4>2. \A i \in 1 .. (m + 1) : i \in 1 .. m \/ i = m + 1
        BY <4>1
      <4>3. \A i \in 1 .. m : i < m + 1 /\ m + 1 \in 1 .. (m + 1) /\ i \in 1 .. (m + 1)
        BY <4>1
      <4>4. CASE r \in streamedRuns
        <5>1. Read'.final = Read.final
          BY <1>13, <4>4 DEF Suppressed
        <5>2. \A i : i = m + 1 => ~LastMessage(i)'
          BY <1>3, <4>1, <4>4 DEF LastMessage
        <5>3. \A i \in 1 .. m : LastMessage(i)' => LastMessage(i)
          BY <1>0, <1>3, <4>1, <4>3 DEF LastMessage
        <5>4. \A i \in 1 .. m : said'[spoken'[i]] = said[spoken[i]]
          BY <1>0, <1>4, <2>1, <4>1
        <5>5. ASSUME NEW i \in DOMAIN spoken', LastMessage(i)'
              PROVE  Read'.final = Text(spoken'[i], said'[spoken'[i]])
          <6>1. i \in 1 .. m /\ LastMessage(i)
            BY <4>1, <4>2, <5>2, <5>3, <5>5
          <6> QED
            BY <1>0, <4>1, <5>1, <5>4, <6>1 DEF ConsumerInv, WholeInv
        <5>6. ASSUME \A i \in DOMAIN spoken' : spoken'[i] \in streamedRuns PROVE Read'.final = <<>>
          <6>1. \A i \in DOMAIN spoken : spoken[i] \in streamedRuns
            BY <1>0, <4>1, <4>3, <5>6
          <6> QED
            BY <5>1, <6>1 DEF ConsumerInv, WholeInv
        <5> QED
          BY <5>5, <5>6
      <4>5. CASE r \notin streamedRuns
        <5>1. Read'.final = Text(r, n)
          BY <1>13, <3>2, <4>5 DEF Suppressed
        <5>2. \A i \in 1 .. m : ~LastMessage(i)'
          BY <1>3, <4>1, <4>3, <4>5 DEF LastMessage
        <5>3. m + 1 \in DOMAIN spoken' /\ spoken'[m + 1] \notin streamedRuns
          BY <4>1, <4>5
        <5> QED
          BY <1>4, <4>1, <4>2, <5>1, <5>2, <5>3
      <4> QED
        BY <4>4, <4>5
    <3> QED
      BY <3>1, <3>2
  <2>3. \A q \in streamedRuns : \A k \in 1 .. said'[q] :
           \E j \in DOMAIN Read.parts : Read.parts[j] = <<q, k>>
    BY <1>9 DEF ConsumerInv, WholeInv
  <2>4. \A i, j \in DOMAIN Read.parts :
           i < j /\ Read.parts[i][1] = Read.parts[j][1] => Read.parts[i][2] < Read.parts[j][2]
    BY DEF ConsumerInv, WholeInv
  <2>5. \A q, k : Text(q, k)' = Text(q, k)
    BY DEF Text
  <2> QED
    BY <1>3, <1>13, <2>2, <2>3, <2>4, <2>5 DEF WholeInv
<1> QED
  BY <1>8, <1>14, <1>15, <1>16 DEF ConsumerInv

\* Every step keeps what the consumers hold in line with what was said.
LEMMA NextConsumerInv == ConsumerInv /\ QuietInv /\ IInv /\ EndInv /\ [Next]_vars => ConsumerInv' /\ QuietInv'
<1> SUFFICES ASSUME ConsumerInv, QuietInv, IInv, EndInv, [Next]_vars PROVE ConsumerInv' /\ QuietInv'
  OBVIOUS
<1>t. /\ out \in Seq(Events) /\ run \in [Runs -> {"idle", "open", "closed"}]
      /\ call \in [ToolCalls -> {"idle", "open", "closed"}]
      /\ errored \in BOOLEAN
      /\ interrupts \in Seq(Interrupts) /\ asked \in Nat
      /\ \A i \in OfType("tool.call") : out[i].tool \in ToolCalls
  <2>1. out \in Seq(Events)
    BY DEF EndInv
  <2>2. \A e \in Events : e.type = "tool.call" => e.tool \in ToolCalls
    BY DEF Events
  <2> QED
    BY <2>1, <2>2 DEF IInv, TypeOK, OfType
\* What keeps QuietInv: the calls known stay known, nothing opens at the end.
<1>q. ASSUME out' = out \/ \E e \in Events : Emit(e) /\ e.type # "tool.call",
             \A c \in ToolCalls : call[c] # "idle" => call'[c] # "idle",
             pc' \in {"checking", "ending", "ended"} /\ ~errored' =>
                /\ \A r \in Runs : run'[r] # "open"
                /\ \A c \in ToolCalls : call'[c] # "open"
      PROVE  QuietInv'
  <2>1. OfType("tool.call")' = OfType("tool.call") /\ \A i \in OfType("tool.call") : out'[i] = out[i]
    <3>1. CASE out' = out
      BY <3>1 DEF OfType
    <3>2. ASSUME NEW e \in Events, Emit(e), e.type # "tool.call"
          PROVE  OfType("tool.call")' = OfType("tool.call") /\ \A i \in OfType("tool.call") : out'[i] = out[i]
      BY <1>t, <3>2, Yielded DEF OfType
    <3> QED
      BY <1>q, <3>1, <3>2
  <2>2. \A i \in OfType("tool.call") : call'[out[i].tool] # "idle"
    BY <1>t, <1>q DEF QuietInv
  <2> QED
    BY <1>q, <2>1, <2>2 DEF QuietInv
<1>1. CASE Begin
  <2>1. [type |-> "turn.start"] \in Events
    BY DEF Events
  <2>2. ConsumerInv'
    BY <1>1, <1>t, <2>1, SilentStep DEF Begin, graph
  <2>3. QuietInv'
    BY <1>1, <1>q, <2>1 DEF Begin, graph
  <2> QED
    BY <2>2, <2>3
<1>2. ASSUME NEW r \in Runs, ModelStarts(r) PROVE ConsumerInv' /\ QuietInv'
  <2>1. ConsumerInv'
    BY <1>2, <1>t, SilentStep DEF ModelStarts
  <2>2. QuietInv'
    BY <1>2, <1>q DEF ModelStarts
  <2> QED
    BY <2>1, <2>2
<1>3. ASSUME NEW r \in Runs, ModelStreams(r) PROVE ConsumerInv' /\ QuietInv'
  <2> DEFINE e == [type |-> "model.delta", text |-> <<<<r, said[r] + 1>>>>]
  <2>1. <<r, said[r] + 1>> \in Runs \X Nat
    BY PieceAssumption DEF IInv, TypeOK, PieceAssumption
  <2>2. e \in Events /\ e.type # "tool.call"
    BY <2>1 DEF Events
  <2> HIDE DEF e
  <2>3. Emit(e) /\ UNCHANGED <<pc, call>> /\ pc = "streaming"
    BY <1>3 DEF ModelStreams, e
  <2>4. QuietInv'
    BY <1>q, <2>2, <2>3
  <2> QED
    BY <1>3, <2>4, DeltaStep
<1>4. ASSUME NEW r \in Runs, ModelEnds(r) PROVE ConsumerInv' /\ QuietInv'
  <2>1. PICK n \in FinalLength(r) :
           \/ UNCHANGED out
           \/ Emit([type |-> "model.message", text |-> Text(r, n)])
    BY <1>4 DEF ModelEnds
  <2> DEFINE e == [type |-> "model.message", text |-> Text(r, n)]
  <2>2. n \in Nat
    BY <2>1, PieceAssumption DEF FinalLength, IInv, TypeOK, PieceAssumption
  <2>3. e \in Events /\ e.type # "tool.call"
    BY <2>2, TextGrows DEF Events, Piece
  <2> HIDE DEF e
  <2>4. (out' = out \/ Emit(e)) /\ UNCHANGED <<pc, call>> /\ pc = "streaming"
    BY <1>4, <2>1 DEF ModelEnds, e
  <2>5. QuietInv'
    BY <1>q, <2>3, <2>4
  <2> QED
    BY <1>4, <2>5, EndStep
<1>5. ASSUME NEW c \in ToolCalls, ToolStarts(c) PROVE ConsumerInv' /\ QuietInv'
  <2> DEFINE e == [type |-> "tool.call", tool |-> c]
             n == Len(out) + 1
  <2>1. e \in Events /\ e.type = "tool.call" /\ e.tool = c
    BY DEF Events
  <2> HIDE DEF e
  <2>2. /\ Emit(e) /\ UNCHANGED <<pc, run, said, spoken, streamedRuns>> /\ pc = "streaming"
        /\ call' = [call EXCEPT ![c] = "open"]
    BY <1>5 DEF ToolStarts, e
  <2>3. ConsumerInv'
    BY <1>t, <2>1, <2>2, SilentStep
  <2>4. /\ OfType("tool.call")' = OfType("tool.call") \cup {n} /\ out'[n] = e
        /\ \A i \in OfType("tool.call") : out'[i] = out[i]
    BY <1>t, <2>1, <2>2, Yielded DEF OfType
  <2>5. \A k \in ToolCalls : k = c \/ call[k] # "idle" => call'[k] # "idle"
    BY <1>t, <2>2
  <2>6. \A i \in OfType("tool.call") : call'[out'[i].tool] # "idle"
    BY <1>t, <2>4, <2>5 DEF QuietInv
  <2> QED
    BY <2>1, <2>2, <2>3, <2>4, <2>5, <2>6 DEF QuietInv
<1>6. ASSUME NEW c \in ToolCalls, ToolEnds(c) PROVE ConsumerInv' /\ QuietInv'
  <2>1. [type |-> "tool.result", tool |-> c] \in Events
    BY DEF Events
  <2>2. ConsumerInv'
    BY <1>6, <1>t, <2>1, SilentStep DEF ToolEnds
  <2>3. \A k \in ToolCalls : call[k] # "idle" => call'[k] # "idle"
    BY <1>6, <1>t DEF ToolEnds
  <2>4. QuietInv'
    BY <1>6, <1>q, <2>1, <2>3 DEF ToolEnds
  <2> QED
    BY <2>2, <2>4
<1>7. CASE GraphEnds \/ CheckInterrupts \/ ResumeLookupFails \/ CheckFails \/ Cancel \/ UNCHANGED vars
  <2>1. UNCHANGED <<run, call, said, spoken, streamedRuns, errored, out>>
    BY <1>7 DEF GraphEnds, CheckInterrupts, ResumeLookupFails, CheckFails, Cancel, vars, graph
  <2>2. ConsumerInv'
    BY <1>t, <2>1, SilentStep
  <2>3. pc' \in {"checking", "ending", "ended"} /\ ~errored' =>
          /\ \A r \in Runs : run'[r] # "open"
          /\ \A c \in ToolCalls : call'[c] # "open"
    BY <1>7, <2>1 DEF GraphEnds, CheckInterrupts, ResumeLookupFails, CheckFails, Cancel, vars, graph, QuietInv
  <2>4. QuietInv'
    BY <1>q, <2>1, <2>3
  <2> QED
    BY <2>2, <2>4
<1>8. CASE GraphFails \/ RequestApproval \/ EndTurn
  <2>1. /\ UNCHANGED <<run, call, said, spoken, streamedRuns>>
        /\ \/ errored' = TRUE
           \/ pc = "ending" /\ errored' = errored
    <3>1. CASE GraphFails
      BY <3>1 DEF GraphFails, graph
    <3>2. CASE RequestApproval
      BY <3>2 DEF RequestApproval, graph
    <3>3. CASE EndTurn
      BY <3>3 DEF EndTurn, graph
    <3> QED
      BY <1>8, <3>1, <3>2, <3>3
  <2>2. \E e \in Events : Emit(e) /\ e.type \notin {"model.delta", "model.message", "tool.call"}
    <3>1. CASE GraphFails
      <4>1. [type |-> "error"] \in Events
        BY DEF Events
      <4> QED
        BY <3>1, <4>1 DEF GraphFails
    <3>2. CASE RequestApproval
      <4> DEFINE e == [type |-> "approval.requested", interrupt |-> interrupts[asked + 1]]
      <4>1. interrupts[asked + 1] \in Interrupts
        BY <1>t, <3>2 DEF RequestApproval
      <4>2. e \in Events /\ e.type = "approval.requested"
        BY <4>1 DEF Events
      <4>3. Emit(e)
        BY <3>2 DEF RequestApproval
      <4> QED
        BY <4>2, <4>3
    <3>3. CASE EndTurn
      <4> DEFINE e == [type |-> "turn.end", interrupted |-> interrupts # <<>>, errored |-> errored]
      <4>1. e \in Events /\ e.type = "turn.end"
        BY <1>t DEF Events
      <4>2. Emit(e)
        BY <3>3 DEF EndTurn
      <4> QED
        BY <4>1, <4>2
    <3> QED
      BY <1>8, <3>1, <3>2, <3>3
  <2>3. ConsumerInv'
    BY <1>t, <2>1, <2>2, SilentStep
  <2>4. QuietInv'
    BY <1>q, <2>1, <2>2 DEF QuietInv
  <2> QED
    BY <2>3, <2>4
<1> QED
  BY <1>1, <1>2, <1>3, <1>4, <1>5, <1>6, <1>7, <1>8 DEF Next, GraphStep

\* The consumers' invariants hold with those of the turn.
LEMMA ConsumerInvariants == Spec => [](IInv /\ EndInv /\ ConsumerInv /\ QuietInv)
BY InitIInv, NextIInv, InitEndInv, NextEndInv, InitConsumerInv, NextConsumerInv, PTL DEF Spec

\* At the end of a turn that did not err, one run has said everything.
LEMMA OneRunSaidAll ==
  ASSUME IInv, EndInv, ConsumerInv, QuietInv, pc = "ended", ~errored, Len(spoken) = 1
  PROVE  /\ spoken[1] \in Runs /\ ExtractReply(out) = Text(spoken[1], said[spoken[1]])
         /\ \A r \in Runs : r # spoken[1] => said[r] = 0
<1> DEFINE s == spoken[1]
<1>1. spoken \in Seq(Runs) /\ DOMAIN spoken = {1} /\ s \in Runs /\ Range(spoken) = {s}
  <2>1. spoken \in Seq(Runs)
    BY DEF IInv, TypeOK
  <2>2. DOMAIN spoken = 1 .. Len(spoken) /\ 1 .. 1 = {1}
    BY <2>1
  <2> QED
    BY <2>1, <2>2 DEF Range
<1> HIDE DEF s
<1>2. /\ said \in [Runs -> Nat] /\ streamedRuns \subseteq Runs /\ streams \subseteq Runs
      /\ run \in [Runs -> {"idle", "open", "closed"}]
  BY PieceAssumption DEF IInv, TypeOK, PieceAssumption
<1>3. \A r \in Runs : run[r] # "open"
  BY DEF QuietInv
<1>4. \A r \in Runs : r # s => said[r] = 0
  BY <1>1, <1>2, <1>3 DEF ConsumerInv, SpokenInv, IInv, RunsAreTracked
<1>5. streamedRuns \subseteq {s}
  BY <1>2, <1>4 DEF IInv, RunsAreTracked
<1>6. Read.final # <<>> => Read.final = Text(s, said[s])
  BY <1>1 DEF ConsumerInv, ReplyInv
<1>7. Read.final = <<>> => Read.parts = Text(s, said[s])
  <2> SUFFICES ASSUME Read.final = <<>> PROVE Read.parts = Text(s, said[s])
    OBVIOUS
  <2>1. spoken # <<>>
    <3>1. 1 \in DOMAIN spoken /\ DOMAIN <<>> = {}
      BY <1>1
    <3> QED
      BY <3>1
  <2>2. streamedRuns # {}
    BY <2>1 DEF ConsumerInv, ReplyInv
  <2> QED
    BY <1>1, <1>5, <2>2 DEF ConsumerInv, ReplyInv
<1> QED
  BY <1>1, <1>4, <1>6, <1>7 DEF ExtractReply, Read, s

\* A piece of the reply has been said.
LEMMA RepliesWereSaid ==
  ASSUME IInv, ConsumerInv, NEW p \in Range(ExtractReply(out))
  PROVE  p \in Piece /\ Said(p)
<1>1. said \in [Runs -> Nat] /\ spoken \in Seq(Runs)
  BY PieceAssumption DEF IInv, TypeOK, PieceAssumption
<1>2. Read.final \in Seq(Piece) /\ Read.parts \in Seq(Piece)
  BY DEF ConsumerInv, ReplyInv, Reads
<1>3. CASE Read.final # <<>>
  <2>1. PICK i \in DOMAIN Read.final : p = Read.final[i]
    BY <1>3 DEF ExtractReply, Read, Range
  <2>2. PICK r \in Range(spoken) : Read.final = Text(r, said[r])
    BY <1>3 DEF ConsumerInv, ReplyInv
  <2>3. r \in Runs /\ said[r] \in Nat
    BY <1>1, <2>2 DEF Range
  <2>4. i \in 1 .. said[r] /\ p = <<r, i>>
    BY <2>1, <2>2, <2>3, TextGrows
  <2> QED
    BY <2>3, <2>4 DEF Said, Piece
<1>4. CASE Read.final = <<>>
  <2>1. PICK i \in DOMAIN Read.parts : p = Read.parts[i]
    BY <1>4 DEF ExtractReply, Read, Range
  <2>2. p \in Piece /\ p[2] \in 1 .. said[p[1]]
    BY <1>2, <2>1 DEF ConsumerInv, ReplyInv
  <2> QED
    BY <1>1, <2>2 DEF Said, Piece
<1> QED
  BY <1>3, <1>4

\* The reply of a turn is the whole text of its last message or, when all that
\* spoke have streamed, all that was said in it, for any number of model runs
\* and however they interleave (extract_reply).
THEOREM RepliesAreWholeTexts == Spec => []RepliesAreWhole
<1>1. IInv /\ EndInv /\ ConsumerInv /\ QuietInv => RepliesAreWhole
  <2> SUFFICES ASSUME IInv, EndInv, ConsumerInv, QuietInv PROVE RepliesAreWhole
    OBVIOUS
  <2> DEFINE reply == ExtractReply(out)
  <2>1. /\ said \in [Runs -> 0 .. MaxPieces] /\ MaxPieces \in Nat /\ spoken \in Seq(Runs)
        /\ streamedRuns \subseteq Runs
    BY PieceAssumption DEF IInv, TypeOK, PieceAssumption
  <2>2. ASSUME NEW i \in DOMAIN spoken, LastMessage(i) PROVE reply = Text(spoken[i], said[spoken[i]])
    <3>1. Read.final = Text(spoken[i], said[spoken[i]])
      BY <2>2 DEF ConsumerInv, WholeInv
    <3>2. spoken[i] \in Runs /\ spoken[i] \in Range(spoken)
      BY <2>1 DEF Range
    <3>3. said[spoken[i]] > 0 /\ said[spoken[i]] \in Nat
      BY <2>1, <3>2 DEF ConsumerInv, SpokenInv
    <3>4. \A q \in Runs : \A n \in Nat : n > 0 => Text(q, n) # <<>>
      <4>1. \A q \in Runs : \A n \in Nat : Len(Text(q, n)) = n
        BY TextGrows
      <4> QED
        BY <4>1
    <3>5. Read.final # <<>>
      BY <3>1, <3>2, <3>3, <3>4
    <3> QED
      BY <3>1, <3>5 DEF ExtractReply, Read
  <2>3. ASSUME Range(spoken) \subseteq streamedRuns
        PROVE  /\ Range(reply) = {p \in Runs \X (1 .. MaxPieces) : Said(p)}
               /\ \A i, j \in DOMAIN reply :
                     i < j /\ reply[i][1] = reply[j][1] => reply[i][2] < reply[j][2]
    <3>1. reply = Read.parts
      <4>1. Read.final = <<>>
        BY <2>3 DEF ConsumerInv, WholeInv, Range
      <4> QED
        BY <4>1 DEF ExtractReply, Read
    <3> HIDE DEF reply
    <3>2. ASSUME NEW p \in Range(reply) PROVE p \in Runs \X (1 .. MaxPieces) /\ Said(p)
      <4>1. PICK i \in DOMAIN Read.parts : p = Read.parts[i]
        BY <3>1 DEF Range
      <4>2. p \in Piece /\ p[2] \in 1 .. said[p[1]]
        BY <4>1 DEF ConsumerInv, ReplyInv, Reads
      <4> QED
        BY <2>1, <4>2 DEF Said, Piece
    <3>3. ASSUME NEW p \in Runs \X (1 .. MaxPieces), Said(p) PROVE p \in Range(reply)
      <4>1. p[1] \in Runs /\ p[2] \in 1 .. said[p[1]] /\ p = <<p[1], p[2]>>
        BY <2>1, <3>3 DEF Said
      <4>2. p[1] \in streamedRuns
        <5>1. said[p[1]] > 0
          BY <2>1, <4>1
        <5>2. CASE p[1] \in streams
          BY <4>1, <5>1, <5>2 DEF IInv, RunsAreTracked
        <5>3. CASE p[1] \in Range(spoken)
          BY <2>3, <5>3
        <5>4. p[1] \in streams \/ run[p[1]] = "closed"
          <6>1. run \in [Runs -> {"idle", "open", "closed"}] /\ said[p[1]] # 0
            BY <2>1, <4>1, <5>1 DEF IInv, TypeOK
          <6> QED
            BY <4>1, <6>1 DEF IInv, RunsAreTracked
        <5> QED
          BY <4>1, <5>1, <5>2, <5>3, <5>4 DEF ConsumerInv, SpokenInv
      <4>3. \E k \in DOMAIN Read.parts : Read.parts[k] = p
        BY <4>1, <4>2 DEF ConsumerInv, WholeInv
      <4> QED
        BY <3>1, <4>3 DEF Range
    <3>4. \A i, j \in DOMAIN reply :
             i < j /\ reply[i][1] = reply[j][1] => reply[i][2] < reply[j][2]
      BY <3>1 DEF ConsumerInv, WholeInv
    <3> QED
      BY <3>2, <3>3, <3>4
  <2> QED
    BY <2>2, <2>3 DEF RepliesAreWhole, MessageIsPreferred, DeltasAreJoined
<1> QED
  BY <1>1, ConsumerInvariants, PTL

\* The terminal prints every piece at most once, however the deltas and the
\* messages of parallel runs interleave (LeveTUI._render).
THEOREM ScreenRepeatsNothing == Spec => []NothingPrintedTwice
<1>1. ConsumerInv => NothingPrintedTwice
  BY DEF ConsumerInv, ScreenInv, NothingPrintedTwice, Shown
<1> QED
  BY <1>1, ConsumerInvariants, PTL

\* What an eval certifies of a turn is so, for every assertion it can make and
\* every turn (the verdicts of evals).
THEOREM EvalsCertifyWhatHappened == Spec => []VerdictsAreEarned
<1>1. IInv /\ EndInv /\ ConsumerInv /\ QuietInv => VerdictsAreEarned
  <2> SUFFICES ASSUME IInv, EndInv, ConsumerInv, QuietInv PROVE VerdictsAreEarned
    OBVIOUS
  <2> DEFINE completed == [kind |-> "completed"]
             errors == [kind |-> "no_errors"]
             Passes(a) == EvalPasses({a})
             wentWell == paused = {} /\ ~errored
  <2>1. \A a : Passes(a) <=> pc = "ended" /\ Holds(a)
    BY DEF EvalPasses
  <2>2. Holds(completed) <=> Completed
    BY DEF Holds
  <2>3. Holds(errors) <=> NoErrors
    BY DEF Holds
  <2>4. pc = "ended" => (Completed <=> interrupts = <<>> /\ ~errored) /\ (NoErrors <=> ~errored)
    <3> SUFFICES ASSUME pc = "ended"
                 PROVE  (Completed <=> interrupts = <<>> /\ ~errored) /\ (NoErrors <=> ~errored)
      OBVIOUS
    <3> DEFINE e == [type |-> "turn.end", interrupted |-> interrupts # <<>>, errored |-> errored]
    <3>1. OfType("turn.end") = {Len(out)} /\ out[Len(out)] = e
      BY DEF EndInv
    <3>2. e.interrupted = (interrupts # <<>>) /\ e.errored = errored
      OBVIOUS
    <3> HIDE DEF e
    <3>3. Ends = {e}
      BY <3>1 DEF Ends
    <3> QED
      BY <3>2, <3>3 DEF Completed, NoErrors, EndInv
  <2>5. pc = "ended" /\ ~errored => (interrupts = <<>> <=> paused = {})
    <3> SUFFICES ASSUME pc = "ended", ~errored PROVE interrupts = <<>> <=> paused = {}
      OBVIOUS
    <3>1. interrupts \in Listings(paused) /\ paused \in SUBSET Interrupts /\ interrupts \in Seq(Interrupts)
      BY DEF EndInv, IInv, TypeOK
    <3>2. Len(interrupts) = Cardinality(paused) /\ IsFiniteSet(paused)
      BY <3>1, ListingIsAll
    <3>3. Cardinality(paused) = 0 <=> paused = {}
      BY <3>2, FS_EmptySet
    <3> QED
      BY <3>1, <3>2, <3>3
  <2>6. Passes(completed) =>
            /\ wentWell
            /\ \A r \in Runs : run[r] # "open"
            /\ \A c \in ToolCalls : call[c] # "open"
    BY <2>1, <2>2, <2>4, <2>5 DEF QuietInv
  <2>7. pc = "ended" /\ wentWell => EvalPasses({completed, errors})
    BY <2>2, <2>3, <2>4, <2>5 DEF EvalPasses
  <2>8. ASSUME NEW a \in Assertion, Passes(a)
        PROVE  /\ a.kind = "called_tool" => call[a.tool] # "idle"
               /\ a.kind = "includes" => Said(a.piece)
               /\ a.kind = "excludes" /\ Passes(completed) /\ Len(spoken) = 1 => ~Said(a.piece)
    <3>1. Holds(a) /\ pc = "ended"
      BY <2>1, <2>8
    <3>2. a.kind = "called_tool" => call[a.tool] # "idle"
      BY <3>1 DEF Holds, CalledTool, QuietInv, OfType
    <3>3. a.kind = "includes" => Said(a.piece)
      BY <3>1, RepliesWereSaid DEF Holds, Includes
    <3>4. ASSUME a.kind = "excludes", Passes(completed), Len(spoken) = 1 PROVE ~Said(a.piece)
      <4>1. a.piece \in Runs \X (1 .. MaxPieces) /\ a.piece \notin Range(ExtractReply(out))
        BY <3>1, <3>4 DEF Holds, Includes, Assertion
      <4>2. /\ spoken[1] \in Runs /\ ExtractReply(out) = Text(spoken[1], said[spoken[1]])
            /\ \A r \in Runs : r # spoken[1] => said[r] = 0
        BY <2>1, <2>2, <2>4, <3>1, <3>4, OneRunSaidAll
      <4>3. said \in [Runs -> Nat] /\ a.piece[1] \in Runs /\ a.piece[2] \in Nat /\ a.piece[2] >= 1
            /\ a.piece = <<a.piece[1], a.piece[2]>>
        BY <4>1, PieceAssumption DEF IInv, TypeOK, PieceAssumption
      <4>4. CASE a.piece[1] # spoken[1]
        BY <4>2, <4>3, <4>4 DEF Said
      <4>5. CASE a.piece[1] = spoken[1]
        <5> SUFFICES ASSUME a.piece[2] <= said[spoken[1]] PROVE FALSE
          BY <4>5 DEF Said
        <5>1. a.piece[2] \in 1 .. said[spoken[1]]
          BY <4>2, <4>3
        <5>2. /\ a.piece[2] \in DOMAIN ExtractReply(out)
              /\ ExtractReply(out)[a.piece[2]] = a.piece
          <6>1. said[spoken[1]] \in Nat
            BY <4>2, <4>3
          <6>2. /\ DOMAIN Text(spoken[1], said[spoken[1]]) = 1 .. said[spoken[1]]
                /\ Text(spoken[1], said[spoken[1]])[a.piece[2]] = <<spoken[1], a.piece[2]>>
            BY <4>2, <5>1, <6>1, TextGrows
          <6> QED
            BY <4>2, <4>3, <4>5, <5>1, <6>2
        <5> QED
          BY <4>1, <5>2 DEF Range
      <4> QED
        BY <4>4, <4>5
    <3> QED
      BY <3>2, <3>3, <3>4
  <2> QED
    BY <2>6, <2>7, <2>8 DEF VerdictsAreEarned
<1> QED
  BY <1>1, ConsumerInvariants, PTL
=============================================================================
