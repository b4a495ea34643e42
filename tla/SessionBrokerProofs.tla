------------------------- MODULE SessionBrokerProofs -------------------------
(***************************************************************************)
(* Proofs about SessionBroker for any set of subscribers, any payloads and *)
(* any bound on the length of a turn.  Everything rests on one inductive   *)
(* invariant: what each generator remembers (idx, batch, done) agrees with *)
(* the buffer it was taken from, however much was published since.  The    *)
(* last part is about DevServer, whose steps are the broker's or leave it  *)
(* alone.                                                                  *)
(***************************************************************************)
EXTENDS DevServer, SequenceTheorems, TLAPS

\* Element by element form of CursorIsExact, the one the provers can use.
CursorOf(s) ==
    /\ idx[s] <= Len(events)
    /\ Len(received[s]) = idx[s] - Len(batch[s])
    /\ \A i \in 1 .. Len(received[s]) : received[s][i] = events[i]
    /\ \A i \in 1 .. Len(batch[s]) : batch[s][i] = events[Len(received[s]) + i]

\* What the suspension point of a generator says about its locals.
SuspensionOf(s) ==
    /\ pc[s] \in {"check", "parked", "returned"} => batch[s] = <<>>
    /\ done[s] => closed /\ idx[s] = Len(events)
    /\ pc[s] = "returned" => done[s]
    /\ pc[s] = "parked" => idx[s] = Len(events) /\ ~closed
    /\ pc[s] = "detached" => received[s] = <<>> /\ batch[s] = <<>>

IInv ==
    /\ TypeOK
    /\ \A s \in Subscribers : CursorOf(s) /\ SuspensionOf(s)

-----------------------------------------------------------------------------
LEMMA TypeCorrectStep == TypeOK /\ [Next]_vars => TypeOK'
<1> SUFFICES ASSUME TypeOK, [Next]_vars PROVE TypeOK'
  OBVIOUS
<1> USE BoundAssumption DEF BoundAssumption, TypeOK, PC, buffer, generator
<1>1. ASSUME NEW e \in Event, Publish(e) PROVE TypeOK'
  BY <1>1 DEF Publish, NotifyAll
<1>2. CASE Close
  BY <1>2 DEF Close, NotifyAll
<1>3. ASSUME NEW s \in Subscribers, Subscribe(s) PROVE TypeOK'
  BY <1>3 DEF Subscribe
<1>4. ASSUME NEW s \in Subscribers, Park(s) PROVE TypeOK'
  BY <1>4 DEF Park
<1>5. ASSUME NEW s \in Subscribers, TakeBatch(s) PROVE TypeOK'
  <2>1. SubSeq(events, idx[s] + 1, Len(events)) \in Seq(Event)
    BY DEF TypeOK
  <2>2. Len(events) \in Nat
    OBVIOUS
  <2> QED
    BY <1>5, <2>1, <2>2 DEF TakeBatch
<1>6. ASSUME NEW s \in Subscribers, Yield(s) PROVE TypeOK'
  <2>1. /\ Head(batch[s]) \in Event
        /\ Tail(batch[s]) \in Seq(Event)
    BY <1>6 DEF Yield
  <2> QED
    BY <1>6, <2>1 DEF Yield
<1>7. ASSUME NEW s \in Subscribers, EndBatch(s) PROVE TypeOK'
  BY <1>7 DEF EndBatch
<1>8. ASSUME NEW s \in Subscribers, Disconnect(s) PROVE TypeOK'
  BY <1>8 DEF Disconnect
<1>9. CASE UNCHANGED vars
  BY <1>9 DEF vars
<1> QED
  BY <1>1, <1>2, <1>3, <1>4, <1>5, <1>6, <1>7, <1>8, <1>9 DEF Next, Iterate

\* The state of the fan-out is well typed: a generator is always at one of
\* its suspension points and holds a batch of published events.
THEOREM TypeCorrect == Spec => []TypeOK
<1>1. Init => TypeOK
  <2> SUFFICES ASSUME Init PROVE TypeOK
    OBVIOUS
  <2>1. Len(<<>>) <= MaxEvents /\ <<>> \in Seq(Event)
    BY BoundAssumption DEF BoundAssumption
  <2> QED
    BY <2>1 DEF Init, TypeOK, PC
<1> QED
  BY <1>1, TypeCorrectStep, PTL DEF Spec

-----------------------------------------------------------------------------
\* The fan-out of one subscriber is not disturbed by a step that leaves the
\* buffer and that subscriber's own locals alone.
LEMMA UndisturbedSubscriber ==
  ASSUME NEW s \in Subscribers, CursorOf(s), SuspensionOf(s),
         UNCHANGED buffer,
         pc'[s] = pc[s], idx'[s] = idx[s], batch'[s] = batch[s],
         done'[s] = done[s], received'[s] = received[s]
  PROVE  CursorOf(s)' /\ SuspensionOf(s)'
BY DEF CursorOf, SuspensionOf, buffer

LEMMA ShiftIndex == \A m, i \in Nat : (m + 1) + i = m + (i + 1)
OBVIOUS

LEMMA InvariantStep == IInv /\ [Next]_vars => IInv'
<1> SUFFICES ASSUME IInv, [Next]_vars PROVE IInv'
  OBVIOUS
<1>t. TypeOK /\ TypeOK'
  BY TypeCorrectStep DEF IInv
<1>p. ASSUME NEW e \in Event, Publish(e), NEW s \in Subscribers
      PROVE  CursorOf(s)' /\ SuspensionOf(s)'
  <2>1. /\ Len(events') = Len(events) + 1
        /\ \A i \in 1 .. Len(events) : events'[i] = events[i]
        /\ ~closed /\ ~closed'
        /\ pc'[s] = IF pc[s] = "parked" THEN "check" ELSE pc[s]
        /\ UNCHANGED <<idx, batch, done, received>>
    BY <1>p, <1>t DEF Publish, NotifyAll, TypeOK, generator
  <2>2. CursorOf(s) /\ SuspensionOf(s)
    BY DEF IInv
  <2>3. /\ idx[s] \in Nat /\ Len(events) \in Nat
        /\ Len(received[s]) \in Nat /\ Len(batch[s]) \in Nat
    BY <1>t DEF TypeOK
  <2>4. CursorOf(s)'
    <3>s. /\ idx[s] <= Len(events)
          /\ Len(received[s]) = idx[s] - Len(batch[s])
          /\ received' = received /\ batch' = batch /\ idx' = idx
          /\ Len(events') = Len(events) + 1
      BY <2>1, <2>2 DEF CursorOf
    <3>1. idx'[s] <= Len(events') /\ Len(received'[s]) = idx'[s] - Len(batch'[s])
      BY <2>3, <3>s
    <3>2. ASSUME NEW i \in 1 .. Len(received'[s])
          PROVE  received'[s][i] = events'[i]
      <4>1. i \in 1 .. Len(received[s]) /\ i \in 1 .. Len(events)
        BY <2>3, <3>s
      <4> QED
        BY <4>1, <2>1, <2>2 DEF CursorOf
    <3>3. ASSUME NEW i \in 1 .. Len(batch'[s])
          PROVE  batch'[s][i] = events'[Len(received'[s]) + i]
      <4>1. /\ i \in 1 .. Len(batch[s])
            /\ Len(received[s]) + i \in 1 .. Len(events)
        BY <2>3, <3>s
      <4> QED
        BY <4>1, <2>1, <2>2 DEF CursorOf
    <3> QED
      BY <3>1, <3>2, <3>3 DEF CursorOf
  <2>5. SuspensionOf(s)'
    BY <2>1, <2>2 DEF SuspensionOf
  <2> QED
    BY <2>4, <2>5
<1>c. ASSUME Close, NEW s \in Subscribers
      PROVE  CursorOf(s)' /\ SuspensionOf(s)'
  <2>1. /\ ~closed /\ closed'
        /\ pc'[s] = IF pc[s] = "parked" THEN "check" ELSE pc[s]
        /\ UNCHANGED <<events, idx, batch, done, received>>
    BY <1>c, <1>t DEF Close, NotifyAll, TypeOK, generator
  <2> QED
    BY <2>1 DEF IInv, CursorOf, SuspensionOf
<1>s. ASSUME NEW s \in Subscribers, Subscribe(s)
      PROVE  CursorOf(s)' /\ SuspensionOf(s)'
  BY <1>s, <1>t DEF IInv, TypeOK, CursorOf, SuspensionOf, Subscribe, buffer, generator
<1>k. ASSUME NEW s \in Subscribers, Park(s)
      PROVE  CursorOf(s)' /\ SuspensionOf(s)'
  BY <1>k, <1>t DEF IInv, TypeOK, CursorOf, SuspensionOf, Park, Ready, buffer, generator
<1>b. ASSUME NEW s \in Subscribers, TakeBatch(s)
      PROVE  CursorOf(s)' /\ SuspensionOf(s)'
  <2> DEFINE fresh == SubSeq(events, idx[s] + 1, Len(events))
  <2>1. /\ idx'[s] = Len(events)
        /\ batch'[s] = fresh
        /\ done'[s] = closed
        /\ pc'[s] = "yielding"
        /\ UNCHANGED <<events, closed, received>>
    BY <1>b, <1>t DEF TakeBatch, TypeOK, buffer
  <2>2. /\ CursorOf(s)
        /\ batch[s] = <<>>
    BY <1>b DEF IInv, SuspensionOf, TakeBatch
  <2>3. /\ idx[s] \in Nat /\ Len(events) \in Nat /\ idx[s] <= Len(events)
        /\ Len(received[s]) = idx[s]
    BY <1>t, <2>2 DEF TypeOK, CursorOf
  <2>4. /\ Len(fresh) = Len(events) - idx[s]
        /\ \A i \in 1 .. Len(fresh) : fresh[i] = events[idx[s] + i]
    <3>1. events \in Seq(Event)
      BY <1>t DEF TypeOK
    <3>2. Len(fresh) = Len(events) - idx[s]
      BY <2>3, <3>1
    <3>3. ASSUME NEW i \in 1 .. Len(fresh) PROVE fresh[i] = events[idx[s] + i]
      BY <2>3, <3>1, <3>2
    <3> QED
      BY <3>2, <3>3
  <2> HIDE DEF fresh
  <2>5. CursorOf(s)'
    <3>1. idx'[s] <= Len(events') /\ Len(received'[s]) = idx'[s] - Len(batch'[s])
      BY <2>1, <2>3, <2>4
    <3>2. ASSUME NEW i \in 1 .. Len(received'[s])
          PROVE  received'[s][i] = events'[i]
      BY <2>1, <2>2 DEF CursorOf
    <3>3. ASSUME NEW i \in 1 .. Len(batch'[s])
          PROVE  batch'[s][i] = events'[Len(received'[s]) + i]
      BY <2>1, <2>3, <2>4
    <3> QED
      BY <3>1, <3>2, <3>3 DEF CursorOf
  <2>6. SuspensionOf(s)'
    BY <2>1 DEF SuspensionOf
  <2> QED
    BY <2>5, <2>6
<1>y. ASSUME NEW s \in Subscribers, Yield(s)
      PROVE  CursorOf(s)' /\ SuspensionOf(s)'
  <2>1. /\ received'[s] = Append(received[s], Head(batch[s]))
        /\ batch'[s] = Tail(batch[s])
        /\ batch[s] # <<>>
        /\ pc[s] = "yielding"
        /\ UNCHANGED <<events, closed, pc, idx, done>>
    BY <1>y, <1>t DEF Yield, TypeOK, buffer
  <2>2. /\ received[s] \in Seq(Event) /\ batch[s] \in Seq(Event)
        /\ idx[s] \in Nat /\ Len(events) \in Nat
    BY <1>t DEF TypeOK
  <2>3. CursorOf(s) /\ SuspensionOf(s)
    BY DEF IInv
  <2>4. /\ Len(batch[s]) \in Nat /\ 1 <= Len(batch[s])
        /\ Len(received[s]) \in Nat
        /\ Len(received'[s]) = Len(received[s]) + 1
        /\ Len(batch'[s]) = Len(batch[s]) - 1
    BY <2>1, <2>2
  <2>4b. /\ \A i \in 1 .. Len(batch'[s]) : batch'[s][i] = batch[s][i + 1]
        /\ \A i \in 1 .. Len(received[s]) : received'[s][i] = received[s][i]
        /\ received'[s][Len(received[s]) + 1] = batch[s][1]
    BY <2>1, <2>2
  <2>5. CursorOf(s)'
    <3>s. /\ idx[s] <= Len(events) /\ Len(received[s]) = idx[s] - Len(batch[s])
          /\ idx' = idx /\ events' = events
      BY <2>1, <2>3 DEF CursorOf
    <3>1. idx'[s] <= Len(events') /\ Len(received'[s]) = idx'[s] - Len(batch'[s])
      BY <2>2, <2>4, <3>s
    <3>2. ASSUME NEW i \in 1 .. Len(received'[s])
          PROVE  received'[s][i] = events'[i]
      <4>1. CASE i \in 1 .. Len(received[s])
        BY <4>1, <2>1, <2>3, <2>4b DEF CursorOf
      <4>2. CASE i = Len(received[s]) + 1
        <5>1. batch[s][1] = events[Len(received[s]) + 1]
          <6>1. 1 \in 1 .. Len(batch[s])
            BY <2>4
          <6> QED
            BY <6>1, <2>3 DEF CursorOf
        <5> QED
          BY <4>2, <5>1, <2>1, <2>4b
      <4> QED
        BY <4>1, <4>2, <2>4
    <3>3. ASSUME NEW i \in 1 .. Len(batch'[s])
          PROVE  batch'[s][i] = events'[Len(received'[s]) + i]
      <4>1. /\ i + 1 \in 1 .. Len(batch[s])
            /\ Len(received'[s]) + i = Len(received[s]) + (i + 1)
        <5>1. i \in Nat /\ 1 <= i /\ i <= Len(batch'[s])
          BY <2>4
        <5>2. i + 1 \in 1 .. Len(batch[s])
          BY <5>1, <2>4
        <5>3. (Len(received[s]) + 1) + i = Len(received[s]) + (i + 1)
          BY <5>1, <2>4, ShiftIndex
        <5> QED
          BY <5>2, <5>3, <2>4
      <4> QED
        BY <4>1, <2>1, <2>3, <2>4b DEF CursorOf
    <3> QED
      BY <3>1, <3>2, <3>3 DEF CursorOf
  <2>6. SuspensionOf(s)'
    BY <2>1, <2>3 DEF SuspensionOf
  <2> QED
    BY <2>5, <2>6
<1>e. ASSUME NEW s \in Subscribers, EndBatch(s)
      PROVE  CursorOf(s)' /\ SuspensionOf(s)'
  BY <1>e, <1>t DEF IInv, TypeOK, CursorOf, SuspensionOf, EndBatch, buffer, generator
<1>d. ASSUME NEW s \in Subscribers, Disconnect(s)
      PROVE  CursorOf(s)' /\ SuspensionOf(s)'
  BY <1>d, <1>t DEF IInv, TypeOK, CursorOf, SuspensionOf, Disconnect, buffer, generator
<1>o. ASSUME NEW s \in Subscribers, Subscribe(s) \/ Iterate(s) \/ Disconnect(s),
             NEW r \in Subscribers, r # s
      PROVE  CursorOf(r)' /\ SuspensionOf(r)'
  <2>1. /\ UNCHANGED buffer
        /\ pc'[r] = pc[r] /\ idx'[r] = idx[r] /\ batch'[r] = batch[r]
        /\ done'[r] = done[r] /\ received'[r] = received[r]
    BY <1>o, <1>t DEF TypeOK, Subscribe, Iterate, Park, TakeBatch, Yield, EndBatch,
       Disconnect, buffer, generator
  <2> QED
    BY <2>1, UndisturbedSubscriber DEF IInv
<1>u. ASSUME UNCHANGED vars, NEW s \in Subscribers
      PROVE  CursorOf(s)' /\ SuspensionOf(s)'
  BY <1>u, UndisturbedSubscriber DEF IInv, vars, buffer
<1> SUFFICES ASSUME NEW r \in Subscribers
             PROVE  CursorOf(r)' /\ SuspensionOf(r)'
  BY <1>t DEF IInv
<1> QED
  BY <1>p, <1>c, <1>s, <1>k, <1>b, <1>y, <1>e, <1>d, <1>o, <1>u DEF Next, Iterate

LEMMA Invariant == Spec => []IInv
<1>1. Init => IInv
  <2> SUFFICES ASSUME Init PROVE IInv
    OBVIOUS
  <2>1. Len(<<>>) = 0 /\ Len(<<>>) <= MaxEvents /\ <<>> \in Seq(Event)
    BY BoundAssumption DEF BoundAssumption
  <2>2. TypeOK
    BY <2>1 DEF Init, TypeOK, PC
  <2>3. ASSUME NEW s \in Subscribers
        PROVE  CursorOf(s) /\ SuspensionOf(s)
    <3>1. /\ events = <<>> /\ idx[s] = 0 /\ batch[s] = <<>> /\ received[s] = <<>>
          /\ pc[s] = "detached" /\ done[s] = FALSE
      BY DEF Init
    <3>2. CursorOf(s)
      <4>1. Len(events) = 0 /\ Len(received[s]) = 0 /\ Len(batch[s]) = 0
        BY <2>1, <3>1
      <4>z. idx[s] = 0
        BY <3>1
      <4>2. idx[s] <= Len(events) /\ Len(received[s]) = idx[s] - Len(batch[s])
        BY <4>z, <4>1
      <4>3. 1 .. Len(received[s]) = {} /\ 1 .. Len(batch[s]) = {}
        BY <4>1
      <4> QED
        BY <4>2, <4>3 DEF CursorOf
    <3>3. SuspensionOf(s)
      BY <3>1 DEF SuspensionOf
    <3> QED
      BY <3>2, <3>3
  <2> QED
    BY <2>2, <2>3 DEF IInv
<1> QED
  BY <1>1, InvariantStep, PTL DEF Spec

-----------------------------------------------------------------------------
\* Two sequences over the same set that agree in length and element by
\* element are equal; what remains is arithmetic on the cursors.
LEMMA CursorImpliesExact ==
  ASSUME IInv, NEW s \in Subscribers
  PROVE  received[s] \o batch[s] = SubSeq(events, 1, idx[s])
<1> DEFINE lhs == received[s] \o batch[s]
           rhs == SubSeq(events, 1, idx[s])
<1>1. /\ received[s] \in Seq(Event) /\ batch[s] \in Seq(Event)
      /\ events \in Seq(Event) /\ idx[s] \in Nat
  BY DEF IInv, TypeOK
<1>2. /\ Len(received[s]) \in Nat /\ Len(batch[s]) \in Nat /\ Len(events) \in Nat
      /\ idx[s] <= Len(events) /\ Len(received[s]) = idx[s] - Len(batch[s])
  BY <1>1 DEF IInv, CursorOf
<1>3. /\ lhs \in Seq(Event)
      /\ Len(lhs) = Len(received[s]) + Len(batch[s])
      /\ \A i \in 1 .. Len(received[s]) + Len(batch[s]) :
            lhs[i] = IF i <= Len(received[s]) THEN received[s][i]
                     ELSE batch[s][i - Len(received[s])]
  BY <1>1, ConcatProperties
<1>4. Len(received[s]) + Len(batch[s]) = idx[s]
  BY <1>1, <1>2
<1>5. /\ rhs \in Seq(Event)
      /\ Len(rhs) = idx[s]
      /\ \A i \in 1 .. idx[s] : rhs[i] = events[i]
  BY <1>1, <1>2
<1> HIDE DEF lhs, rhs
<1>6. ASSUME NEW i \in 1 .. idx[s] PROVE lhs[i] = rhs[i]
  <2>1. CASE i <= Len(received[s])
    <3>1. i \in 1 .. Len(received[s])
      BY <2>1, <1>1, <1>2
    <3>2. received[s][i] = events[i]
      BY <3>1 DEF IInv, CursorOf
    <3> QED
      BY <2>1, <3>2, <1>3, <1>4, <1>5
  <2>2. CASE ~(i <= Len(received[s]))
    <3>1. i - Len(received[s]) \in 1 .. Len(batch[s])
      BY <2>2, <1>1, <1>2
    <3>2. batch[s][i - Len(received[s])] = events[Len(received[s]) + (i - Len(received[s]))]
      BY <3>1 DEF IInv, CursorOf
    <3>3. Len(received[s]) + (i - Len(received[s])) = i
      BY <1>1, <1>2
    <3> QED
      BY <2>2, <3>2, <3>3, <1>3, <1>4, <1>5
  <2> QED
    BY <2>1, <2>2
<1>7. lhs = rhs
  BY <1>3, <1>4, <1>5, <1>6, SeqEqual
<1> QED
  BY <1>7 DEF lhs, rhs

\* CursorIsExact for every instance: no watcher of a turn misses, repeats or
\* reorders an event.
THEOREM NothingMissedOrRepeated == Spec => []CursorIsExact
<1>1. IInv => CursorIsExact
  BY CursorImpliesExact DEF CursorIsExact
<1> QED
  BY <1>1, Invariant, PTL

\* A watcher that has yielded its whole batch holds the buffer up to its
\* cursor, so at the end of the buffer it holds the whole buffer.
LEMMA DrainedAtEnd ==
  ASSUME IInv, NEW s \in Subscribers, batch[s] = <<>>, idx[s] = Len(events)
  PROVE  received[s] = events
<1>1. received[s] \in Seq(Event) /\ events \in Seq(Event)
  BY DEF IInv, TypeOK
<1>2. Len(batch[s]) = 0
  OBVIOUS
<1>3. Len(received[s]) = Len(events)
  <2>1. Len(events) \in Nat
    BY <1>1
  <2>2. Len(received[s]) = idx[s] - Len(batch[s])
    BY DEF IInv, CursorOf
  <2> QED
    BY <1>2, <2>1, <2>2
<1>4. \A i \in 1 .. Len(received[s]) : received[s][i] = events[i]
  BY DEF IInv, CursorOf
<1> QED
  BY <1>1, <1>3, <1>4, SeqEqual

\* EndsComplete for every instance: a response that ends by itself has shown
\* the whole transcript of a turn that is over.
THEOREM ResponsesEndComplete == Spec => []EndsComplete
<1>1. ASSUME IInv, NEW s \in Subscribers, pc[s] = "returned"
      PROVE  closed /\ received[s] = events
  <2>1. closed /\ idx[s] = Len(events) /\ batch[s] = <<>>
    BY <1>1 DEF IInv, SuspensionOf
  <2> QED
    BY <1>1, <2>1, DrainedAtEnd
<1>2. IInv => EndsComplete
  BY <1>1 DEF EndsComplete
<1> QED
  BY <1>2, Invariant, PTL

\* Both together: what a watcher is shown is a prefix of the turn, and all of
\* it when the response ends by itself.
THEOREM WatchersGetTheTurn == Spec => []TranscriptIsExact
BY NothingMissedOrRepeated, ResponsesEndComplete, PTL DEF TranscriptIsExact

\* NoLostWakeup for every instance: a parked watcher has nothing to read.
THEOREM ParkedHasNothingToRead == Spec => []NoLostWakeup
<1>1. ASSUME IInv, NEW s \in Subscribers, pc[s] = "parked"
      PROVE  ~Ready(s)
  <2>1. idx[s] = Len(events) /\ ~closed /\ idx[s] \in Nat
    BY <1>1 DEF IInv, SuspensionOf, TypeOK
  <2> QED
    BY <2>1 DEF Ready
<1>2. IInv => NoLostWakeup
  BY <1>1 DEF NoLostWakeup
<1> QED
  BY <1>2, Invariant, PTL

-----------------------------------------------------------------------------
readerBar == [s \in Subscribers |-> ReaderOf(pc[s])]

\* A step that moves no generator into, out of or between the reader states
\* leaves the mapped readers alone.
LEMMA SameReaders ==
  ASSUME \A s \in Subscribers : ReaderOf(pc'[s]) = ReaderOf(pc[s])
  PROVE  readerBar' = readerBar
BY DEF readerBar

LEMMA OneReaderMoves ==
  ASSUME TypeOK, NEW s \in Subscribers, NEW p \in PC, pc' = [pc EXCEPT ![s] = p]
  PROVE  readerBar' = [readerBar EXCEPT ![s] = ReaderOf(p)]
<1>1. \A r \in Subscribers : pc'[r] = IF r = s THEN p ELSE pc[r]
  BY DEF TypeOK
<1>2. /\ ReaderOf(pc'[s]) = ReaderOf(p)
      /\ \A r \in Subscribers : r # s => ReaderOf(pc'[r]) = ReaderOf(pc[r])
  BY <1>1
<1> QED
  BY <1>2 DEF readerBar

LEMMA StepRefines == IInv /\ [Next]_vars => [Log!Next]_Log!vars
<1> SUFFICES ASSUME IInv, [Next]_vars PROVE [Log!Next]_Log!vars
  OBVIOUS
<1>t. TypeOK
  BY DEF IInv
<1>v. /\ Log!vars = <<events, closed, received, readerBar>>
      /\ (Log!vars)' = <<events', closed', received', readerBar'>>
  BY DEF Log!vars, readerBar
<1>n. ASSUME NotifyAll PROVE readerBar' = readerBar
  <2>1. \A s \in Subscribers : ReaderOf(pc'[s]) = ReaderOf(pc[s])
    BY <1>n DEF NotifyAll, ReaderOf
  <2> QED
    BY <2>1, SameReaders
<1>1. ASSUME NEW e \in Event, Publish(e) PROVE Log!Write(e)
  <2>1. readerBar' = readerBar
    BY <1>1, <1>n DEF Publish
  <2> QED
    BY <1>1, <2>1 DEF Publish, Log!Write, readerBar
<1>2. ASSUME Close PROVE Log!Seal
  <2>1. readerBar' = readerBar
    BY <1>2, <1>n DEF Close
  <2> QED
    BY <1>2, <2>1 DEF Close, Log!Seal, readerBar
<1>3. ASSUME NEW s \in Subscribers, Subscribe(s) PROVE Log!Attach(s)
  <2>1. readerBar' = [readerBar EXCEPT ![s] = "reading"]
    BY <1>3, <1>t, OneReaderMoves, "check" \in PC DEF Subscribe, ReaderOf, PC
  <2> QED
    BY <1>3, <2>1 DEF Subscribe, Log!Attach, readerBar, ReaderOf, buffer
<1>4. ASSUME NEW s \in Subscribers, Park(s) \/ TakeBatch(s)
      PROVE  UNCHANGED Log!vars
  <2>1. \A r \in Subscribers : ReaderOf(pc'[r]) = ReaderOf(pc[r])
    BY <1>4, <1>t DEF Park, TakeBatch, ReaderOf, TypeOK
  <2>2. readerBar' = readerBar
    BY <2>1, SameReaders
  <2> QED
    BY <1>4, <1>v, <2>2 DEF Park, TakeBatch, buffer
<1>5. ASSUME NEW s \in Subscribers, Yield(s) PROVE Log!Read(s)
  <2>1. /\ pc[s] = "yielding" /\ batch[s] # <<>>
        /\ received' = [received EXCEPT ![s] = Append(@, Head(batch[s]))]
        /\ UNCHANGED <<events, closed, pc>>
    BY <1>5 DEF Yield, buffer
  <2>2. /\ received[s] \in Seq(Event) /\ batch[s] \in Seq(Event)
        /\ idx[s] \in Nat /\ Len(events) \in Nat
    BY <1>t DEF TypeOK
  <2>3. Len(batch[s]) \in Nat /\ 1 <= Len(batch[s]) /\ Head(batch[s]) = batch[s][1]
    BY <2>1, <2>2
  <2>4. Len(received[s]) = idx[s] - Len(batch[s]) /\ idx[s] <= Len(events)
    BY DEF IInv, CursorOf
  <2>5. Len(received[s]) < Len(events)
    BY <2>2, <2>3, <2>4
  <2>6. Head(batch[s]) = events[Len(received[s]) + 1]
    <3>1. 1 \in 1 .. Len(batch[s])
      BY <2>3
    <3> QED
      BY <3>1, <2>3 DEF IInv, CursorOf
  <2>7. readerBar[s] = "reading"
    BY <2>1 DEF readerBar, ReaderOf
  <2>8. readerBar' = readerBar
    BY <2>1 DEF readerBar
  <2>9. received' = [received EXCEPT ![s] = Append(@, events[Len(@) + 1])]
    BY <2>1, <2>6
  <2> QED
    BY <2>1, <2>5, <2>7, <2>8, <2>9 DEF Log!Read, readerBar
<1>6. ASSUME NEW s \in Subscribers, EndBatch(s), done[s] PROVE Log!Finish(s)
  <2>1. /\ pc[s] = "yielding" /\ batch[s] = <<>> /\ closed /\ idx[s] = Len(events)
        /\ pc' = [pc EXCEPT ![s] = "returned"]
        /\ UNCHANGED <<events, closed, received>>
    BY <1>6 DEF EndBatch, buffer, IInv, SuspensionOf
  <2>2. received[s] = events
    BY <2>1, DrainedAtEnd
  <2>3. readerBar' = [readerBar EXCEPT ![s] = "finished"]
    BY <2>1, <1>t, OneReaderMoves, "returned" \in PC DEF ReaderOf, PC
  <2>4. readerBar[s] = "reading"
    BY <2>1 DEF readerBar, ReaderOf
  <2> QED
    BY <2>1, <2>2, <2>3, <2>4 DEF Log!Finish, readerBar
<1>7. ASSUME NEW s \in Subscribers, EndBatch(s), ~done[s]
      PROVE  UNCHANGED Log!vars
  <2>1. \A r \in Subscribers : ReaderOf(pc'[r]) = ReaderOf(pc[r])
    BY <1>7, <1>t DEF EndBatch, ReaderOf, TypeOK
  <2>2. readerBar' = readerBar
    BY <2>1, SameReaders
  <2> QED
    BY <1>7, <1>v, <2>2 DEF EndBatch, buffer
<1>8. ASSUME NEW s \in Subscribers, Disconnect(s) PROVE Log!Leave(s)
  <2>1. readerBar' = [readerBar EXCEPT ![s] = "gone"]
    BY <1>8, <1>t, OneReaderMoves, "cancelled" \in PC DEF Disconnect, ReaderOf, PC
  <2>2. readerBar[s] = "reading"
    BY <1>8 DEF Disconnect, readerBar, ReaderOf
  <2> QED
    BY <1>8, <2>1, <2>2 DEF Disconnect, Log!Leave, readerBar, buffer
<1>9. ASSUME UNCHANGED vars PROVE UNCHANGED Log!vars
  BY <1>9, <1>v DEF vars, readerBar
<1> QED
  BY <1>1, <1>2, <1>3, <1>4, <1>5, <1>6, <1>7, <1>8, <1>9
     DEF Next, Iterate, Log!Next

\* The broker implements the event log (its safety part): every step of the
\* fan-out is a step of one append-only log with independent readers, or
\* changes nothing a reader could see.
THEOREM ImplementsLogSafety == Spec => Log!Spec
<1>1. Init => Log!Init
  BY DEF Init, Log!Init, ReaderOf
<1> QED
  BY <1>1, StepRefines, Invariant, PTL DEF Spec, Log!Spec

-----------------------------------------------------------------------------
\* The typing of the buffer is what makes the next event of the stream one.
LEMMA DevStepIsBrokerStep == TypeOK /\ [DevNext]_devVars => [Next]_vars
<1> SUFFICES ASSUME TypeOK, [DevNext]_devVars PROVE [Next]_vars
  OBVIOUS
<1>1. CASE MainStep
  BY <1>1 DEF MainStep, BuildServer, SeeStarted, SeeDead, OpenSession, TurnShown,
     StopServer, Joined
<1>2. CASE Timers
  BY <1>2 DEF Timers, StartDeadline, JoinDeadline
<1>3. CASE ServerStep
  BY <1>3 DEF ServerStep, EnterLifespan, Bind, NoticeExit, EndLifespan, CloseRuntime
<1>4. CASE User
  BY <1>4, TerminalAssumption DEF TerminalAssumption, User, InterruptWait, SendTurn, Quit,
     Interrupt, InputReturns, Signal, ForceExit, Next
<1>5. CASE Emit
  <2>1. Len(events) + 1 \in 1 .. Len(Stream)
    BY <1>5, StreamAssumption DEF StreamAssumption, Emit, TypeOK
  <2>2. Stream[Len(events) + 1] \in Event
    BY <2>1, StreamAssumption DEF StreamAssumption
  <2> QED
    BY <1>5, <2>2 DEF Emit, Next
<1>6. CASE EndTurn \/ RunSchedule
  BY <1>6 DEF EndTurn, RunSchedule, Next
<1>7. ASSUME NEW s \in Subscribers,
             SendMessage(s) \/ Watch(s) \/ Serve(s) \/ Leave(s) \/ Vanish(s)
      PROVE  [Next]_vars
  BY <1>7 DEF SendMessage, Watch, Serve, Leave, Vanish, Next
<1>8. CASE UNCHANGED devVars
  BY <1>8 DEF devVars
<1> QED
  BY <1>1, <1>2, <1>3, <1>4, <1>5, <1>6, <1>7, <1>8 DEF DevNext

LEMMA DevInitTyped == DevInit => TypeOK
<1> SUFFICES ASSUME DevInit PROVE TypeOK
  OBVIOUS
<1>1. Len(<<>>) <= MaxEvents /\ <<>> \in Seq(Event)
  BY BoundAssumption DEF BoundAssumption
<1> QED
  BY <1>1 DEF DevInit, Init, TypeOK, PC

\* The development server uses the broker as it is meant to be used: whatever
\* the terminal, the server thread and the clients do is a step of the broker
\* or none of its business, so all that is proved of it holds here.
THEOREM DevServerUsesBroker == DevSpec => Spec
<1>1. DevInit => Init /\ TypeOK
  BY DevInitTyped DEF DevInit
<1>2. TypeOK /\ [DevNext]_devVars => TypeOK'
  BY DevStepIsBrokerStep, TypeCorrectStep
<1> QED
  BY <1>1, <1>2, DevStepIsBrokerStep, PTL DEF DevSpec, Spec

\* TranscriptIsExact under the development server: an interrupted terminal, a
\* draining or ended process never leave a watcher with a gap.
THEOREM DevWatchersGetTheTurn == DevSpec => []TranscriptIsExact
BY DevServerUsesBroker, WatchersGetTheTurn, PTL

\* Nor can any watcher of the development server tell the broker from one
\* append-only log, sealed once, that it reads from the first event.
THEOREM DevServerKeepsLog == DevSpec => Log!Spec
BY DevServerUsesBroker, ImplementsLogSafety, PTL

-----------------------------------------------------------------------------
\* What each stage of the server says about the work in it: nothing before it
\* serves, nothing cancelled while it serves, nothing running after it.
StageInv ==
    /\ server \in {"down", "opening", "binding"} =>
          turn = "none" /\ scheduled = "none" /\ \A s \in Subscribers : ~Open(s)
    /\ server \in {"serving", "draining"} => turn # "cancelled"
    /\ server \in {"unwinding", "dead"} => turn # "running" /\ scheduled # "running"
    /\ main = "building" => server = "down"

DevInv == DevTypeOK /\ StageInv /\ StopsAreOrderly

LEMMA DevTypeStep == DevTypeOK /\ [DevNext]_devVars => DevTypeOK'
<1> SUFFICES ASSUME DevTypeOK, [DevNext]_devVars PROVE DevTypeOK'
  OBVIOUS
<1>t. TypeOK'
  BY DevStepIsBrokerStep, TypeCorrectStep DEF DevTypeOK
<1> USE <1>t DEF DevTypeOK, Main, Server, flags, work
<1>1. CASE MainStep
  <2>1. CASE BuildServer \/ SeeStarted \/ SeeDead \/ OpenSession
    BY <2>1 DEF BuildServer, SeeStarted, SeeDead, OpenSession, Exit
  <2>2. CASE TurnShown \/ StopServer \/ Joined
    BY <2>2 DEF TurnShown, StopServer, Joined, Exit
  <2> QED
    BY <1>1, <2>1, <2>2 DEF MainStep
<1>2. CASE Timers
  BY <1>2 DEF Timers, StartDeadline, JoinDeadline, Exit
<1>3. CASE ServerStep
  BY <1>3 DEF ServerStep, EnterLifespan, Bind, NoticeExit, EndLifespan, CloseRuntime,
     CancelTurn
<1>4. CASE User
  BY <1>4 DEF User, InterruptWait, SendTurn, Quit, Interrupt, InputReturns, Signal,
     ForceExit, Exit, CancelTurn
<1>5. CASE Emit \/ EndTurn \/ RunSchedule
  BY <1>5 DEF Emit, EndTurn, RunSchedule, Others
<1>6. ASSUME NEW s \in Subscribers,
             SendMessage(s) \/ Watch(s) \/ Serve(s) \/ Leave(s) \/ Vanish(s)
      PROVE  DevTypeOK'
  BY <1>6 DEF SendMessage, Watch, Serve, Leave, Vanish, Others
<1>7. CASE UNCHANGED devVars
  BY <1>7 DEF devVars
<1> QED
  BY <1>1, <1>2, <1>3, <1>4, <1>5, <1>6, <1>7 DEF DevNext

\* A step that touches no generator opens no response.
LEMMA SameResponses ==
  ASSUME UNCHANGED vars
  PROVE  \A s \in Subscribers : Open(s)' <=> Open(s)
BY DEF vars, Open

LEMMA DevInvariantStep == DevInv /\ [DevNext]_devVars => DevInv'
<1> SUFFICES ASSUME DevInv, [DevNext]_devVars PROVE StageInv' /\ StopsAreOrderly'
  BY DevTypeStep DEF DevInv
<1> USE DEF DevInv, DevTypeOK, Main, Server, StageInv, StopsAreOrderly, flags, work
<1>1. CASE MainStep
  BY <1>1, SameResponses DEF MainStep, BuildServer, SeeStarted, SeeDead, OpenSession,
     TurnShown, StopServer, Joined, Exit
<1>2. CASE Timers
  BY <1>2, SameResponses DEF Timers, StartDeadline, JoinDeadline, Exit
<1>3. CASE ServerStep
  BY <1>3, SameResponses DEF ServerStep, EnterLifespan, Bind, NoticeExit, EndLifespan,
     CloseRuntime, CancelTurn, Drained
<1>4. CASE User
  <2>1. CASE SendTurn
    BY <2>1 DEF SendTurn, Subscribe
  <2>2. CASE Interrupt
    <3>1. CASE UNCHANGED vars
      BY <2>2, <3>1, SameResponses DEF Interrupt
    <3>2. CASE Open(Terminal) /\ Disconnect(Terminal)
      <4>1. server \notin {"down", "opening", "binding", "dead"}
        BY <3>2, TerminalAssumption DEF TerminalAssumption
      <4> QED
        BY <2>2, <4>1 DEF Interrupt
    <3> QED
      BY <2>2, <3>1, <3>2 DEF Interrupt
  <2> QED
    BY <1>4, <2>1, <2>2, SameResponses DEF User, InterruptWait, Quit, InputReturns, Signal,
       ForceExit, Exit, CancelTurn
<1>5. CASE Emit \/ EndTurn
  BY <1>5 DEF Emit, EndTurn, Others, IsUp
<1>6. CASE RunSchedule
  BY <1>6, SameResponses DEF RunSchedule, Others, IsUp
<1>7. ASSUME NEW s \in Subscribers,
             SendMessage(s) \/ Watch(s) \/ Serve(s) \/ Leave(s) \/ Vanish(s)
      PROVE  StageInv' /\ StopsAreOrderly'
  BY <1>7 DEF SendMessage, Watch, Serve, Leave, Vanish, Others, IsUp
<1>8. CASE UNCHANGED devVars
  BY <1>8, SameResponses DEF devVars
<1> QED
  BY <1>1, <1>2, <1>3, <1>4, <1>5, <1>6, <1>7, <1>8 DEF DevNext

\* The development server stops in order, for any watchers and any turn: its
\* runtime closes after its last user, and a process that was not hurried by a
\* deadline or a ^C leaves no running server behind.
THEOREM StopsInOrder == DevSpec => [](DevTypeOK /\ StopsAreOrderly)
<1>1. DevInit => DevInv
  <2> SUFFICES ASSUME DevInit PROVE DevInv
    OBVIOUS
  <2>1. TypeOK
    BY DevInitTyped
  <2> QED
    BY <2>1 DEF DevInit, Init, DevInv, DevTypeOK, Main, Server, StageInv, StopsAreOrderly,
       Open
<1>2. DevInv => DevTypeOK /\ StopsAreOrderly
  BY DEF DevInv
<1> QED
  BY <1>1, <1>2, DevInvariantStep, PTL DEF DevSpec
=============================================================================
