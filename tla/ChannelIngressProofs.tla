------------------------ MODULE ChannelIngressProofs ------------------------
(* Sessions are conversations, and no message of Slack runs twice: for any   *)
(* messages, channels and threads, and any number of attempts and crashes.   *)
EXTENDS ChannelIngress, TLAPS

USE KindAssumption, NoneAssumption, BoundAssumption DEF KindAssumption, NoneAssumption, BoundAssumption

(* What makes SlackRunsAtMostOnce inductive: a request that is on its way or *)
(* not yet made has no turn, and on Slack no retry ever has.                 *)
RequestsAreNew ==
    /\ \A e \in Event : sent[e] <= attempts
    /\ \A r \in inFlight : task[r] = "none" /\ r.retry < sent[r.event]
    /\ \A r \in Request : sent[r.event] <= r.retry => task[r] = "none"
    /\ \A r \in Request : IsRetry(r) => task[r] = "none"

(* Those in memory have begun, on their own key, and each is there once.     *)
MemoryHasBegun ==
    /\ \A k \in Keys : \A i \in DOMAIN memory[k] :
          /\ task[memory[k][i]] \notin {"none", "waiting"}
          /\ SessionKey(memory[k][i].event.msg) = k
    /\ \A k \in Keys : \A i, j \in DOMAIN memory[k] : memory[k][i] = memory[k][j] => i = j

TurnsAreMessages == \A r \in Request : task[r] # "none" => ~r.event.bot

IInv ==
    /\ TypeOK
    /\ RequestsAreNew
    /\ MemoryHasBegun
    /\ TurnsAreMessages
    /\ PostsContinueConversation

\* The adapter's key is the surface's notion of a conversation.
LEMMA KeyIsConversation ==
    ASSUME NEW m \in Messages
    PROVE  /\ SessionKey(m) = Conversation(m)
           /\ Target(m) = Conversation(m)
           /\ SessionKey(m) \in Keys
BY DEF SessionKey, Target, Thread, ThreadTs, DiscordChannel, Conversation, Keys

LEMMA RequestHasKey ==
    ASSUME NEW r \in Request
    PROVE  /\ r.event \in Event /\ r.retry \in 0 .. MaxAttempts
           /\ r.event.msg \in Messages /\ r.event.bot \in BOOLEAN
           /\ SessionKey(r.event.msg) \in Keys
<1>1. r.event \in Event /\ r.retry \in 0 .. MaxAttempts
  BY DEF Request
<1> QED
  BY <1>1, KeyIsConversation DEF Event

LEMMA InitIInv == Init => IInv
<1> SUFFICES ASSUME Init PROVE IInv
  OBVIOUS
<1>1. TypeOK
  BY DEF Init, TypeOK
<1>2. RequestsAreNew
  BY DEF Init, RequestsAreNew
<1>3. MemoryHasBegun /\ TurnsAreMessages /\ PostsContinueConversation
  BY DEF Init, MemoryHasBegun, TurnsAreMessages, PostsContinueConversation
<1> QED
  BY <1>1, <1>2, <1>3 DEF IInv

\* The requests: what Acknowledge leaves of them.
LEMMA AcknowledgeFacts ==
    ASSUME TypeOK, NEW r \in inFlight, Acknowledge(r)
    PROVE  /\ inFlight' = inFlight \ {r}
           /\ acked' \subseteq Event
           /\ attempts' = attempts /\ sent' = sent
           /\ r \in Request
<1>1. r \in Request /\ acked \subseteq Event
  BY DEF TypeOK
<1>2. r.event \in Event
  BY <1>1, RequestHasKey
<1> QED
  BY <1>1, <1>2 DEF Acknowledge

\* A step that only takes requests away, if anything.
LEMMA QuietStep ==
    ASSUME IInv, inFlight' \subseteq inFlight, acked' \subseteq Event,
           up' \in BOOLEAN, UNCHANGED <<crashes, attempts, sent, turns>>
    PROVE  IInv'
<1>1. TypeOK'
  BY DEF IInv, TypeOK, turns
<1>2. RequestsAreNew'
  BY DEF IInv, RequestsAreNew, turns, IsRetry
<1>3. MemoryHasBegun' /\ TurnsAreMessages'
  BY DEF IInv, MemoryHasBegun, TurnsAreMessages, turns
<1>4. PostsContinueConversation'
  BY DEF IInv, PostsContinueConversation, turns
<1> QED
  BY <1>1, <1>2, <1>3, <1>4 DEF IInv

LEMMA SendIInv ==
    ASSUME IInv, NEW e \in Event, Send(e)
    PROVE  IInv'
<1> DEFINE q == [event |-> e, retry |-> sent[e]]
<1>1. /\ sent \in [Event -> 0 .. MaxAttempts] /\ attempts \in 0 .. MaxAttempts
      /\ sent[e] \in Nat /\ sent[e] <= attempts /\ attempts < MaxAttempts
  BY DEF IInv, TypeOK, RequestsAreNew, Send
<1>2. q \in Request
  BY <1>1 DEF Request
<1>3. /\ attempts' = attempts + 1 /\ inFlight' = inFlight \cup {q}
      /\ sent' = [sent EXCEPT ![e] = sent[e] + 1]
      /\ UNCHANGED <<up, crashes, acked, turns>>
  BY DEF Send
<1>4. sent'[e] = sent[e] + 1 /\ \A f \in Event : f # e => sent'[f] = sent[f]
  BY <1>1, <1>3
<1>5. TypeOK'
  BY <1>1, <1>2, <1>3 DEF IInv, TypeOK, turns
<1>6. RequestsAreNew'
  <2>0. task' = task
    BY <1>3 DEF turns
  <2>1. \A f \in Event : sent'[f] <= attempts'
    <3>1. \A f \in Event : sent[f] \in Nat /\ sent[f] <= attempts
      BY <1>1 DEF IInv, RequestsAreNew
    <3> QED
      BY <1>1, <1>3, <1>4, <3>1
  <2>2. \A f \in Event : sent[f] \in Nat /\ sent[f] <= sent'[f] /\ sent'[f] \in Nat
    BY <1>1, <1>4
  <2>3. ASSUME NEW r \in inFlight' PROVE task'[r] = "none" /\ r.retry < sent'[r.event]
    <3>1. CASE r = q
      <4>1. sent[q.event] <= q.retry
        BY <1>1
      <4>2. task[q] = "none"
        BY <1>2, <4>1 DEF IInv, RequestsAreNew
      <4> QED
        BY <1>1, <1>4, <2>0, <3>1, <4>2
    <3>2. CASE r \in inFlight
      <4>1. r \in Request /\ task[r] = "none" /\ r.retry < sent[r.event]
        BY <3>2 DEF IInv, TypeOK, RequestsAreNew
      <4>2. r.retry \in Nat
        BY <4>1, RequestHasKey
      <4> QED
        BY <2>0, <2>2, <4>1, <4>2, RequestHasKey
    <3> QED
      BY <1>3, <3>1, <3>2
  <2>4. ASSUME NEW r \in Request, sent'[r.event] <= r.retry PROVE task'[r] = "none"
    <3>1. r.event \in Event /\ r.retry \in Nat
      BY RequestHasKey
    <3>2. sent[r.event] <= r.retry
      BY <2>2, <2>4, <3>1
    <3> QED
      BY <2>0, <3>2 DEF IInv, RequestsAreNew
  <2>5. \A r \in Request : IsRetry(r) => task'[r] = "none"
    BY <2>0 DEF IInv, RequestsAreNew
  <2> QED
    BY <2>1, <2>3, <2>4, <2>5 DEF RequestsAreNew, IsRetry
<1>7. MemoryHasBegun' /\ TurnsAreMessages'
  BY <1>3 DEF IInv, MemoryHasBegun, TurnsAreMessages, turns
<1>8. PostsContinueConversation'
  BY <1>3 DEF IInv, PostsContinueConversation, turns
<1> QED
  BY <1>5, <1>6, <1>7, <1>8 DEF IInv

\* What is accepted is a request nothing was done for, and no retry of Slack's.
LEMMA AcceptFacts ==
    ASSUME IInv, NEW r \in inFlight, Accept(r)
    PROVE  /\ inFlight' = inFlight \ {r} /\ acked' \subseteq Event
           /\ attempts' = attempts /\ sent' = sent
           /\ r \in Request /\ ~IsRetry(r) /\ r.retry < sent[r.event]
           /\ ~r.event.bot /\ SessionKey(r.event.msg) \in Keys
           /\ task[r] = "none"
<1>1. /\ inFlight' = inFlight \ {r} /\ acked' \subseteq Event
      /\ attempts' = attempts /\ sent' = sent /\ r \in Request
  BY AcknowledgeFacts DEF IInv, Accept
<1>2. ~IsRetry(r) /\ ~r.event.bot
  BY DEF Accept, IsMessage
<1>3. task[r] = "none" /\ r.retry < sent[r.event]
  BY DEF IInv, RequestsAreNew
<1> QED
  BY <1>1, <1>2, <1>3, RequestHasKey

LEMMA AcceptIInv ==
    ASSUME IInv, NEW r \in inFlight, Accept(r)
    PROVE  IInv'
<1> DEFINE k == SessionKey(r.event.msg)
<1>1. /\ inFlight' = inFlight \ {r} /\ acked' \subseteq Event
      /\ attempts' = attempts /\ sent' = sent
      /\ r \in Request /\ ~IsRetry(r) /\ r.retry < sent[r.event]
      /\ ~r.event.bot /\ k \in Keys /\ task[r] = "none"
  BY AcceptFacts
<1>2. /\ task' = [task EXCEPT ![r] = "waiting"]
      /\ task \in [Request -> {"none", "waiting", "running", "replying"} \cup Settled]
  BY DEF Accept, IInv, TypeOK
<1>3. task'[r] = "waiting" /\ \A q \in Request : q # r => task'[q] = task[q]
  BY <1>1, <1>2
<1>4. TypeOK'
  <2>1. queue[k] \in Seq(Request)
    BY <1>1 DEF IInv, TypeOK
  <2>2. Append(queue[k], r) \in Seq(Request)
    BY <1>1, <2>1
  <2>3. queue' \in [Keys -> Seq(Request)]
    BY <1>1, <2>2 DEF Accept, IInv, TypeOK
  <2> QED
    BY <1>1, <1>2, <2>3 DEF Accept, IInv, TypeOK
<1>5. RequestsAreNew'
  <2>1. ASSUME NEW q \in inFlight' PROVE task'[q] = "none" /\ q.retry < sent[q.event]
    <3>1. q \in inFlight /\ q # r /\ q \in Request
      BY <1>1, <2>1 DEF IInv, TypeOK
    <3> QED
      BY <1>3, <3>1 DEF IInv, RequestsAreNew
  <2>2. ASSUME NEW q \in Request, sent[q.event] <= q.retry PROVE task'[q] = "none"
    <3>1. sent[r.event] \in Nat /\ r.retry \in Nat
      BY <1>1, RequestHasKey DEF IInv, TypeOK
    <3>2. q # r
      BY <1>1, <2>2, <3>1
    <3> QED
      BY <1>3, <2>2, <3>2 DEF IInv, RequestsAreNew
  <2>3. \A q \in Request : IsRetry(q) => task'[q] = "none"
    BY <1>1, <1>3 DEF IInv, RequestsAreNew
  <2>4. \A e \in Event : sent[e] <= attempts
    BY DEF IInv, RequestsAreNew
  <2> QED
    BY <1>1, <2>1, <2>2, <2>3, <2>4 DEF RequestsAreNew, IsRetry
<1>6. MemoryHasBegun'
  <2>1. memory' = memory
    BY DEF Accept
  <2>2. \A l \in Keys : \A i \in DOMAIN memory[l] : memory[l][i] \in Request
    BY DEF IInv, TypeOK
  <2>3. \A l \in Keys : \A i \in DOMAIN memory[l] : memory[l][i] # r
    BY <1>1 DEF IInv, MemoryHasBegun
  <2> QED
    BY <1>3, <2>1, <2>2, <2>3 DEF IInv, MemoryHasBegun
<1>7. TurnsAreMessages'
  BY <1>1, <1>3 DEF IInv, TurnsAreMessages
<1>8. PostsContinueConversation'
  <2>1. posts' = posts /\ posts \subseteq [answers : Request, at : Keys]
    BY DEF Accept, IInv, TypeOK
  <2>2. \A p \in posts : p.answers \in Request /\ p.answers # r
    BY <1>1, <2>1 DEF IInv, PostsContinueConversation
  <2> QED
    BY <1>3, <2>1, <2>2 DEF IInv, PostsContinueConversation
<1> QED
  BY <1>4, <1>5, <1>6, <1>7, <1>8 DEF IInv

\* A step of a turn that leaves requests, queues and memory as they are.
LEMMA TurnStep ==
    ASSUME IInv, NEW r \in Request,
           NEW s \in {"running", "replying"} \cup Settled,
           task[r] \in {"running", "replying"},
           task' = [task EXCEPT ![r] = s],
           UNCHANGED <<up, crashes, provider, queue, memory>>,
           posts' = posts \/ (Post(r) /\ s \in {"delivered", "undelivered"})
    PROVE  IInv'
<1>0. task \in [Request -> {"none", "waiting", "running", "replying"} \cup Settled]
  BY DEF IInv, TypeOK
<1>1. r.event.msg \in Messages /\ ~r.event.bot
  BY RequestHasKey DEF IInv, TurnsAreMessages
<1>2. posts' \subseteq [answers : Request, at : Keys]
  <2>1. Target(r.event.msg) \in Keys
    BY <1>1, KeyIsConversation
  <2> QED
    BY <2>1 DEF Post, IInv, TypeOK
<1>3. TypeOK'
  BY <1>0, <1>2 DEF IInv, TypeOK, provider
<1>4. RequestsAreNew'
  BY <1>0 DEF IInv, RequestsAreNew, IsRetry, provider, Settled
<1>5. MemoryHasBegun'
  <2>1. \A l \in Keys : \A i \in DOMAIN memory[l] : memory[l][i] \in Request
    BY DEF IInv, TypeOK
  <2> QED
    BY <1>0, <2>1 DEF IInv, MemoryHasBegun, Settled
<1>6. TurnsAreMessages'
  BY <1>0, <1>1 DEF IInv, TurnsAreMessages
<1>7. PostsContinueConversation'
  <2> SUFFICES ASSUME NEW p \in posts'
               PROVE  /\ task'[p.answers] \in {"delivered", "undelivered"}
                      /\ p.at = Conversation(p.answers.event.msg)
    BY DEF PostsContinueConversation
  <2>1. CASE p \in posts
    <3>1. p.answers \in Request
      BY <2>1 DEF IInv, TypeOK
    <3> QED
      BY <1>0, <2>1, <3>1 DEF IInv, PostsContinueConversation
  <2>2. CASE p \notin posts
    <3>1. p = [answers |-> r, at |-> Target(r.event.msg)] /\ s \in {"delivered", "undelivered"}
      BY <2>2 DEF Post
    <3> QED
      BY <1>0, <1>1, <3>1, KeyIsConversation
  <2> QED
    BY <2>1, <2>2
<1> QED
  BY <1>3, <1>4, <1>5, <1>6, <1>7 DEF IInv

LEMMA BeginTurnIInv ==
    ASSUME IInv, NEW r \in Request, BeginTurn(r)
    PROVE  IInv'
<1> DEFINE k == SessionKey(r.event.msg)
<1>1. /\ task \in [Request -> {"none", "waiting", "running", "replying"} \cup Settled]
      /\ task' = [task EXCEPT ![r] = "running"] /\ task[r] = "waiting"
  BY DEF BeginTurn, IInv, TypeOK
<1>2. r.event.msg \in Messages /\ ~r.event.bot /\ k \in Keys
  BY <1>1, RequestHasKey DEF IInv, TurnsAreMessages
<1>3. memory \in [Keys -> Seq(Request)] /\ queue \in [Keys -> Seq(Request)]
  BY DEF IInv, TypeOK
<1>4. memory[k] \in Seq(Request) /\ queue[k] \in Seq(Request) /\ queue[k] # <<>>
  BY <1>2, <1>3 DEF BeginTurn
<1>5. Append(memory[k], r) \in Seq(Request) /\ Tail(queue[k]) \in Seq(Request)
  BY <1>4
<1>6. /\ memory' = [memory EXCEPT ![k] = Append(memory[k], r)]
      /\ queue' = [queue EXCEPT ![k] = Tail(queue[k])]
      /\ UNCHANGED <<up, crashes, provider, posts>>
  BY DEF BeginTurn
<1> HIDE DEF k
<1>7. TypeOK'
  <2>1. memory' \in [Keys -> Seq(Request)] /\ queue' \in [Keys -> Seq(Request)]
    BY <1>2, <1>3, <1>5, <1>6
  <2> QED
    BY <1>1, <1>6, <2>1 DEF IInv, TypeOK, provider
<1>8. RequestsAreNew' /\ TurnsAreMessages'
  <2>1. \A q \in Request : task[q] = "none" => task'[q] = "none"
    BY <1>1
  <2>2. inFlight \subseteq Request
    BY DEF IInv, TypeOK
  <2>3. RequestsAreNew'
    BY <1>6, <2>1, <2>2 DEF IInv, RequestsAreNew, IsRetry, provider
  <2> QED
    BY <1>1, <1>2, <2>3 DEF IInv, TurnsAreMessages
<1>9. \A l \in Keys : \A i \in DOMAIN memory'[l] :
         \/ i \in DOMAIN memory[l] /\ memory'[l][i] = memory[l][i]
         \/ l = k /\ i = Len(memory[k]) + 1 /\ memory'[l][i] = r
  <2> TAKE l \in Keys
  <2>1. CASE l # k
    BY <1>3, <1>6, <2>1
  <2>2. CASE l = k
    <3>1. memory'[l] = Append(memory[k], r)
      BY <1>3, <1>6, <2>2
    <3> QED
      BY <1>4, <2>2, <3>1
  <2> QED
    BY <2>1, <2>2
<1>10. \A l \in Keys : \A i \in DOMAIN memory[l] :
          memory[l][i] \in Request /\ memory[l][i] # r /\ task[memory[l][i]] \notin {"none", "waiting"}
                                 /\ SessionKey(memory[l][i].event.msg) = l
  BY <1>1, <1>3 DEF IInv, MemoryHasBegun
<1>11. ASSUME NEW l \in Keys, NEW i \in DOMAIN memory'[l]
       PROVE  /\ task'[memory'[l][i]] \notin {"none", "waiting"}
              /\ SessionKey(memory'[l][i].event.msg) = l
  <2>1. CASE i \in DOMAIN memory[l] /\ memory'[l][i] = memory[l][i]
    BY <1>1, <1>10, <2>1
  <2>2. CASE l = k /\ i = Len(memory[k]) + 1 /\ memory'[l][i] = r
    BY <1>1, <2>2 DEF k
  <2> QED
    BY <1>9, <2>1, <2>2
<1>12. ASSUME NEW l \in Keys, NEW i \in DOMAIN memory'[l], NEW j \in DOMAIN memory'[l],
              memory'[l][i] = memory'[l][j]
       PROVE  i = j
  <2>1. CASE i \in DOMAIN memory[l] /\ memory'[l][i] = memory[l][i]
    <3>1. memory'[l][j] # r
      BY <1>10, <1>12, <2>1
    <3>2. j \in DOMAIN memory[l] /\ memory'[l][j] = memory[l][j]
      BY <1>9, <3>1
    <3> QED
      BY <1>12, <2>1, <3>2 DEF IInv, MemoryHasBegun
  <2>2. CASE l = k /\ i = Len(memory[k]) + 1 /\ memory'[l][i] = r
    <3>1. ~(j \in DOMAIN memory[l] /\ memory'[l][j] = memory[l][j])
      BY <1>10, <1>12, <2>2
    <3> QED
      BY <1>9, <2>2, <3>1
  <2> QED
    BY <1>9, <2>1, <2>2
<1>14. MemoryHasBegun'
  BY <1>11, <1>12 DEF MemoryHasBegun
<1>13. PostsContinueConversation'
  <2>1. posts \subseteq [answers : Request, at : Keys]
    BY DEF IInv, TypeOK
  <2> QED
    BY <1>1, <1>6, <2>1 DEF IInv, PostsContinueConversation
<1> QED
  BY <1>7, <1>8, <1>13, <1>14 DEF IInv

LEMMA CrashIInv ==
    ASSUME IInv, Crash
    PROVE  IInv'
<1>1. /\ task \in [Request -> {"none", "waiting", "running", "replying"} \cup Settled]
      /\ task' = [r \in Request |-> IF task[r] \in {"waiting", "running", "replying"}
                                    THEN "lost" ELSE task[r]]
      /\ UNCHANGED <<provider, memory, posts>>
  BY DEF Crash, IInv, TypeOK
<1>2. \A r \in Request :
         /\ task[r] = "none" <=> task'[r] = "none"
         /\ task'[r] # "waiting"
         /\ task[r] \in {"delivered", "undelivered"} => task'[r] = task[r]
  BY <1>1
<1>3. TypeOK'
  <2>0. crashes' \in 0 .. MaxCrashes
    BY DEF Crash, IInv, TypeOK
  <2>1. up' \in BOOLEAN
    BY DEF Crash
  <2>2. queue' \in [Keys -> Seq(Request)]
    BY DEF Crash
  <2>3. task' \in [Request -> {"none", "waiting", "running", "replying"} \cup Settled]
    BY <1>1 DEF Settled
  <2> QED
    BY <1>1, <2>0, <2>1, <2>2, <2>3 DEF IInv, TypeOK, provider
<1>4. RequestsAreNew' /\ TurnsAreMessages'
  <2>1. inFlight \subseteq Request
    BY DEF IInv, TypeOK
  <2>2. RequestsAreNew'
    BY <1>1, <1>2, <2>1 DEF IInv, RequestsAreNew, IsRetry, provider
  <2> QED
    BY <1>2, <2>2 DEF IInv, TurnsAreMessages
<1>5. MemoryHasBegun'
  <2>1. \A l \in Keys : \A i \in DOMAIN memory[l] : memory[l][i] \in Request
    BY DEF IInv, TypeOK
  <2> QED
    BY <1>1, <1>2, <2>1 DEF IInv, MemoryHasBegun
<1>6. PostsContinueConversation'
  <2>1. \A p \in posts : p.answers \in Request
    BY DEF IInv, TypeOK
  <2> QED
    BY <1>1, <1>2, <2>1 DEF IInv, PostsContinueConversation
<1> QED
  BY <1>3, <1>4, <1>5, <1>6 DEF IInv

LEMMA NextIInv ==
    ASSUME IInv, [Next]_vars
    PROVE  IInv'
<1>1. inFlight \subseteq Request /\ acked \subseteq Event /\ up \in BOOLEAN
  BY DEF IInv, TypeOK
<1>2. ASSUME NEW e \in Event, Send(e) PROVE IInv'
  BY <1>2, SendIInv
<1>3. ASSUME NEW r \in Request, BeginTurn(r) PROVE IInv'
  BY <1>3, BeginTurnIInv
<1>4. ASSUME NEW r \in Request, EndRun(r) PROVE IInv'
  <2>1. PICK s \in {"replying", "silent"} : task' = [task EXCEPT ![r] = s]
    BY <1>4 DEF EndRun
  <2>2. s \in {"running", "replying"} \cup Settled
    BY DEF Settled
  <2>3. posts' = posts \/ (Post(r) /\ s \in {"delivered", "undelivered"})
    BY <1>4 DEF EndRun
  <2>4. /\ task[r] \in {"running", "replying"}
        /\ UNCHANGED <<up, crashes, provider, queue, memory>>
    BY <1>4 DEF EndRun
  <2> QED
    BY <2>1, <2>2, <2>3, <2>4, TurnStep
<1>5. ASSUME NEW r \in Request, Deliver(r) PROVE IInv'
  <2>1. PICK s \in {"delivered", "undelivered"} : task' = [task EXCEPT ![r] = s]
    BY <1>5 DEF Deliver
  <2>2. posts' = posts \/ (Post(r) /\ s \in {"delivered", "undelivered"})
    BY <1>5 DEF Deliver
  <2>3. s \in {"running", "replying"} \cup Settled
    BY DEF Settled
  <2>4. /\ task[r] \in {"running", "replying"}
        /\ UNCHANGED <<up, crashes, provider, queue, memory>>
    BY <1>5 DEF Deliver
  <2> QED
    BY <2>1, <2>2, <2>3, <2>4, TurnStep
<1>6. ASSUME NEW r \in inFlight, Lose(r) \/ Reject(r) PROVE IInv'
  BY <1>1, <1>6, QuietStep DEF Lose, Reject
<1>7. ASSUME NEW r \in inFlight, Handshake(r) \/ SkipRetry(r) \/ Ignore(r) PROVE IInv'
  <2>1. Acknowledge(r) /\ up' = up /\ UNCHANGED <<crashes, turns>>
    BY <1>7 DEF Handshake, SkipRetry, Ignore
  <2>2. /\ inFlight' \subseteq inFlight /\ acked' \subseteq Event
        /\ attempts' = attempts /\ sent' = sent
    BY <2>1, AcknowledgeFacts DEF IInv
  <2> QED
    BY <1>1, <2>1, <2>2, QuietStep
<1>8. ASSUME NEW r \in inFlight, Accept(r) PROVE IInv'
  BY <1>8, AcceptIInv
<1>9. CASE Crash
  BY <1>9, CrashIInv
<1>10. CASE Restart
  BY <1>1, <1>10, QuietStep DEF Restart, provider
<1>11. CASE UNCHANGED vars
  BY <1>1, <1>11, QuietStep DEF vars, provider
<1> QED
  BY <1>2, <1>3, <1>4, <1>5, <1>6, <1>7, <1>8, <1>9, <1>10, <1>11 DEF Next, Handle

-----------------------------------------------------------------------------
(* The refinement of Conversations.                                          *)

(* The line of a key holds its waiting requests, each once.                  *)
LineInv ==
    /\ \A k \in Keys : \A i \in DOMAIN queue[k] :
          task[queue[k][i]] = "waiting" /\ SessionKey(queue[k][i].event.msg) = k
    /\ \A k \in Keys : \A i, j \in DOMAIN queue[k] : queue[k][i] = queue[k][j] => i = j
    /\ \A r \in Request : task[r] = "waiting" =>
          \E i \in DOMAIN queue[SessionKey(r.event.msg)] : queue[SessionKey(r.event.msg)][i] = r

\* Those in line wait, and have one key.
LEMMA InLineWaits ==
    ASSUME TypeOK, LineInv, NEW a \in Request, NEW b \in Request, InLine(a, b)
    PROVE  /\ task[a] = "waiting" /\ task[b] = "waiting" /\ a # b
           /\ SessionKey(a.event.msg) = SessionKey(b.event.msg)
<1> DEFINE k == SessionKey(b.event.msg)
<1>1. k \in Keys
  BY RequestHasKey
<1>2. PICK i, j \in DOMAIN queue[k] : i < j /\ queue[k][i] = a /\ queue[k][j] = b
  BY DEF InLine
<1>3. queue[k] \in Seq(Request)
  BY <1>1 DEF TypeOK
<1>4. i # j
  BY <1>2, <1>3
<1> HIDE DEF k
<1>5. a # b /\ task[a] = "waiting" /\ task[b] = "waiting" /\ SessionKey(a.event.msg) = k
  BY <1>1, <1>2, <1>4 DEF LineInv
<1> QED
  BY <1>5 DEF k

\* Of a turn that changes, only its event is seen to change.
LEMMA WorkChanges ==
    ASSUME TypeOK, NEW r \in Request, NEW s, task' = [task EXCEPT ![r] = s],
           NEW v, v = CASE s = "none" -> "new" [] s \in {"waiting", "running"} -> s [] OTHER -> "over"
    PROVE  WorkSeen' = [WorkSeen EXCEPT ![r] = v]
<1>1. task'[r] = s /\ \A q \in Request : q # r => task'[q] = task[q]
  BY DEF TypeOK
<1>2. WorkSeen'[r] = v /\ \A q \in Request : q # r => WorkSeen'[q] = WorkSeen[q]
  BY <1>1 DEF WorkSeen
<1>3. /\ WorkSeen = [q \in Request |-> WorkSeen[q]]
      /\ WorkSeen' = [q \in Request |-> WorkSeen'[q]]
  BY DEF WorkSeen
<1> HIDE DEF WorkSeen
<1> QED
  BY <1>2, <1>3

\* A step that leaves the lines alone.
LEMMA LinesKept ==
    ASSUME LineInv, queue' = queue,
           \A r \in Request : task'[r] = "waiting" <=> task[r] = "waiting", TypeOK
    PROVE  LineInv' /\ AheadSeen' = AheadSeen
<1>1. \A k \in Keys : \A i \in DOMAIN queue[k] : queue[k][i] \in Request
  BY DEF TypeOK
<1>2. LineInv'
  BY <1>1 DEF LineInv
<1>3. \A r, q \in Request : InLine(r, q)' <=> InLine(r, q)
  BY DEF InLine
<1> HIDE DEF InLine
<1> QED
  BY <1>2, <1>3 DEF AheadSeen

LEMMA OnePast ==
    ASSUME NEW S, NEW t \in Seq(S), NEW x \in S
    PROVE  /\ Len(t) \in Nat /\ DOMAIN t = 1 .. Len(t) /\ DOMAIN Append(t, x) = 1 .. (Len(t) + 1)
           /\ \A i \in 1 .. Len(t) : Append(t, x)[i] = t[i] /\ t[i] \in S
           /\ Append(t, x)[Len(t) + 1] = x
OBVIOUS

LEMMA AllButFirst ==
    ASSUME NEW S, NEW t \in Seq(S), t # <<>>
    PROVE  /\ Len(t) \in Nat /\ Len(t) >= 1 /\ DOMAIN t = 1 .. Len(t) /\ Head(t) = t[1]
           /\ DOMAIN Tail(t) = 1 .. (Len(t) - 1)
           /\ \A i \in 1 .. (Len(t) - 1) : Tail(t)[i] = t[i + 1]
           /\ \A i \in 1 .. Len(t) : t[i] \in S
OBVIOUS

\* An accepted request goes to the end of the line of its key.
LEMMA AcceptIsArrive ==
    ASSUME IInv, LineInv, NEW r \in inFlight, Accept(r)
    PROVE  LineInv' /\ Promise!Arrive(r)
<1> DEFINE k == SessionKey(r.event.msg)
           line == queue[k]
           longer == Append(line, r)
           joined == {<<w, r>> : w \in {q \in Request :
                        Promise!Waiting(q) /\ [g \in Request |-> SessionKey(g.event.msg)][q]
                                              = [g \in Request |-> SessionKey(g.event.msg)][r]}}
<1>1. /\ r \in Request /\ k \in Keys /\ task[r] = "none" /\ up /\ up' = up
      /\ task \in [Request -> {"none", "waiting", "running", "replying"} \cup Settled]
      /\ task' = [task EXCEPT ![r] = "waiting"]
      /\ queue \in [Keys -> Seq(Request)] /\ queue' = [queue EXCEPT ![k] = longer]
  BY AcceptFacts DEF Accept, IInv, TypeOK
<1>2. /\ line \in Seq(Request)
      /\ queue'[k] = longer /\ \A l \in Keys : l # k => queue'[l] = queue[l]
  BY <1>1
<1>3. /\ Len(line) \in Nat /\ DOMAIN line = 1 .. Len(line) /\ DOMAIN longer = 1 .. (Len(line) + 1)
      /\ \A i \in 1 .. Len(line) : longer[i] = line[i] /\ line[i] \in Request
      /\ longer[Len(line) + 1] = r
  BY <1>1, <1>2, OnePast
<1>4. task'[r] = "waiting" /\ \A q \in Request : q # r => task'[q] = task[q]
  BY <1>1
<1>5. \A i \in DOMAIN longer : i \in 1 .. Len(line) \/ i = Len(line) + 1
  BY <1>3
<1>6. \A i \in 1 .. Len(line) : line[i] # r /\ task[line[i]] = "waiting" /\ SessionKey(line[i].event.msg) = k
  BY <1>1, <1>3 DEF LineInv
<1>7. \A l \in Keys : \A i \in DOMAIN queue[l] : queue[l][i] \in Request /\ queue[l][i] # r
  BY <1>1 DEF LineInv
<1> HIDE DEF longer, line
<1>8. LineInv'
  <2>1. ASSUME NEW l \in Keys
        PROVE  /\ \A i \in DOMAIN queue'[l] :
                     task'[queue'[l][i]] = "waiting" /\ SessionKey(queue'[l][i].event.msg) = l
               /\ \A i, j \in DOMAIN queue'[l] : queue'[l][i] = queue'[l][j] => i = j
    <3>1. CASE l # k
      <4>1. queue'[l] = queue[l]
        BY <1>2, <3>1
      <4> QED
        BY <1>4, <1>7, <4>1 DEF LineInv
    <3>2. CASE l = k
      <4>1. \A i, j \in 1 .. Len(line) : line[i] = line[j] => i = j
        BY <1>1, <1>3 DEF LineInv, line
      <4>2. \A i \in DOMAIN longer : task'[longer[i]] = "waiting" /\ SessionKey(longer[i].event.msg) = k
        BY <1>3, <1>4, <1>5, <1>6 DEF k
      <4>3. \A i, j \in DOMAIN longer : longer[i] = longer[j] => i = j
        BY <1>3, <1>5, <1>6, <4>1
      <4> QED
        BY <1>2, <3>2, <4>2, <4>3
    <3> QED
      BY <3>1, <3>2
  <2>2. ASSUME NEW q \in Request, task'[q] = "waiting"
        PROVE  \E i \in DOMAIN queue'[SessionKey(q.event.msg)] : queue'[SessionKey(q.event.msg)][i] = q
    <3>1. CASE q = r
      <4>1. Len(line) + 1 \in DOMAIN longer
        BY <1>3
      <4> QED
        BY <1>2, <1>3, <3>1, <4>1 DEF k
    <3>2. CASE q # r /\ SessionKey(q.event.msg) = k
      <4>1. PICK i \in DOMAIN line : line[i] = q
        BY <1>4, <2>2, <3>2 DEF LineInv, line
      <4>2. i \in DOMAIN longer /\ longer[i] = q
        BY <1>3, <4>1
      <4> QED
        BY <1>2, <3>2, <4>2
    <3>3. CASE q # r /\ SessionKey(q.event.msg) # k
      <4>1. queue'[SessionKey(q.event.msg)] = queue[SessionKey(q.event.msg)]
        BY <1>2, <3>3, RequestHasKey
      <4> QED
        BY <1>4, <2>2, <3>3, <4>1 DEF LineInv
    <3> QED
      BY <3>1, <3>2, <3>3
  <2> QED
    BY <2>1, <2>2 DEF LineInv
<1>9. ASSUME NEW a \in Request, NEW b \in Request
      PROVE  InLine(a, b)' <=> \/ InLine(a, b)
                               \/ b = r /\ task[a] = "waiting" /\ SessionKey(a.event.msg) = k
  <2>1. CASE SessionKey(b.event.msg) # k
    <3>1. queue'[SessionKey(b.event.msg)] = queue[SessionKey(b.event.msg)] /\ b # r
      BY <1>2, <2>1, RequestHasKey DEF k
    <3> QED
      BY <3>1 DEF InLine
  <2>2. CASE SessionKey(b.event.msg) = k
    <3>1. InLine(a, b) <=> \E i, j \in DOMAIN line : i < j /\ line[i] = a /\ line[j] = b
      BY <2>2 DEF InLine, line
    <3>2. InLine(a, b)' <=> \E i, j \in DOMAIN longer : i < j /\ longer[i] = a /\ longer[j] = b
      BY <1>2, <2>2 DEF InLine
    <3>3. ASSUME InLine(a, b)'
          PROVE  InLine(a, b) \/ (b = r /\ task[a] = "waiting" /\ SessionKey(a.event.msg) = k)
      <4>1. PICK i, j \in DOMAIN longer : i < j /\ longer[i] = a /\ longer[j] = b
        BY <3>2, <3>3
      <4>2. i \in 1 .. Len(line)
        BY <1>3, <4>1
      <4>3. CASE j \in 1 .. Len(line)
        BY <1>3, <3>1, <4>1, <4>2, <4>3
      <4>4. CASE j = Len(line) + 1
        BY <1>3, <1>6, <4>1, <4>2, <4>4
      <4> QED
        BY <1>5, <4>3, <4>4
    <3>4. ASSUME InLine(a, b) PROVE InLine(a, b)'
      <4>1. PICK i, j \in DOMAIN line : i < j /\ line[i] = a /\ line[j] = b
        BY <3>1, <3>4
      <4>2. /\ i \in DOMAIN longer /\ longer[i] = a
            /\ j \in DOMAIN longer /\ longer[j] = b
        BY <1>3, <4>1
      <4> QED
        BY <3>2, <4>1, <4>2
    <3>5. ASSUME b = r, task[a] = "waiting", SessionKey(a.event.msg) = k PROVE InLine(a, b)'
      <4>1. PICK i \in DOMAIN line : line[i] = a
        BY <3>5 DEF LineInv, line
      <4>2. /\ i \in DOMAIN longer /\ longer[i] = a /\ i < Len(line) + 1
            /\ Len(line) + 1 \in DOMAIN longer /\ longer[Len(line) + 1] = b
        BY <1>3, <3>5, <4>1
      <4> QED
        BY <3>2, <4>2
    <3> QED
      BY <3>3, <3>4, <3>5
  <2> QED
    BY <2>1, <2>2
<1>10. \A a, b \in Request :
          <<a, b>> \in joined <=> b = r /\ task[a] = "waiting" /\ SessionKey(a.event.msg) = k
  <2>1. \A q \in Request : Promise!Waiting(q) <=> task[q] = "waiting"
    BY DEF Promise!Waiting, WorkSeen
  <2> QED
    BY <1>1, <2>1 DEF k
<1>11. AheadSeen' = AheadSeen \cup joined
  <2>1. \A a, b \in Request : /\ <<a, b>> \in AheadSeen <=> InLine(a, b)
                              /\ <<a, b>> \in AheadSeen' <=> InLine(a, b)'
    BY DEF AheadSeen
  <2>2. AheadSeen \subseteq Request \X Request /\ AheadSeen' \subseteq Request \X Request
    BY DEF AheadSeen
  <2>3. joined \subseteq Request \X Request
    <3> DEFINE those == {q \in Request : Promise!Waiting(q) /\ [g \in Request |-> SessionKey(g.event.msg)][q]
                                                            = [g \in Request |-> SessionKey(g.event.msg)][r]}
    <3>1. those \subseteq Request
      OBVIOUS
    <3> HIDE DEF those
    <3>2. {<<w, r>> : w \in those} \subseteq Request \X Request
      BY <1>1, <3>1
    <3> QED
      BY <3>2 DEF those
  <2> HIDE DEF joined, AheadSeen, InLine
  <2> QED
    BY <1>9, <1>10, <2>1, <2>2, <2>3
<1>12. WorkSeen' = [WorkSeen EXCEPT ![r] = "waiting"]
  BY <1>1, WorkChanges DEF IInv
<1>13. WorkSeen[r] = "new"
  BY <1>1 DEF WorkSeen
<1>14. Promise!Arrive(r)
  <2> HIDE DEF WorkSeen, AheadSeen
  <2> QED
    BY <1>1, <1>11, <1>12, <1>13 DEF Promise!Arrive, NoTurns
<1> QED
  BY <1>8, <1>14

\* The first in line begins; those behind it keep their order.
LEMMA BeginIsRun ==
    ASSUME IInv, LineInv, NEW r \in Request, BeginTurn(r)
    PROVE  LineInv' /\ Promise!Run(r)
<1> DEFINE k == SessionKey(r.event.msg)
           line == queue[k]
           rest == Tail(line)
<1>1. /\ k \in Keys /\ task[r] = "waiting" /\ up /\ up' = up
      /\ task \in [Request -> {"none", "waiting", "running", "replying"} \cup Settled]
      /\ task' = [task EXCEPT ![r] = "running"]
      /\ queue \in [Keys -> Seq(Request)] /\ queue' = [queue EXCEPT ![k] = rest]
      /\ line # <<>> /\ r = Head(line)
  BY RequestHasKey DEF BeginTurn, IInv, TypeOK
<1>2. /\ line \in Seq(Request)
      /\ queue'[k] = rest /\ \A l \in Keys : l # k => queue'[l] = queue[l]
  BY <1>1
<1>3. /\ Len(line) \in Nat /\ Len(line) >= 1 /\ DOMAIN line = 1 .. Len(line) /\ line[1] = r
      /\ DOMAIN rest = 1 .. (Len(line) - 1)
      /\ \A i \in 1 .. (Len(line) - 1) : rest[i] = line[i + 1]
      /\ \A i \in 1 .. Len(line) : line[i] \in Request
  BY <1>1, <1>2, AllButFirst
<1>4. task'[r] = "running" /\ \A q \in Request : q # r => task'[q] = task[q]
  BY <1>1
<1>5. \A i \in DOMAIN line : task[line[i]] = "waiting" /\ SessionKey(line[i].event.msg) = k
  BY <1>1 DEF LineInv
<1>6. \A i, j \in DOMAIN line : line[i] = line[j] => i = j
  BY <1>1 DEF LineInv
<1>7. \A l \in Keys : l # k => \A i \in DOMAIN queue[l] : queue[l][i] \in Request /\ queue[l][i] # r
  BY <1>1 DEF LineInv
<1> HIDE DEF rest, line
<1>8. ASSUME NEW i \in DOMAIN rest
      PROVE  i + 1 \in DOMAIN line /\ rest[i] = line[i + 1] /\ rest[i] # r /\ rest[i] \in Request
  <2>1. i + 1 \in DOMAIN line /\ rest[i] = line[i + 1] /\ 1 \in DOMAIN line /\ i + 1 # 1
    BY <1>3
  <2> QED
    BY <1>3, <1>6, <2>1
<1>9. ASSUME NEW i \in DOMAIN line, line[i] # r
      PROVE  i - 1 \in DOMAIN rest /\ rest[i - 1] = line[i]
  <2>1. i \in 1 .. Len(line) /\ i # 1
    BY <1>3, <1>9
  <2>2. i - 1 \in 1 .. (Len(line) - 1) /\ (i - 1) + 1 = i
    BY <1>3, <2>1
  <2> QED
    BY <1>3, <2>2
<1>10. LineInv'
  <2>1. ASSUME NEW l \in Keys
        PROVE  /\ \A i \in DOMAIN queue'[l] :
                     task'[queue'[l][i]] = "waiting" /\ SessionKey(queue'[l][i].event.msg) = l
               /\ \A i, j \in DOMAIN queue'[l] : queue'[l][i] = queue'[l][j] => i = j
    <3>1. CASE l # k
      <4>1. queue'[l] = queue[l]
        BY <1>2, <3>1
      <4> QED
        BY <1>4, <1>7, <3>1, <4>1 DEF LineInv
    <3>2. CASE l = k
      <4>1. \A i \in DOMAIN rest : task'[rest[i]] = "waiting" /\ SessionKey(rest[i].event.msg) = k
        BY <1>4, <1>5, <1>8 DEF k
      <4>2. ASSUME NEW i \in DOMAIN rest, NEW j \in DOMAIN rest, rest[i] = rest[j] PROVE i = j
        <5>1. i + 1 = j + 1
          BY <1>6, <1>8, <4>2
        <5> QED
          BY <1>3, <5>1
      <4> QED
        BY <1>2, <3>2, <4>1, <4>2
    <3> QED
      BY <3>1, <3>2
  <2>2. ASSUME NEW q \in Request, task'[q] = "waiting"
        PROVE  \E i \in DOMAIN queue'[SessionKey(q.event.msg)] : queue'[SessionKey(q.event.msg)][i] = q
    <3>0. q # r /\ task[q] = "waiting"
      BY <1>4, <2>2
    <3>1. PICK i \in DOMAIN queue[SessionKey(q.event.msg)] : queue[SessionKey(q.event.msg)][i] = q
      BY <3>0 DEF LineInv
    <3>2. CASE SessionKey(q.event.msg) = k
      <4>1. i - 1 \in DOMAIN rest /\ rest[i - 1] = q
        BY <1>9, <3>0, <3>1, <3>2 DEF line
      <4> QED
        BY <1>2, <3>2, <4>1
    <3>3. CASE SessionKey(q.event.msg) # k
      BY <1>2, <3>1, <3>3, RequestHasKey
    <3> QED
      BY <3>2, <3>3
  <2> QED
    BY <2>1, <2>2 DEF LineInv
<1>11. ASSUME NEW a \in Request, NEW b \in Request
       PROVE  InLine(a, b)' <=> InLine(a, b) /\ a # r /\ b # r
  <2>0. InLine(a, b) => SessionKey(a.event.msg) = SessionKey(b.event.msg)
    BY InLineWaits DEF IInv
  <2>1. CASE SessionKey(b.event.msg) # k
    <3>1. queue'[SessionKey(b.event.msg)] = queue[SessionKey(b.event.msg)] /\ b # r
      BY <1>2, <2>1, RequestHasKey DEF k
    <3>2. InLine(a, b) => a # r
      BY <2>0, <2>1 DEF k
    <3> QED
      BY <3>1, <3>2 DEF InLine
  <2>2. CASE SessionKey(b.event.msg) = k
    <3>1. InLine(a, b) <=> \E i, j \in DOMAIN line : i < j /\ line[i] = a /\ line[j] = b
      BY <2>2 DEF InLine, line
    <3>2. InLine(a, b)' <=> \E i, j \in DOMAIN rest : i < j /\ rest[i] = a /\ rest[j] = b
      BY <1>2, <2>2 DEF InLine
    <3>3. ASSUME InLine(a, b)' PROVE InLine(a, b) /\ a # r /\ b # r
      <4>1. PICK i, j \in DOMAIN rest : i < j /\ rest[i] = a /\ rest[j] = b
        BY <3>2, <3>3
      <4>2. /\ i + 1 \in DOMAIN line /\ line[i + 1] = a /\ a # r
            /\ j + 1 \in DOMAIN line /\ line[j + 1] = b /\ b # r
        BY <1>8, <4>1
      <4>3. i + 1 < j + 1
        BY <1>3, <4>1
      <4> QED
        BY <3>1, <4>2, <4>3
    <3>4. ASSUME InLine(a, b), a # r, b # r PROVE InLine(a, b)'
      <4>1. PICK i, j \in DOMAIN line : i < j /\ line[i] = a /\ line[j] = b
        BY <3>1, <3>4
      <4>2. /\ i - 1 \in DOMAIN rest /\ rest[i - 1] = a
            /\ j - 1 \in DOMAIN rest /\ rest[j - 1] = b
        BY <1>9, <3>4, <4>1
      <4>3. i - 1 < j - 1
        BY <1>3, <4>1
      <4> QED
        BY <3>2, <4>2, <4>3
    <3> QED
      BY <3>3, <3>4
  <2> QED
    BY <2>1, <2>2
<1>12. \A a \in Request : ~InLine(a, r)
  <2> SUFFICES ASSUME NEW a \in Request, NEW i \in DOMAIN line, NEW j \in DOMAIN line,
                      i < j, line[j] = r
               PROVE  FALSE
    BY DEF InLine, line
  <2>1. j = 1
    BY <1>3, <1>6
  <2> QED
    BY <1>3, <2>1
<1>13. Promise!Leaves(r) /\ \A a \in Request : <<a, r>> \notin AheadSeen
  <2>1. \A a, b \in Request : /\ <<a, b>> \in AheadSeen <=> InLine(a, b)
                              /\ <<a, b>> \in AheadSeen' <=> InLine(a, b)'
    BY DEF AheadSeen
  <2>2. AheadSeen \subseteq Request \X Request /\ AheadSeen' \subseteq Request \X Request
    BY DEF AheadSeen
  <2> HIDE DEF AheadSeen, InLine
  <2>3. AheadSeen' = {p \in AheadSeen : p[1] # r /\ p[2] # r}
    BY <1>11, <2>1, <2>2
  <2> QED
    BY <1>12, <2>1, <2>3 DEF Promise!Leaves
<1>14. ASSUME NEW q \in Request, [g \in Request |-> SessionKey(g.event.msg)][q]
                               = [g \in Request |-> SessionKey(g.event.msg)][r]
       PROVE  WorkSeen[q] # "running"
  <2>1. task[q] # "running"
    BY <1>14 DEF BeginTurn, Running
  <2> QED
    BY <1>1, <2>1 DEF WorkSeen
<1>15. WorkSeen' = [WorkSeen EXCEPT ![r] = "running"]
  BY <1>1, WorkChanges DEF IInv
<1>16. Promise!Waiting(r)
  BY <1>1 DEF Promise!Waiting, WorkSeen
<1>17. Promise!Run(r)
  <2> HIDE DEF WorkSeen, AheadSeen
  <2> QED
    BY <1>1, <1>13, <1>14, <1>15, <1>16 DEF Promise!Run, NoTurns
<1> QED
  BY <1>10, <1>17

\* A run that ends stands in no line.
LEMMA EndIsFinish ==
    ASSUME IInv, LineInv, NEW r \in Request, EndRun(r)
    PROVE  LineInv' /\ Promise!Finish(r)
<1>1. /\ task[r] = "running" /\ queue' = queue /\ up /\ up' = up
      /\ task \in [Request -> {"none", "waiting", "running", "replying"} \cup Settled]
  BY DEF EndRun, IInv, TypeOK
<1>2. PICK s \in {"replying", "silent"} : task' = [task EXCEPT ![r] = s]
  BY DEF EndRun
<1>3. LineInv' /\ AheadSeen' = AheadSeen
  BY <1>1, <1>2, LinesKept DEF IInv
<1>4. WorkSeen' = [WorkSeen EXCEPT ![r] = "over"]
  BY <1>2, WorkChanges DEF IInv
<1>5. WorkSeen[r] = "running"
  BY <1>1 DEF WorkSeen
<1>6. Promise!Leaves(r)
  <2>1. \A a, b \in Request : <<a, b>> \in AheadSeen => a # r /\ b # r
    BY <1>1, InLineWaits DEF AheadSeen, IInv
  <2>2. AheadSeen \subseteq Request \X Request
    BY DEF AheadSeen
  <2> HIDE DEF AheadSeen
  <2>3. AheadSeen = {p \in AheadSeen : p[1] # r /\ p[2] # r}
    BY <2>1, <2>2
  <2> QED
    BY <1>3, <2>3 DEF Promise!Leaves
<1> HIDE DEF WorkSeen, AheadSeen
<1> QED
  BY <1>1, <1>3, <1>4, <1>5, <1>6 DEF Promise!Finish, NoTurns

\* A crash empties the lines.
LEMMA CrashIsStop ==
    ASSUME IInv, LineInv, Crash
    PROVE  LineInv' /\ Promise!Stop
<1>1. /\ task \in [Request -> {"none", "waiting", "running", "replying"} \cup Settled]
      /\ task' = [r \in Request |-> IF task[r] \in {"waiting", "running", "replying"}
                                    THEN "lost" ELSE task[r]]
      /\ queue' = [k \in Keys |-> <<>>] /\ up /\ up' = FALSE
  BY DEF Crash, IInv, TypeOK
<1>2. \A k \in Keys : DOMAIN queue'[k] = {}
  BY <1>1
<1>3. \A r \in Request : task'[r] # "waiting"
  BY <1>1
<1>4. LineInv'
  BY <1>2, <1>3 DEF LineInv
<1>5. AheadSeen' = {}
  BY <1>2, RequestHasKey DEF AheadSeen, InLine
<1>6. WorkSeen' = [r \in Request |-> IF WorkSeen[r] = "new" THEN "new" ELSE "over"]
  <2>1. \A r \in Request : WorkSeen'[r] = IF WorkSeen[r] = "new" THEN "new" ELSE "over"
    BY <1>1 DEF WorkSeen
  <2>2. WorkSeen' = [r \in Request |-> WorkSeen'[r]]
    BY DEF WorkSeen
  <2> HIDE DEF WorkSeen
  <2> QED
    BY <2>1, <2>2
<1>7. NoTurns = [t \in {} |-> IF NoTurns[t] = "live" THEN "over" ELSE NoTurns[t]]
  BY DEF NoTurns
<1> HIDE DEF WorkSeen, AheadSeen
<1>8. Promise!Stop
  BY <1>1, <1>5, <1>6, <1>7 DEF Promise!Stop
<1> QED
  BY <1>4, <1>8

\* A step that none of those who post can tell.
LEMMA UnseenStep ==
    ASSUME TypeOK, LineInv, queue' = queue, up' = up, WorkSeen' = WorkSeen,
           \A r \in Request : task'[r] = "waiting" <=> task[r] = "waiting"
    PROVE  LineInv' /\ UNCHANGED Promise!vars
BY LinesKept DEF Promise!vars, NoTurns

\* Every step of the channel is a step of Conversations or is not seen.
LEMMA PromiseStep ==
    IInv /\ LineInv /\ [Next]_vars => LineInv' /\ [Promise!Next]_Promise!vars
<1> SUFFICES ASSUME IInv, LineInv, [Next]_vars
             PROVE  LineInv' /\ [Promise!Next]_Promise!vars
  OBVIOUS
<1>t. TypeOK
  BY DEF IInv
<1>u. ASSUME UNCHANGED <<task, queue, up>> PROVE LineInv' /\ UNCHANGED Promise!vars
  <2>1. WorkSeen' = WorkSeen
    BY <1>u DEF WorkSeen
  <2> QED
    BY <1>t, <1>u, <2>1, UnseenStep
<1>1. ASSUME NEW e \in Event, Send(e) PROVE LineInv' /\ UNCHANGED Promise!vars
  BY <1>1, <1>u DEF Send, turns
<1>2. ASSUME NEW r \in inFlight, Lose(r) \/ Reject(r) \/ Handshake(r) \/ SkipRetry(r) \/ Ignore(r)
      PROVE  LineInv' /\ UNCHANGED Promise!vars
  BY <1>2, <1>u DEF Lose, Reject, Handshake, SkipRetry, Ignore, turns
<1>3. ASSUME NEW r \in inFlight, Accept(r) PROVE LineInv' /\ \E s \in Request : Promise!Arrive(s)
  BY <1>3, AcceptIsArrive, AcceptFacts
<1>4. ASSUME NEW r \in Request, BeginTurn(r) PROVE LineInv' /\ Promise!Run(r)
  BY <1>4, BeginIsRun
<1>5. ASSUME NEW r \in Request, EndRun(r) PROVE LineInv' /\ Promise!Finish(r)
  BY <1>5, EndIsFinish
<1>6. ASSUME NEW r \in Request, Deliver(r) PROVE LineInv' /\ UNCHANGED Promise!vars
  <2>1. PICK s \in {"delivered", "undelivered"} : task' = [task EXCEPT ![r] = s]
    BY <1>6 DEF Deliver
  <2>2. task[r] = "replying" /\ queue' = queue /\ up' = up
    BY <1>6 DEF Deliver
  <2>3. task'[r] = s /\ \A q \in Request : q # r => task'[q] = task[q]
    BY <1>t, <2>1 DEF TypeOK
  <2>4. WorkSeen' = WorkSeen
    <3>1. \A q \in Request : WorkSeen'[q] = WorkSeen[q]
      BY <2>2, <2>3 DEF WorkSeen
    <3>2. WorkSeen = [q \in Request |-> WorkSeen[q]] /\ WorkSeen' = [q \in Request |-> WorkSeen'[q]]
      BY DEF WorkSeen
    <3> HIDE DEF WorkSeen
    <3> QED
      BY <3>1, <3>2
  <2>5. \A q \in Request : task'[q] = "waiting" <=> task[q] = "waiting"
    BY <2>2, <2>3
  <2> QED
    BY <1>t, <2>2, <2>4, <2>5, UnseenStep
<1>7. CASE Crash
  BY <1>7, CrashIsStop DEF Promise!Next
<1>8. CASE Restart
  <2>1. WorkSeen' = WorkSeen /\ queue' = queue /\ task' = task
    BY <1>8 DEF Restart, WorkSeen, turns
  <2>2. LineInv' /\ AheadSeen' = AheadSeen
    BY <1>t, <2>1, LinesKept
  <2>3. Promise!Resume
    BY <1>8, <2>1, <2>2 DEF Restart, Promise!Resume, NoTurns
  <2> QED
    BY <2>2, <2>3 DEF Promise!Next
<1>9. CASE UNCHANGED vars
  BY <1>9, <1>u DEF vars, turns
<1> QED
  BY <1>1, <1>2, <1>3, <1>4, <1>5, <1>6, <1>7, <1>8, <1>9 DEF Next, Handle, Promise!Next

\* The state of provider, webhook and turns is well typed, for any messages
\* and threads, and any number of attempts and crashes.
THEOREM TypeCorrect == Spec => []TypeOK
<1>1. IInv => TypeOK
  BY DEF IInv
<1> QED
  BY InitIInv, NextIInv, <1>1, PTL DEF Spec

\* No message of Slack runs twice, whatever the provider re-sends and the
\* network reorders, loses or delays, and whenever the server crashes.  (Discord
\* has no such theorem: its adapter does not recognise a retry.)
THEOREM NoSlackMessageRunsTwice == Spec => []SlackRunsAtMostOnce
<1>1. IInv => SlackRunsAtMostOnce
  <2> SUFFICES ASSUME IInv, NEW k \in Keys, NEW i \in DOMAIN memory[k], NEW j \in DOMAIN memory[k],
                      memory[k][i].event = memory[k][j].event, OnSlack(memory[k][i].event.msg)
               PROVE  i = j
    BY DEF SlackRunsAtMostOnce, TakenOnce
  <2> DEFINE q == memory[k][i]
             r == memory[k][j]
  <2>1. q \in Request /\ r \in Request
    BY DEF IInv, TypeOK
  <2>2. task[q] # "none" /\ task[r] # "none"
    BY DEF IInv, MemoryHasBegun
  <2> HIDE DEF q, r
  <2>3. q.event = r.event /\ OnSlack(q.event.msg)
    BY DEF q, r
  <2>4. q.retry = 0 /\ r.retry = 0
    BY <2>1, <2>2, <2>3, RequestHasKey DEF IInv, RequestsAreNew, IsRetry
  <2>5. q = r
    BY <2>1, <2>3, <2>4 DEF Request
  <2> QED
    BY <2>5 DEF q, r, IInv, MemoryHasBegun
<1> QED
  BY InitIInv, NextIInv, <1>1, PTL DEF Spec

\* A session's memory is one conversation of people on the surface.
THEOREM SessionsAreConversations == Spec => []MemoryIsOneConversation
<1>1. IInv => MemoryIsOneConversation
  <2> SUFFICES ASSUME IInv, NEW k \in Keys, NEW l \in Keys,
                      NEW i \in DOMAIN memory[k], NEW j \in DOMAIN memory[l]
               PROVE  /\ ~memory[k][i].event.bot
                      /\ k = l <=> Conversation(memory[k][i].event.msg) = Conversation(memory[l][j].event.msg)
    BY DEF MemoryIsOneConversation
  <2>1. memory[k][i] \in Request /\ memory[l][j] \in Request
    BY DEF IInv, TypeOK
  <2>2. /\ task[memory[k][i]] # "none"
        /\ SessionKey(memory[k][i].event.msg) = k /\ SessionKey(memory[l][j].event.msg) = l
    BY DEF IInv, MemoryHasBegun
  <2>3. memory[k][i].event.msg \in Messages /\ memory[l][j].event.msg \in Messages
    BY <2>1, RequestHasKey
  <2>4. ~memory[k][i].event.bot
    BY <2>1, <2>2 DEF IInv, TurnsAreMessages
  <2> QED
    BY <2>2, <2>3, <2>4, KeyIsConversation
<1> QED
  BY InitIInv, NextIInv, <1>1, PTL DEF Spec

\* Every post is in the thread of the message it answers.
THEOREM RepliesContinueTheThread == Spec => []PostsContinueConversation
<1>1. IInv => PostsContinueConversation
  BY DEF IInv
<1> QED
  BY InitIInv, NextIInv, <1>1, PTL DEF Spec

\* Whatever is sent again, lost, late or forgotten in a crash, the requests a
\* conversation has accepted run alone, in the order the webhook accepted them
\* and each once at most: the channel implements Conversations, for any messages,
\* keys and crashes.  A re-delivery the webhook accepts, as it does every one of
\* Discord's, is one request more.
THEOREM ChannelKeepsConversations == Spec => KeepsConversations
<1>1. Init => LineInv /\ Promise!Init
  <2> SUFFICES ASSUME Init PROVE LineInv /\ Promise!Init
    OBVIOUS
  <2>1. LineInv
    BY RequestHasKey DEF Init, LineInv
  <2>2. AheadSeen = {}
    BY RequestHasKey DEF Init, AheadSeen, InLine
  <2>3. WorkSeen = [r \in Request |-> "new"]
    BY DEF Init, WorkSeen
  <2>4. NoTurns = [t \in {} |-> "new"]
    BY DEF NoTurns
  <2> QED
    BY <2>1, <2>2, <2>3, <2>4 DEF Init, Promise!Init, NoTurns
<1> QED
  BY <1>1, InitIInv, NextIInv, PromiseStep, PTL DEF Spec, KeepsConversations, Promise!Spec
=============================================================================
