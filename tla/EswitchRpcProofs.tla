-------------------------- MODULE EswitchRpcProofs --------------------------
(***************************************************************************)
(* The calls of the daemon, for any number of calls, retries and restarts. *)
(***************************************************************************)
EXTENDS EswitchRpc, FiniteSetTheorems, TLAPS

InFlight == queue \cup work \cup replies

\* Who waits for a reply is the one that blocks the process.
Blocked == \A c \in Calls : step[c] = "poll" <=> busy = c

\* Nothing was sent on a socket still to come, and what was sent on the open one
\* is of the call that waits; it is in one place only.
Sockets == /\ \A r \in InFlight : r.conn <= conn
           /\ \A r \in InFlight : r.conn = conn => r.call = busy
           /\ \A q \in queue : q.conn = conn =>
                  /\ \A r \in work \cup replies : r.conn # conn
                  /\ \A r \in queue : r.conn = conn => r = q
           /\ \A w \in work : w.conn = conn => \A r \in replies : r.conn # conn
           /\ \A r, s \in replies : r.conn = conn /\ s.conn = conn => r = s

\* The daemon serves one request at a time.
OneWork == \A v, w \in work : v = w

\* A request of a closed socket is one whose attempt timed out.
Late == \A r \in queue \cup work : r.conn < conn => tries[r.call] > 0

\* Answers are given to calls that were made.
Given == /\ \A r \in work \cup replies : r.answer \in given[r.call]
         /\ \A r \in InFlight : step[r.call] # "none"

\* The attempts made so far; what waits in the queue was not served yet.
Sent(c) == IF step[c] \in {"poll"} \cup Answers THEN tries[c] + 1 ELSE tries[c]
Queued(c) == {q \in queue : q.call = c}
Counts == \A c \in Calls :
             /\ IsFiniteSet(Queued(c))
             /\ times[c] + Cardinality(Queued(c)) <= Sent(c)
             /\ Sent(c) <= Retries + 1
             /\ step[c] \in {"none", "ready", "sleep"} => tries[c] <= Retries

IInv == TypeOK /\ Blocked /\ Sockets /\ OneWork /\ Late /\ Given /\ Counts

USE CallsAssumption, BoundsAssumption

LEMMA StepKinds ==
  /\ Ended \subseteq Steps /\ Answers \subseteq Ended
  /\ {"none", "ready", "poll", "sleep", "timeout"} \subseteq Steps
  /\ \A s \in {"none", "ready", "poll", "sleep"} : s \notin Ended
  /\ "timeout" \in Ended /\ "timeout" \notin Answers
BY DEF Ended, Steps, Answers

LEMMA InitInvariant == Init => IInv
<1> SUFFICES ASSUME Init PROVE IInv
  OBVIOUS
<1>1. TypeOK
  BY StepKinds DEF Init, TypeOK
<1>2. Blocked /\ Sockets /\ OneWork /\ Late /\ Given
  BY DEF Init, Blocked, Sockets, OneWork, Late, Given, InFlight
<1>3. ASSUME NEW c \in Calls
      PROVE  Queued(c) = {} /\ Sent(c) = 0 /\ times[c] = 0 /\ tries[c] = 0
  BY DEF Init, Queued, Sent, Answers
<1>4. IsFiniteSet({}) /\ Cardinality({}) = 0
  BY FS_EmptySet
<1>5. Counts
  <2>1. ASSUME NEW c \in Calls
        PROVE  /\ IsFiniteSet(Queued(c)) /\ Cardinality(Queued(c)) = 0
               /\ Sent(c) = 0 /\ times[c] = 0 /\ tries[c] = 0
    BY <1>3, <1>4
  <2> QED
    BY <2>1 DEF Counts
<1> QED
  BY <1>1, <1>2, <1>5 DEF IInv

\* A step of one call leaves the others where they are.
LEMMA Goes ==
  ASSUME TypeOK, NEW c \in Calls, NEW from, NEW to \in Steps, Go(c, from, to)
  PROVE  /\ step[c] = from /\ step'[c] = to
         /\ \A d \in Calls : d # c => step'[d] = step[d]
         /\ step' \in [Calls -> Steps]
BY DEF Go, TypeOK

\* What is in flight has the types of its place.
LEMMA Flights ==
  ASSUME TypeOK
  PROVE  /\ \A q \in queue : q.conn \in Nat /\ q.call \in Calls
         /\ \A q \in work \cup replies : /\ q.conn \in Nat /\ q.call \in Calls
                                         /\ q.answer \in Answers
         /\ conn \in Nat
         /\ \A c \in Calls : /\ step[c] \in Steps /\ tries[c] \in Nat
                             /\ tries[c] \in 0 .. Retries + 1 /\ times[c] \in Nat
BY DEF TypeOK, Requests, Served

LEMMA CallInvariant == ASSUME IInv, NEW c \in Calls, Call(c) PROVE IInv'
<1>1. /\ TypeOK /\ Blocked /\ Sockets /\ OneWork /\ Late /\ Given /\ Counts
      /\ UNCHANGED <<tries, busy, conn, queue, work, replies, history, restarts>>
  BY DEF IInv, Call
<1>2. /\ step[c] = "none" /\ step'[c] = "ready"
      /\ \A d \in Calls : d # c => step'[d] = step[d]
      /\ step' \in [Calls -> Steps]
  BY <1>1, Goes, StepKinds DEF Call
<1>3. TypeOK'
  BY <1>1, <1>2 DEF TypeOK, history
<1>4. Blocked' /\ Sockets' /\ OneWork' /\ Late' /\ Given'
  BY <1>1, <1>2, Flights
  DEF Blocked, Sockets, OneWork, Late, Given, InFlight, history
<1>5. ASSUME NEW d \in Calls
      PROVE  /\ Queued(d)' = Queued(d) /\ Sent(d)' = Sent(d)
             /\ tries'[d] = tries[d] /\ times'[d] = times[d]
             /\ step'[d] \in {"none", "ready", "sleep"} => tries[d] <= Retries
  <2>1. {"none", "ready"} \cap ({"poll"} \cup Answers) = {}
    BY DEF Answers
  <2>2. Sent(d)' = Sent(d)
    BY <1>1, <1>2, <2>1 DEF Sent, history
  <2> QED
    BY <1>1, <1>2, <2>2 DEF Queued, Counts, history
<1>6. Counts'
  BY <1>1, <1>5 DEF Counts
<1> QED
  BY <1>3, <1>4, <1>6 DEF IInv

LEMMA SendInvariant == ASSUME IInv, NEW c \in Calls, Send(c) PROVE IInv'
<1> DEFINE n == [conn |-> conn, call |-> c]
<1>1. /\ TypeOK /\ Blocked /\ Sockets /\ OneWork /\ Late /\ Given /\ Counts
      /\ busy = NoCall /\ busy' = c /\ queue' = queue \cup {n}
      /\ UNCHANGED <<tries, conn, work, replies, history, restarts>>
  BY DEF IInv, Send
<1>2. /\ step[c] = "ready" /\ step'[c] = "poll"
      /\ \A d \in Calls : d # c => step'[d] = step[d]
      /\ step' \in [Calls -> Steps]
  BY <1>1, Goes, StepKinds DEF Send
<1>3. TypeOK'
  BY <1>1, <1>2 DEF TypeOK, Requests, history
<1>4. \A r \in InFlight : r.conn # conn /\ r.conn <= conn
  BY <1>1, Flights DEF Sockets, InFlight
<1>5. Blocked' /\ OneWork' /\ Late' /\ Given'
  BY <1>1, <1>2, <1>4, Flights
  DEF Blocked, OneWork, Late, Given, InFlight, history
<1>6. Sockets'
  BY <1>1, <1>4, Flights DEF Sockets, InFlight
<1>7. ASSUME NEW d \in Calls, d # c
      PROVE  Queued(d)' = Queued(d) /\ Sent(d)' = Sent(d) /\ step'[d] = step[d]
  BY <1>1, <1>2, <1>7 DEF Queued, Sent, history
<1>8. /\ Queued(c)' = Queued(c) \cup {n} /\ n \notin Queued(c)
  BY <1>1, <1>4 DEF Queued, InFlight
<1>9. /\ IsFiniteSet(Queued(c)') /\ Cardinality(Queued(c)') = Cardinality(Queued(c)) + 1
      /\ Cardinality(Queued(c)) \in Nat
  <2>1. IsFiniteSet(Queued(c))
    BY <1>1 DEF Counts
  <2> HIDE DEF n
  <2> QED
    BY <1>8, <2>1, FS_AddElement, FS_CardinalityType
<1>10. Sent(c) = tries[c] /\ Sent(c)' = tries[c] + 1 /\ tries[c] <= Retries
  BY <1>1, <1>2 DEF Sent, Counts, history, Answers
<1>11. Counts'
  <2>1. ASSUME NEW d \in Calls, d # c
        PROVE  /\ IsFiniteSet(Queued(d)')
               /\ times'[d] + Cardinality(Queued(d)') <= Sent(d)'
               /\ Sent(d)' <= Retries + 1
               /\ step'[d] \in {"none", "ready", "sleep"} => tries'[d] <= Retries
    BY <1>1, <1>7, <2>1 DEF Counts, history
  <2>2. /\ times'[c] + Cardinality(Queued(c)') <= Sent(c)'
        /\ Sent(c)' <= Retries + 1
    BY <1>1, <1>9, <1>10, Flights DEF Counts, history
  <2> QED
    BY <1>2, <1>9, <2>1, <2>2 DEF Counts
<1> QED
  BY <1>3, <1>5, <1>6, <1>11 DEF IInv

LEMMA ReceiveInvariant == ASSUME IInv, NEW c \in Calls, Receive(c) PROVE IInv'
<1>1. PICK r \in replies : /\ r.conn = conn
                           /\ Go(c, "poll", r.answer)
                           /\ busy' = NoCall
                           /\ replies' = replies \ {r}
                           /\ UNCHANGED <<tries, conn, queue, work, history, restarts>>
  BY DEF Receive
<1>2. /\ TypeOK /\ Blocked /\ Sockets /\ OneWork /\ Late /\ Given /\ Counts
      /\ r.answer \in Answers /\ r.answer \in Steps
  BY Flights, StepKinds DEF IInv
<1>3. /\ step[c] = "poll" /\ step'[c] \in Answers
      /\ \A d \in Calls : d # c => step'[d] = step[d]
      /\ step' \in [Calls -> Steps]
  BY <1>1, <1>2, Goes
<1>4. step'[c] # "poll" /\ step'[c] # "none" /\ busy = c
  BY <1>2, <1>3 DEF Answers, Blocked
<1>5. TypeOK'
  BY <1>1, <1>2, <1>3 DEF TypeOK, history
<1>6. \A s \in InFlight' : s.conn # conn /\ s \in InFlight
  BY <1>1, <1>2 DEF Sockets, InFlight
<1>7. Blocked' /\ OneWork' /\ Late'
  BY <1>1, <1>2, <1>3, <1>4 DEF Blocked, OneWork, Late, history
<1>a. Given'
  <2>1. \A s \in InFlight : s.call \in Calls /\ step[s.call] # "none"
    BY <1>2, Flights DEF Given, InFlight
  <2>2. \A s \in InFlight' : step'[s.call] # "none"
    BY <1>3, <1>4, <1>6, <2>1
  <2> QED
    BY <1>1, <1>2, <2>2 DEF Given, history
<1>8. Sockets'
  BY <1>1, <1>2, <1>6 DEF Sockets, InFlight
<1>9. Counts'
  <2>1. ASSUME NEW d \in Calls
        PROVE  /\ Queued(d)' = Queued(d) /\ Sent(d)' = Sent(d)
               /\ step'[d] \in {"none", "ready", "sleep"} => tries[d] <= Retries
    BY <1>1, <1>2, <1>3 DEF Queued, Sent, Counts, Answers, history
  <2> QED
    BY <1>1, <1>2, <2>1 DEF Counts, history
<1> QED
  BY <1>5, <1>7, <1>a, <1>8, <1>9 DEF IInv

LEMMA TimeoutInvariant == ASSUME IInv, NEW c \in Calls, Timeout(c) PROVE IInv'
<1>1. /\ TypeOK /\ Blocked /\ Sockets /\ OneWork /\ Late /\ Given /\ Counts
      /\ busy' = NoCall /\ conn' = conn + 1
      /\ tries' = [tries EXCEPT ![c] = @ + 1]
      /\ replies' = {r \in replies : r.conn # conn}
      /\ UNCHANGED <<queue, work, history, restarts>>
  BY DEF IInv, Timeout, NextSocket
<1>2. /\ step[c] = "poll"
      /\ step'[c] = IF tries[c] = Retries THEN "timeout" ELSE "sleep"
      /\ \A d \in Calls : d # c => step'[d] = step[d]
      /\ step' \in [Calls -> Steps]
  BY <1>1, Goes, StepKinds DEF Timeout, GivesUp
<1>3. /\ step'[c] \notin {"none", "ready", "poll"} \cup Answers /\ busy = c
  BY <1>1, <1>2 DEF Answers, Blocked
<1>4. /\ tries[c] \in Nat /\ tries'[c] = tries[c] + 1 /\ tries[c] <= Retries
      /\ \A d \in Calls : d # c => tries'[d] = tries[d]
  <2>1. Sent(c) = tries[c] + 1 /\ Sent(c) <= Retries + 1
    BY <1>1, <1>2 DEF Sent, Counts
  <2> QED
    BY <1>1, <2>1, Flights DEF TypeOK
<1>5. TypeOK'
  <2>1. tries' \in [Calls -> 0 .. Retries + 1]
    BY <1>1, <1>4 DEF TypeOK
  <2> QED
    BY <1>1, <1>2, <2>1 DEF TypeOK, history
<1>6. \A r \in InFlight' : r \in InFlight /\ r.conn <= conn
  BY <1>1 DEF Sockets, InFlight
<1>7. Blocked' /\ OneWork'
  BY <1>1, <1>2, <1>3 DEF Blocked, OneWork
<1>a. Given'
  <2>1. \A r \in InFlight : r.call \in Calls /\ step[r.call] # "none"
    BY <1>1, Flights DEF Given, InFlight
  <2>2. \A r \in InFlight' : step'[r.call] # "none"
    BY <1>2, <1>3, <1>6, <2>1
  <2> QED
    BY <1>1, <2>2 DEF Given, history
<1>8. Late'
  BY <1>1, <1>3, <1>4, <1>6, Flights DEF Late, Sockets, InFlight
<1>9. Sockets'
  <2>1. \A r \in InFlight' : r.conn <= conn' /\ r.conn # conn'
    BY <1>1, <1>6, Flights DEF InFlight
  <2> QED
    BY <2>1 DEF Sockets, InFlight
<1>10. Counts'
  <2>1. ASSUME NEW d \in Calls
        PROVE  /\ Queued(d)' = Queued(d) /\ Sent(d)' = Sent(d)
               /\ step'[d] \in {"none", "ready", "sleep"} => tries'[d] <= Retries
    <3>1. CASE d = c
      <4>1. Sent(c) = tries[c] + 1 /\ Sent(c)' = tries'[c]
        BY <1>2, <1>3 DEF Sent
      <4> QED
        BY <1>1, <1>2, <1>4, <3>1, <4>1 DEF Queued
    <3>2. CASE d # c
      <4>1. step'[d] = step[d] /\ tries'[d] = tries[d]
        BY <1>2, <1>4, <3>2
      <4>2. Sent(d)' = Sent(d) /\ Queued(d)' = Queued(d)
        BY <1>1, <4>1 DEF Sent, Queued
      <4> QED
        BY <1>1, <4>1, <4>2 DEF Counts
    <3> QED
      BY <3>1, <3>2
  <2> QED
    BY <1>1, <2>1 DEF Counts, history
<1> QED
  BY <1>5, <1>7, <1>a, <1>8, <1>9, <1>10 DEF IInv

LEMMA WakeUpInvariant == ASSUME IInv, NEW c \in Calls, WakeUp(c) PROVE IInv'
<1>1. /\ TypeOK /\ Blocked /\ Sockets /\ OneWork /\ Late /\ Given /\ Counts
      /\ UNCHANGED <<tries, busy, conn, queue, work, replies, history, restarts>>
  BY DEF IInv, WakeUp
<1>2. /\ step[c] = "sleep" /\ step'[c] = "ready"
      /\ \A d \in Calls : d # c => step'[d] = step[d]
      /\ step' \in [Calls -> Steps]
  BY <1>1, Goes, StepKinds DEF WakeUp
<1>3. TypeOK'
  BY <1>1, <1>2 DEF TypeOK, history
<1>4. Blocked' /\ Sockets' /\ OneWork' /\ Late' /\ Given'
  BY <1>1, <1>2, Flights
  DEF Blocked, Sockets, OneWork, Late, Given, InFlight, history
<1>5. ASSUME NEW d \in Calls
      PROVE  /\ Queued(d)' = Queued(d) /\ Sent(d)' = Sent(d)
             /\ step'[d] \in {"none", "ready", "sleep"} => tries[d] <= Retries
  <2>1. {"sleep", "ready"} \cap ({"poll"} \cup Answers) = {}
    BY DEF Answers
  <2> QED
    BY <1>1, <1>2, <2>1 DEF Queued, Sent, Counts, history
<1>6. Counts'
  BY <1>1, <1>5 DEF Counts, history
<1> QED
  BY <1>3, <1>4, <1>6 DEF IInv

LEMMA WorkInvariant ==
  ASSUME IInv, NEW q \in queue, NEW a \in Answers, Work(q, a)
  PROVE  IInv'
<1> DEFINE w == [conn |-> q.conn, call |-> q.call, answer |-> a]
           c == q.call
<1>1. /\ TypeOK /\ Blocked /\ Sockets /\ OneWork /\ Late /\ Given /\ Counts
      /\ work = {} /\ work' = {w} /\ queue' = queue \ {q}
      /\ given' = [given EXCEPT ![c] = @ \cup {a}]
      /\ times' = [times EXCEPT ![c] = @ + 1]
      /\ UNCHANGED <<client, replies, restarts>>
  BY DEF IInv, Work
<1>2. c \in Calls /\ q.conn \in Nat /\ times[c] \in Nat
  BY <1>1, Flights
<1>3. TypeOK'
  <2>1. work' \subseteq Served
    BY <1>1, <1>2 DEF Served
  <2> QED
    BY <1>1, <1>2, <2>1 DEF TypeOK, client
<1>4. Blocked' /\ OneWork' /\ Late'
  BY <1>1 DEF Blocked, OneWork, Late, client
<1>5. Given'
  <2>1. \A d \in Calls : given[d] \subseteq given'[d] /\ a \in given'[c]
    BY <1>1, <1>2 DEF TypeOK
  <2> QED
    BY <1>1, <1>2, <2>1, Flights DEF Given, InFlight, client
<1>6. Sockets'
  BY <1>1 DEF Sockets, InFlight, client
<1>7. ASSUME NEW d \in Calls, d # c
      PROVE  Queued(d)' = Queued(d) /\ times'[d] = times[d]
  BY <1>1, <1>2, <1>7 DEF Queued, TypeOK
<1>8. Queued(c)' = Queued(c) \ {q} /\ q \in Queued(c) /\ times'[c] = times[c] + 1
  BY <1>1, <1>2 DEF Queued, TypeOK
<1>9. /\ IsFiniteSet(Queued(c)') /\ Cardinality(Queued(c)') = Cardinality(Queued(c)) - 1
      /\ Cardinality(Queued(c)) \in Nat
  BY <1>1, <1>2, <1>8, FS_RemoveElement, FS_CardinalityType DEF Counts
<1>10. \A d \in Calls : Sent(d)' = Sent(d) /\ tries'[d] = tries[d] /\ step'[d] = step[d]
  BY <1>1 DEF Sent, client
<1>11. Counts'
  <2>1. times'[c] + Cardinality(Queued(c)') <= Sent(c)
    BY <1>1, <1>2, <1>8, <1>9 DEF Counts
  <2> QED
    BY <1>1, <1>7, <1>9, <1>10, <2>1 DEF Counts
<1> QED
  BY <1>3, <1>4, <1>5, <1>6, <1>11 DEF IInv

LEMMA ReplyInvariant == ASSUME IInv, Reply PROVE IInv'
<1>1. /\ TypeOK /\ Blocked /\ Sockets /\ OneWork /\ Late /\ Given /\ Counts
      /\ work' = {} /\ replies' = replies \cup {w \in work : w.conn = conn}
      /\ UNCHANGED <<client, queue, history, restarts>>
  BY DEF IInv, Reply
<1>2. TypeOK'
  BY <1>1 DEF TypeOK, client, history
<1>3. Blocked' /\ OneWork' /\ Late' /\ Given'
  BY <1>1 DEF Blocked, OneWork, Late, Given, InFlight, client, history
<1>4. Sockets'
  BY <1>1 DEF Sockets, OneWork, InFlight, client
<1>5. Counts'
  BY <1>1 DEF Counts, Queued, Sent, client, history
<1> QED
  BY <1>2, <1>3, <1>4, <1>5 DEF IInv

LEMMA RestartInvariant == ASSUME IInv, Restart PROVE IInv'
<1>1. /\ TypeOK /\ Blocked /\ Sockets /\ OneWork /\ Late /\ Given /\ Counts
      /\ restarts < MaxRestarts /\ restarts' = restarts + 1
      /\ queue' = {} /\ work' = {}
      /\ UNCHANGED <<client, replies, history>>
  BY DEF IInv, Restart
<1>2. TypeOK'
  BY <1>1 DEF TypeOK, client, history
<1>3. Blocked' /\ Sockets' /\ OneWork' /\ Late' /\ Given'
  BY <1>1 DEF Blocked, Sockets, OneWork, Late, Given, InFlight, client, history
<1>4. ASSUME NEW c \in Calls
      PROVE  /\ IsFiniteSet(Queued(c)') /\ Cardinality(Queued(c)') = 0
             /\ Cardinality(Queued(c)) \in Nat
             /\ Sent(c)' = Sent(c) /\ tries'[c] = tries[c] /\ step'[c] = step[c]
             /\ times'[c] = times[c] /\ times[c] \in Nat /\ Sent(c) \in Nat
  <2>1. Queued(c)' = {}
    BY <1>1 DEF Queued
  <2> QED
    BY <1>1, <2>1, FS_EmptySet, FS_CardinalityType, Flights
    DEF Counts, Sent, client, history
<1>5. Counts'
  BY <1>1, <1>4 DEF Counts
<1> QED
  BY <1>2, <1>3, <1>5 DEF IInv

LEMMA NextInvariant == IInv /\ [Next]_vars => IInv'
<1> SUFFICES ASSUME IInv, [Next]_vars PROVE IInv'
  OBVIOUS
<1>1. CASE UNCHANGED vars
  BY <1>1 DEF IInv, TypeOK, Blocked, Sockets, OneWork, Late, Given, Counts,
              InFlight, Queued, Sent, vars, client, history
<1> QED
  BY <1>1, CallInvariant, SendInvariant, ReceiveInvariant, TimeoutInvariant,
     WakeUpInvariant, WorkInvariant, ReplyInvariant, RestartInvariant
  DEF Next, CallStep

LEMMA Invariant == Spec => []IInv
BY InitInvariant, NextInvariant, PTL DEF Spec

\* Where a call stands, what is in flight and what was served.
THEOREM TypeCorrect == Spec => []TypeOK
<1>1. IInv => TypeOK
  BY DEF IInv
<1> QED
  BY <1>1, Invariant, PTL

\* A reply that is read answers the request that was sent last.
THEOREM AnswerIsMineCorrect == Spec => []AnswerIsMine
<1>1. IInv => AnswerIsMine
  BY DEF IInv, Sockets, InFlight, AnswerIsMine
<1> QED
  BY <1>1, Invariant, PTL

\* No thread finds the shared socket waiting for a reply.
THEOREM SocketReadyCorrect == Spec => []SocketReady
<1>1. IInv => SocketReady
  <2> SUFFICES ASSUME IInv PROVE SocketReady
    OBVIOUS
  <2>1. TypeOK /\ Sockets
    BY DEF IInv
  <2> QED
    BY <2>1, Flights DEF Sockets, InFlight, SocketReady
<1> QED
  BY <1>1, Invariant, PTL

\* Only a call of which an attempt timed out is served after it has ended.
THEOREM NoLateServiceCorrect == Spec => []NoLateService
<1>1. IInv => NoLateService
  <2> SUFFICES ASSUME IInv, NEW r \in queue \cup work, step[r.call] \in Ended
               PROVE  tries[r.call] > 0
    BY DEF NoLateService
  <2>1. TypeOK /\ Blocked /\ Sockets /\ Late
    BY DEF IInv
  <2>2. r.call \in Calls /\ r.conn \in Nat /\ conn \in Nat /\ r.conn <= conn
    BY <2>1, Flights DEF Sockets, InFlight
  <2>3. r.conn # conn
    BY <2>1, <2>2, StepKinds DEF Sockets, InFlight, Blocked
  <2> QED
    BY <2>1, <2>2, <2>3 DEF Late
<1> QED
  BY <1>1, Invariant, PTL

-----------------------------------------------------------------------------
(* A call is what EswitchCall says.                                        *)

Outcome == [c \in Calls |-> IF step[c] \in {"ready", "poll", "sleep"}
                            THEN "open" ELSE step[c]]

LEMMA Outcomes ==
  ASSUME TypeOK, NEW c \in Calls, NEW from, NEW to \in Steps, Go(c, from, to)
  PROVE  Outcome' = [Outcome EXCEPT ![c] = IF to \in {"ready", "poll", "sleep"}
                                           THEN "open" ELSE to]
BY Goes DEF Outcome

LEMMA Opens ==
  ASSUME IInv, NEW c \in Calls, Call(c)
  PROVE  AbstractCall!Open(c)
<1>1. Outcome' = [Outcome EXCEPT ![c] = "open"] /\ Outcome[c] = "none"
  BY Outcomes, StepKinds, Goes DEF Call, IInv, Outcome
<1> QED
  BY <1>1 DEF AbstractCall!Open, Outcome, Call, history

LEMMA Serves ==
  ASSUME IInv, NEW q \in queue, NEW a \in Answers, Work(q, a)
  PROVE  q.call \in Calls /\ AbstractCall!Serve(q.call, a)
<1>1. TypeOK /\ Given /\ Counts
  BY DEF IInv
<1>2. q.call \in Calls /\ times[q.call] \in Nat /\ step[q.call] # "none"
  BY <1>1, Flights DEF Given, InFlight
<1>3. Outcome[q.call] # "none" /\ Outcome' = Outcome
  BY <1>2 DEF Outcome, Work, client
<1>4. times[q.call] < Retries + 1
  <2> DEFINE Q == Queued(q.call)
  <2>1. IsFiniteSet(Q) /\ q \in Q /\ Cardinality(Q) \in Nat
    BY <1>1, <1>2, FS_CardinalityType DEF Counts, Queued
  <2>2. Cardinality(Q) # 0
    BY <2>1, FS_EmptySet
  <2>3. Sent(q.call) \in Nat
    BY <1>1, <1>2, Flights DEF Sent
  <2> QED
    BY <1>1, <1>2, <2>1, <2>2, <2>3 DEF Counts
<1> QED
  BY <1>2, <1>3, <1>4 DEF AbstractCall!Serve, Outcome, Work

LEMMA Receives ==
  ASSUME IInv, NEW c \in Calls, Receive(c)
  PROVE  \E o \in Answers : AbstractCall!End(c, o)
<1>1. PICK r \in replies : /\ r.conn = conn
                           /\ Go(c, "poll", r.answer)
                           /\ UNCHANGED history
  BY DEF Receive
<1>2. TypeOK /\ Blocked /\ Sockets /\ Given /\ r.answer \in Answers
  BY Flights DEF IInv
<1>3. r.call = c /\ r.answer \in given[c]
  BY <1>1, <1>2, Goes, StepKinds DEF Blocked, Sockets, InFlight, Given, Go
<1>4. /\ Outcome[c] = "open" /\ Outcome' = [Outcome EXCEPT ![c] = r.answer]
  <2>1. r.answer \notin {"ready", "poll", "sleep"} /\ r.answer \in Steps
    BY <1>2, StepKinds DEF Answers
  <2> QED
    BY <1>1, <1>2, <2>1, Outcomes DEF Go, Outcome
<1> QED
  BY <1>1, <1>2, <1>3, <1>4 DEF AbstractCall!End, Outcome, history

LEMMA TimesOut ==
  ASSUME IInv, NEW c \in Calls, Timeout(c)
  PROVE  \/ AbstractCall!End(c, "timeout")
         \/ Outcome' = Outcome /\ UNCHANGED history
<1>1. TypeOK /\ UNCHANGED history /\ Outcome \in [Calls -> {"open"} \cup Steps]
  BY DEF IInv, Timeout, Outcome, TypeOK
<1>2. CASE GivesUp(c)
  <2>1. Go(c, "poll", "timeout")
    BY <1>2 DEF Timeout
  <2>2. Outcome[c] = "open" /\ Outcome' = [Outcome EXCEPT ![c] = "timeout"]
    BY <1>1, <2>1, Outcomes, StepKinds DEF Go, Outcome
  <2> QED
    BY <1>1, <2>2 DEF AbstractCall!End, Outcome, history
<1>3. CASE ~GivesUp(c)
  <2>1. Go(c, "poll", "sleep")
    BY <1>3 DEF Timeout
  <2>2. Outcome[c] = "open" /\ Outcome' = [Outcome EXCEPT ![c] = "open"]
    BY <1>1, <2>1, Outcomes, StepKinds DEF Go, Outcome
  <2> QED
    BY <1>1, <2>2
<1> QED
  BY <1>2, <1>3

LEMMA Stutters ==
  ASSUME IInv, NEW c \in Calls, Send(c) \/ WakeUp(c)
  PROVE  Outcome' = Outcome /\ UNCHANGED history
<1>1. TypeOK /\ UNCHANGED history /\ Outcome \in [Calls -> {"open"} \cup Steps]
  BY DEF IInv, Send, WakeUp, Outcome, TypeOK
<1>2. PICK from \in {"ready", "sleep"}, to \in {"ready", "poll"} : Go(c, from, to)
  BY DEF Send, WakeUp
<1>3. Outcome[c] = "open" /\ Outcome' = [Outcome EXCEPT ![c] = "open"]
  BY <1>1, <1>2, Outcomes, StepKinds DEF Go, Outcome
<1> QED
  BY <1>1, <1>3

LEMMA CallStart == Init => AbstractCall!CallInit
BY DEF Init, AbstractCall!CallInit

LEMMA CallNext ==
  IInv /\ [Next]_vars => [AbstractCall!CallNext]_(AbstractCall!callVars)
<1> SUFFICES ASSUME IInv, [Next]_vars
             PROVE  AbstractCall!CallNext \/ (Outcome' = Outcome /\ UNCHANGED history)
  BY DEF AbstractCall!callVars, Outcome, history
<1>1. CASE UNCHANGED vars \/ Reply \/ Restart
  BY <1>1 DEF vars, client, Reply, Restart, Outcome
<1>2. ASSUME NEW c \in Calls, Call(c) \/ Receive(c)
      PROVE  AbstractCall!CallNext
  BY <1>2, Opens, Receives DEF AbstractCall!CallNext
<1>3. ASSUME NEW c \in Calls, Timeout(c)
      PROVE  AbstractCall!CallNext \/ (Outcome' = Outcome /\ UNCHANGED history)
  BY <1>3, TimesOut DEF AbstractCall!CallNext
<1>4. ASSUME NEW q \in queue, NEW a \in Answers, Work(q, a)
      PROVE  AbstractCall!CallNext
  BY <1>4, Serves DEF AbstractCall!CallNext
<1> QED
  BY <1>1, <1>2, <1>3, <1>4, Stutters DEF Next, CallStep

\* A call ends with an answer that the daemon gave to it or with a timeout, and is
\* served at most once for each attempt.
THEOREM CallCorrect == Spec => CallSpec
BY CallStart, CallNext, Invariant, PTL
DEF Spec, CallSpec, AbstractCall!CallSpec

=============================================================================
