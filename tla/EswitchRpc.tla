----------------------------- MODULE EswitchRpc -----------------------------
(***************************************************************************)
(* How the L2 agent calls the eswitchd daemon (agent/utils.py,             *)
(* comm_utils.py, eswitch_daemon.py): a ZeroMQ REQ socket, a timeout, and  *)
(* for each retry a new socket.                                            *)
(*                                                                         *)
(* The green threads of the agent share one socket.  Sending, polling and  *)
(* receiving block the whole process, for the poller is not the green one; *)
(* the threads take turns only while they sleep between two attempts.  A   *)
(* request whose socket was closed stays in the queue of the daemon, which *)
(* reads the connections in an order of its own.                           *)
(***************************************************************************)
EXTENDS Integers, FiniteSets

CONSTANTS Calls,        \* calls of send_msg
          NoCall,
          Retries,      \* [ESWITCH] retries
          MaxRestarts   \* bound on how often the daemon is started again

ASSUME CallsAssumption == NoCall \notin Calls
ASSUME BoundsAssumption == Retries \in Nat /\ MaxRestarts \in Nat

Answers == {"OK",      \* status OK: send_msg returns
            "FAIL",    \* status FAIL: it raises OperationFailed
            "text"}    \* the text of an exception: it raises ValueError

Ended == Answers \cup {"timeout"}
Steps == {"none", "ready", "poll", "sleep"} \cup Ended

VARIABLES
    step,      \* where each call stands in send_msg and its decorator
    tries,     \* its attempts that have timed out
    busy,      \* the call that blocks the process
    conn,      \* the socket in use, or the next: they are numbered
    queue,     \* requests the daemon has not read
    work,      \* the one it serves, with its answer to come
    replies,   \* on their way to an open socket
    given,     \* history: answers of the daemon to each call
    times,     \* history: how often it served the call
    restarts

client == <<step, tries, busy, conn>>
history == <<given, times>>
vars == <<client, queue, work, replies, history, restarts>>

Requests == [conn : Nat, call : Calls]
Served == [conn : Nat, call : Calls, answer : Answers]

TypeOK == /\ step \in [Calls -> Steps]
          /\ tries \in [Calls -> 0 .. Retries + 1]
          /\ busy \in Calls \cup {NoCall}
          /\ conn \in Nat
          /\ queue \subseteq Requests
          /\ work \subseteq Served
          /\ replies \subseteq Served
          /\ given \in [Calls -> SUBSET Answers]
          /\ times \in [Calls -> Nat]
          /\ restarts \in 0 .. MaxRestarts

Init == /\ step = [c \in Calls |-> "none"]
        /\ tries = [c \in Calls |-> 0]
        /\ busy = NoCall
        /\ conn = 0
        /\ queue = {} /\ work = {} /\ replies = {}
        /\ given = [c \in Calls |-> {}]
        /\ times = [c \in Calls |-> 0]
        /\ restarts = 0

Go(c, from, to) == step[c] = from /\ step' = [step EXCEPT ![c] = to]

-----------------------------------------------------------------------------
(* The agent.                                                              *)

\* A request: get_attached_vnics, set_port_vlan_id, port_release and the like.
Call(c) == /\ Go(c, "none", "ready")
           /\ UNCHANGED <<tries, busy, conn, queue, work, replies, history, restarts>>

Send(c) == /\ busy = NoCall
           /\ busy' = c
           /\ Go(c, "ready", "poll")
           /\ queue' = queue \cup {[conn |-> conn, call |-> c]}
           /\ UNCHANGED <<tries, conn, work, replies, history, restarts>>

\* Only what comes on the open socket is read.
Receive(c) == \E r \in replies :
                 /\ r.conn = conn
                 /\ Go(c, "poll", r.answer)
                 /\ busy' = NoCall
                 /\ replies' = replies \ {r}
                 /\ UNCHANGED <<tries, conn, queue, work, history, restarts>>

\* Mutant of NextSocket: the socket is kept for the next attempt.
NextSocketSame(c) == UNCHANGED <<conn, replies>>

\* A reply to a closed socket goes nowhere.
NextSocket(c) == /\ conn' = conn + 1
                 /\ replies' = {r \in replies : r.conn # conn}

\* Mutant of GivesUp: one attempt later.
GivesUpLate(c) == tries[c] = Retries + 1

\* The decorator catches the timeouts of "retries" attempts, then tries once
\* more outside its loop.
GivesUp(c) == tries[c] = Retries

\* Mutant of Timeout: poll waits until there is a reply.
TimeoutNever(c) == FALSE

Timeout(c) == /\ \A r \in replies : r.conn # conn
              /\ Go(c, "poll", IF GivesUp(c) THEN "timeout" ELSE "sleep")
              /\ busy' = NoCall
              /\ tries' = [tries EXCEPT ![c] = @ + 1]
              /\ NextSocket(c)
              /\ UNCHANGED <<queue, work, history, restarts>>

WakeUp(c) == /\ Go(c, "sleep", "ready")
             /\ UNCHANGED <<tries, busy, conn, queue, work, replies, history, restarts>>

-----------------------------------------------------------------------------
(* The daemon.                                                             *)

\* A request is read and served: from now on it has had its effect.
Work(q, a) == /\ work = {}
              /\ q \in queue
              /\ queue' = queue \ {q}
              /\ work' = {[conn |-> q.conn, call |-> q.call, answer |-> a]}
              /\ given' = [given EXCEPT ![q.call] = @ \cup {a}]
              /\ times' = [times EXCEPT ![q.call] = @ + 1]
              /\ UNCHANGED <<client, replies, restarts>>

\* Mutant of Reply: the daemon answers first and then does what it was asked.
ReplyFirst == /\ work # {}
              /\ replies' = replies \cup {w \in work : w.conn = conn}
              /\ UNCHANGED <<client, queue, work, history, restarts>>

Reply == /\ work # {}
         /\ replies' = replies \cup {w \in work : w.conn = conn}
         /\ work' = {}
         /\ UNCHANGED <<client, queue, history, restarts>>

\* What the daemon had read and what it had not is lost.
Restart == /\ restarts < MaxRestarts
           /\ restarts' = restarts + 1
           /\ queue' = {} /\ work' = {}
           /\ UNCHANGED <<client, replies, history>>

CallStep(c) == Send(c) \/ Receive(c) \/ Timeout(c) \/ WakeUp(c)

Next == \/ \E c \in Calls : Call(c) \/ CallStep(c)
        \/ \E q \in queue, a \in Answers : Work(q, a)
        \/ Reply
        \/ Restart

Spec == Init /\ [][Next]_vars

\* poll returns after request_timeout and the sleeps end; nothing is asked of the
\* daemon.
Fairness == \A c \in Calls : WF_vars(CallStep(c))

FairSpec == Spec /\ Fairness

-----------------------------------------------------------------------------
(* Properties.                                                             *)

\* A reply read from the socket answers the request that was sent last, never one
\* that timed out before, though another thread may have sent in between (send_msg
\* closes the socket before it raises).
AnswerIsMine == \A r \in replies : r.conn = conn => r.call = busy

\* A REQ socket that waits for a reply refuses to send: no thread ever finds the
\* shared socket in that state (_conn).
SocketReady == busy = NoCall => \A r \in queue \cup work \cup replies : r.conn # conn

\* Only a call of which an attempt timed out is served after it has ended: what
\* went well at once is not done again later, over what was done since.
NoLateService == \A r \in queue \cup work :
                    step[r.call] \in Ended => tries[r.call] > 0

\* A call is what EswitchCall says: it ends with an answer the daemon gave to it,
\* and is served at most once for each of its retries + 1 attempts.
AbstractCall == INSTANCE EswitchCall WITH
    Calls <- Calls, Answers <- Answers, Limit <- Retries + 1,
    outcome <- [c \in Calls |-> IF step[c] \in {"ready", "poll", "sleep"}
                                THEN "open" ELSE step[c]],
    given <- given, times <- times
CallSpec == AbstractCall!CallSpec

\* Every call ends, whether the daemon answers or not and although the threads
\* compete for the socket (RetryDecorator).
CallsEnd == \A c \in Calls : step[c] = "ready" ~> step[c] \in Ended

=============================================================================
