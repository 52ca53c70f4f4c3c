----------------------- MODULE SdnJournalMirrorProofs -----------------------
(***************************************************************************)
(* Theorems about what the journal's threads leave to one another, and     *)
(* about what the controller ends up with, when no thread holds a row      *)
(* beyond the processing timeout and no job or poll fails in a way that    *)
(* puts its row back: for any networks, ports, rows and threads, any       *)
(* timeouts and limits, and every other failure, crashes included.         *)
(***************************************************************************)
EXTENDS SdnJournalProofs

USE ObjectsAssumption, MaxRowsAssumption, RetryAssumption, TimesAssumption,
    FaultsAssumption

\* The failures after which a poller puts a monitored row back to pending.
Rollbacks == {"job_failed", "poll_login", "poll_unsupported"}

Steady == Timely /\ Faults \cap Rollbacks = {}

\* The rows that are under way to their end: a poller may write them.
Beyond == {r \in Rows : state[r] \in {"monitoring", "completed", "absent"}}

\* The row a thread has in hand is marked as such, and is no orphan yet.
Holds(t) == t.pc \in Holding => /\ state[t.row] = "processing"
                                /\ age[t.row] <= ProcessingTimeout

\* The rows a thread polls are under a job or have ended well, although its
\* list may be old.
Polls(t) == /\ t.todo \subseteq Beyond
            /\ t.pc = "answer" => t.row \in Beyond /\ t.status = "Completed"

SteadyInv == /\ \A w \in Workers : Holds(worker[w]) /\ Polls(worker[w])
             /\ ExclusiveProcessing

-----------------------------------------------------------------------------
(* No row comes back.                                                      *)

\* A row that is not waiting to be sent never waits again.
NoReturn == \A r \in Rows :
                /\ r \in Rows'
                /\ r \in Beyond => r \in Beyond'
                /\ state[r] = "failed" => state'[r] = "failed"
                /\ state[r] = "completed" => state'[r] \in {"completed", "absent"}

\* The step of thread w leaves the other threads alone, and their rows.
OthersKept(w) ==
    \A v \in Workers \ {w} :
        /\ worker'[v] = worker[v]
        /\ worker[v].pc \in Holding =>
              /\ state'[worker[v].row] = state[worker[v].row]
              /\ age'[worker[v].row] = age[worker[v].row]

\* If w has a row in hand, it had it before or has found it pending.
OwnRow(w) == worker'[w].pc \in Holding =>
                \/ worker[w].pc \in Holding /\ worker'[w].row = worker[w].row
                \/ state[worker'[w].row] = "pending"

\* A step of one thread keeps the threads apart.
LEMMA ThreadApart ==
  ASSUME SteadyInv, NEW w \in Workers, NoReturn, OthersKept(w), OwnRow(w),
         Holds(worker[w])', Polls(worker[w])'
  PROVE  SteadyInv'
<1>1. ASSUME NEW v \in Workers, v # w
      PROVE  Holds(worker[v])' /\ Polls(worker[v])'
  <2>1. Holds(worker[v]) /\ Polls(worker[v])
    BY DEF SteadyInv
  <2>2. /\ worker'[v] = worker[v]
        /\ worker[v].pc \in Holding =>
              /\ state'[worker[v].row] = state[worker[v].row]
              /\ age'[worker[v].row] = age[worker[v].row]
    BY <1>1 DEF OthersKept
  <2>3. Beyond \subseteq Beyond'
    BY DEF NoReturn, Beyond
  <2> QED
    BY <2>1, <2>2, <2>3 DEF Holds, Polls
<1>2. ASSUME NEW v \in Workers, v # w,
             worker'[v].pc \in Holding, worker'[w].pc \in Holding
      PROVE  worker'[v].row # worker'[w].row
  <2>1. worker'[v] = worker[v]
    BY <1>2 DEF OthersKept
  <2>2. state[worker[v].row] = "processing"
    BY <1>2, <2>1 DEF SteadyInv, Holds
  <2>3. CASE worker[w].pc \in Holding /\ worker'[w].row = worker[w].row
    BY <1>2, <2>1, <2>3 DEF SteadyInv, ExclusiveProcessing
  <2>4. CASE state[worker'[w].row] = "pending"
    BY <2>1, <2>2, <2>4
  <2> QED
    BY <1>2, <2>3, <2>4 DEF OwnRow
<1>3. ASSUME NEW u \in Workers, NEW v \in Workers, u # v,
             worker'[u].pc \in Holding, worker'[v].pc \in Holding
      PROVE  worker'[u].row # worker'[v].row
  <2>1. CASE u = w \/ v = w
    BY <1>2, <1>3, <2>1
  <2>2. CASE u # w /\ v # w
    <3>1. worker'[u] = worker[u] /\ worker'[v] = worker[v]
      BY <2>2 DEF OthersKept
    <3> QED
      BY <1>3, <3>1 DEF SteadyInv, ExclusiveProcessing
  <2> QED
    BY <2>1, <2>2
<1>4. ExclusiveProcessing'
  BY <1>3 DEF ExclusiveProcessing
<1> QED
  BY <1>1, <1>4 DEF SteadyInv

\* A thread that goes on, with the row it has or with none.
LEMMA ThreadMoves ==
  ASSUME TypeOK, SteadyInv, UNCHANGED <<entry, state, age>>,
         NEW w \in Workers, NEW t, Become(w, t),
         t.pc \in Holding => worker[w].pc \in Holding /\ t.row = worker[w].row,
         Polls(t)
  PROVE  SteadyInv' /\ NoReturn
<1>1. Rows' = Rows /\ Beyond' = Beyond
  BY DEF Rows, Beyond
<1>2. worker'[w] = t /\ \A v \in Workers \ {w} : worker'[v] = worker[v]
  BY DEF Become, TypeOK, ThreadsOK
<1>3. NoReturn
  BY <1>1 DEF NoReturn
<1>4. Holds(worker[w])' /\ Polls(worker[w])'
  BY <1>1, <1>2 DEF SteadyInv, Holds, Polls
<1> QED
  BY <1>2, <1>3, <1>4, ThreadApart DEF OthersKept, OwnRow

\* A thread between two rows, having polled no more than it had to.
Resting(w, t) == /\ t.pc \notin Holding \cup {"answer"}
                 /\ t.todo \subseteq worker[w].todo

LEMMA RestingThreads ==
  ASSUME NEW w \in Workers
  PROVE  /\ Resting(w, Waiting) /\ Resting(w, Claiming) /\ Resting(w, Listing)
         /\ \A r, bound : Resting(w, PollNext(w, r, bound))
<1>1. /\ Waiting.pc = "wait" /\ Waiting.todo = {}
      /\ Claiming.pc = "claim" /\ Claiming.todo = {}
      /\ Listing.pc = "list" /\ Listing.todo = {}
  BY DEF Waiting, Claiming, Listing
<1>2. ASSUME NEW r, NEW bound PROVE Resting(w, PollNext(w, r, bound))
  <2> DEFINE rest == worker[w].todo \ {r}
             t == [Waiting EXCEPT !.pc = "poll", !.todo = rest,
                                  !.seen = bound \/ worker[w].seen]
  <2>1. t.pc = "poll" /\ t.todo = rest
    BY DEF Waiting
  <2> HIDE DEF t
  <2>2. PollNext(w, r, bound) = IF rest = {} THEN Waiting ELSE t
    BY DEF PollNext, t
  <2> QED
    BY <1>1, <2>1, <2>2 DEF Resting, Holding
<1> QED
  BY <1>1, <1>2 DEF Resting, Holding

LEMMA RestingPolls ==
  ASSUME SteadyInv, NEW w \in Workers, NEW t, Resting(w, t)
  PROVE  Polls(t) /\ t.pc \notin Holding
BY DEF SteadyInv, Polls, Resting

\* A thread writes the state of a row and is done with it: the row it has in
\* hand, or one that it polls, as completed.
LEMMA RowWritten ==
  ASSUME TypeOK, SteadyInv, UNCHANGED entry, NEW w \in Workers, NEW r \in Rows,
         NEW s \in RowStates, NEW t, Become(w, t), Resting(w, t),
         state' = [state EXCEPT ![r] = s], age' = [age EXCEPT ![r] = 0],
         \/ worker[w].pc \in Holding /\ worker[w].row = r
         \/ r \in Beyond /\ s = "completed"
  PROVE  SteadyInv' /\ NoReturn
<1>1. Rows' = Rows /\ Rows \subseteq RowIds
  BY DEF Rows, RowIds, TypeOK, NeutronOK, EntriesOK
<1>2. worker'[w] = t /\ \A v \in Workers \ {w} : worker'[v] = worker[v]
  BY DEF Become, TypeOK, ThreadsOK
<1>3. /\ state'[r] = s
      /\ \A q \in Rows \ {r} : state'[q] = state[q] /\ age'[q] = age[q]
  BY <1>1 DEF TypeOK, TableOK
<1>4. state[r] = "processing" \/ (r \in Beyond /\ s = "completed")
  BY DEF SteadyInv, Holds
<1>5. NoReturn
  BY <1>1, <1>3, <1>4 DEF NoReturn, Beyond
<1>6. Holds(worker[w])' /\ Polls(worker[w])'
  <2>1. Polls(t) /\ t.pc \notin Holding /\ t.pc # "answer"
    BY RestingPolls DEF Resting
  <2>2. Beyond \subseteq Beyond'
    BY <1>5 DEF NoReturn, Beyond
  <2> QED
    BY <1>2, <2>1, <2>2 DEF Holds, Polls
<1>7. ASSUME NEW v \in Workers \ {w}, worker[v].pc \in Holding
      PROVE  worker[v].row # r /\ worker[v].row \in Rows
  <2>1. state[worker[v].row] = "processing"
    BY <1>7 DEF SteadyInv, Holds
  <2>2. worker[v].row \in Rows
    BY <1>7 DEF TypeOK, ThreadsOK, ThreadOK
  <2>3. CASE worker[w].pc \in Holding /\ worker[w].row = r
    BY <1>7, <2>2, <2>3 DEF SteadyInv, ExclusiveProcessing
  <2>4. CASE r \in Beyond
    BY <2>1, <2>2, <2>4 DEF Beyond
  <2> QED
    BY <2>2, <2>3, <2>4
<1>8. OthersKept(w)
  BY <1>2, <1>3, <1>7 DEF OthersKept
<1>9. OwnRow(w)
  BY <1>2 DEF OwnRow, Resting
<1> QED
  BY <1>5, <1>6, <1>8, <1>9, ThreadApart

\* update_db_row_state, by a thread that has the row in hand or has polled it.
LEMMA SetStateApart ==
  ASSUME TypeOK, SteadyInv, UNCHANGED entry, NEW w \in Workers, NEW r \in Rows,
         NEW s \in RowStates, NEW t, SetState(w, r, s, t), Resting(w, t),
         \/ worker[w].pc \in Holding /\ worker[w].row = r
         \/ r \in Beyond /\ s = "completed"
  PROVE  SteadyInv' /\ NoReturn
<1>1. CASE /\ state' = [state EXCEPT ![r] = s]
           /\ age' = [age EXCEPT ![r] = 0]
           /\ Become(w, t)
  BY <1>1, RowWritten
<1>2. CASE UNCHANGED <<state, age>> /\ Become(w, Waiting)
  BY <1>2, ThreadMoves, RestingThreads, RestingPolls
<1> QED
  BY <1>1, <1>2 DEF SetState

-----------------------------------------------------------------------------
(* Each action keeps the threads apart and lets no row come back.          *)

LEMMA HandRow ==
  ASSUME TypeOK, NEW w \in Workers, worker[w].pc \in Holding \cup {"answer"}
  PROVE  worker[w].row \in Rows
BY DEF TypeOK, ThreadsOK, ThreadOK

\* The steps that change no row.
LEMMA MovingApart ==
  ASSUME TypeOK, SteadyInv, NEW w \in Workers,
         \/ Wake(w) \/ NothingPending(w) \/ ReplyNoJob(w) \/ ReplyRaises(w)
         \/ Crash(w)
         \/ SendTaken(w) \/ SendNeedless(w) \/ SendRefused(w)
         \/ ListMonitored(w)
  PROVE  SteadyInv' /\ NoReturn
<1>0. UNCHANGED <<entry, state, age>>
  BY DEF Wake, NothingPending, ReplyNoJob, ReplyRaises, Crash, Answered,
         SendTaken, SendNeedless, SendRefused, ListMonitored, neutronVars, table
<1>1. CASE Wake(w) \/ NothingPending(w) \/ ReplyNoJob(w) \/ ReplyRaises(w) \/ Crash(w)
  <2>1. PICK t : Become(w, t) /\ Resting(w, t)
    BY <1>1, RestingThreads
    DEF Wake, NothingPending, ReplyNoJob, ReplyRaises, Crash
  <2> QED
    BY <1>0, <2>1, ThreadMoves, RestingPolls
<1>2. CASE SendTaken(w) \/ SendNeedless(w) \/ SendRefused(w)
  <2> DEFINE t(s) == [worker[w] EXCEPT !.pc = "reply", !.status = s]
  <2>1. PICK s : Become(w, t(s))
    BY <1>2 DEF SendTaken, SendNeedless, SendRefused, Respond
  <2>2. worker[w].pc = "send" /\ worker[w] \in Thread
    BY <1>2 DEF SendTaken, SendNeedless, SendRefused, At, TypeOK, ThreadsOK
  <2>3. /\ t(s).pc = "reply" /\ t(s).row = worker[w].row
        /\ t(s).todo = worker[w].todo
    BY <2>2 DEF Thread
  <2>4. Polls(t(s))
    BY <2>3 DEF SteadyInv, Polls
  <2> HIDE DEF t
  <2> QED
    BY <1>0, <2>1, <2>2, <2>3, <2>4, ThreadMoves DEF Holding
<1>3. CASE ListMonitored(w)
  <2> DEFINE t == [Waiting EXCEPT !.pc = "poll", !.todo = Monitored]
  <2>1. t.pc = "poll" /\ t.todo = Monitored
    BY DEF Waiting
  <2>2. Polls(t) /\ t.pc \notin Holding
    BY <2>1 DEF Polls, Monitored, Beyond, Holding
  <2> HIDE DEF t
  <2>3. \E u : Become(w, u) /\ Polls(u) /\ u.pc \notin Holding
    BY <1>3, <2>2, RestingThreads, RestingPolls DEF ListMonitored, t
  <2> QED
    BY <1>0, <2>3, ThreadMoves
<1> QED
  BY <1>1, <1>2, <1>3

\* Only a pending row is claimed, and no thread has one in hand.
LEMMA ClaimApart ==
  ASSUME TypeOK, SteadyInv, NEW w \in Workers, NEW r \in RowIds, Claim(w, r)
  PROVE  SteadyInv' /\ NoReturn
<1> DEFINE t == [Waiting EXCEPT !.pc = "check1", !.row = r, !.tries = retries[r]]
<1>1. /\ r \in Rows /\ state[r] = "pending" /\ UNCHANGED entry
      /\ state' = [state EXCEPT ![r] = "processing"]
      /\ age' = [age EXCEPT ![r] = 0]
      /\ Become(w, t)
  BY DEF Claim, Pending, neutronVars
<1>2. t.pc = "check1" /\ t.row = r /\ t.todo = {}
  BY DEF Waiting
<1> HIDE DEF t
<1>3. Rows' = Rows /\ Rows \subseteq RowIds
  BY <1>1 DEF Rows, RowIds, TypeOK, NeutronOK, EntriesOK
<1>4. worker'[w] = t /\ \A v \in Workers \ {w} : worker'[v] = worker[v]
  BY <1>1 DEF Become, TypeOK, ThreadsOK
<1>5. /\ state'[r] = "processing" /\ age'[r] = 0
      /\ \A q \in Rows \ {r} : state'[q] = state[q] /\ age'[q] = age[q]
  BY <1>1, <1>3 DEF TypeOK, TableOK
<1>6. NoReturn
  BY <1>1, <1>3, <1>5 DEF NoReturn, Beyond
<1>7. Holds(worker[w])' /\ Polls(worker[w])'
  BY <1>2, <1>4, <1>5 DEF Holds, Polls
<1>8. OthersKept(w)
  <2>1. ASSUME NEW v \in Workers, worker[v].pc \in Holding
        PROVE  worker[v].row \in Rows \ {r}
    BY <1>1, <2>1, HandRow DEF SteadyInv, Holds
  <2> QED
    BY <1>4, <1>5, <2>1 DEF OthersKept
<1>9. OwnRow(w)
  BY <1>1, <1>2, <1>4 DEF OwnRow
<1> QED
  BY <1>6, <1>7, <1>8, <1>9, ThreadApart

LEMMA CheckApart ==
  ASSUME TypeOK, SteadyInv, NEW w \in Workers, CheckFirst(w) \/ CheckSecond(w)
  PROVE  SteadyInv' /\ NoReturn
<1> DEFINE t(next) == [worker[w] EXCEPT !.pc = next]
<1>1. /\ UNCHANGED entry /\ worker[w].pc \in Holding /\ worker[w] \in Thread
      /\ worker[w].row \in Rows
  BY HandRow
  DEF CheckFirst, CheckSecond, At, Holding, neutronVars, TypeOK, ThreadsOK
<1>2. CASE SetState(w, worker[w].row, "pending", Claiming)
  BY <1>1, <1>2, SetStateApart, RestingThreads DEF RowStates
<1>3. ASSUME NEW next \in {"check2", "send"}, Become(w, t(next)), UNCHANGED table
      PROVE  SteadyInv' /\ NoReturn
  <2>1. /\ t(next).pc = next /\ t(next).row = worker[w].row
        /\ t(next).todo = worker[w].todo
    BY <1>1 DEF Thread
  <2>2. Polls(t(next))
    BY <2>1 DEF SteadyInv, Polls
  <2> HIDE DEF t
  <2> QED
    BY <1>1, <1>3, <2>1, <2>2, ThreadMoves DEF table
<1> QED
  BY <1>2, <1>3 DEF CheckFirst, CheckSecond, Check

LEMMA LoginApart ==
  ASSUME TypeOK, SteadyInv, NEW w \in Workers, SendLoginFails(w)
  PROVE  SteadyInv' /\ NoReturn
<1> DEFINE r == worker[w].row
<1>1. UNCHANGED entry /\ worker[w].pc \in Holding /\ r \in Rows
  BY HandRow DEF SendLoginFails, At, Holding, neutronVars
<1>2. PICK t : Become(w, t) /\ Resting(w, t)
  BY RestingThreads DEF SendLoginFails
<1>3. \/ UNCHANGED <<state, age>>
      \/ /\ age' = [age EXCEPT ![r] = 0]
         /\ \E s \in RowStates : state' = [state EXCEPT ![r] = s]
  BY DEF SendLoginFails, RowStates
<1>4. CASE UNCHANGED <<state, age>>
  BY <1>1, <1>2, <1>4, ThreadMoves, RestingPolls
<1>5. CASE /\ age' = [age EXCEPT ![r] = 0]
           /\ \E s \in RowStates : state' = [state EXCEPT ![r] = s]
  BY <1>1, <1>2, <1>5, RowWritten
<1> QED
  BY <1>3, <1>4, <1>5

LEMMA ReplyApart ==
  ASSUME TypeOK, SteadyInv, NEW w \in Workers,
         ReplyNeedless(w) \/ ReplyJob(w) \/ SetMonitoring(w)
  PROVE  SteadyInv' /\ NoReturn
<1> DEFINE r == worker[w].row
<1>1. /\ UNCHANGED entry /\ worker[w].pc \in Holding /\ worker[w] \in Thread
      /\ r \in Rows
  BY HandRow DEF ReplyNeedless, ReplyJob, SetMonitoring, Answered, At, Holding,
                 neutronVars, TypeOK, ThreadsOK
<1>2. CASE ReplyNeedless(w) \/ SetMonitoring(w)
  <2>1. PICK s \in RowStates : SetState(w, r, s, Claiming)
    BY <1>2 DEF ReplyNeedless, SetMonitoring, RowStates
  <2> QED
    BY <1>1, <2>1, SetStateApart, RestingThreads
<1>3. CASE ReplyJob(w)
  <2> DEFINE t == [worker[w] EXCEPT !.pc = "monitor", !.status = "none"]
  <2>1. t.pc = "monitor" /\ t.row = r /\ t.todo = worker[w].todo
    BY <1>1 DEF Thread
  <2>2. Polls(t)
    BY <2>1 DEF SteadyInv, Polls
  <2> HIDE DEF t
  <2>3. state[r] = "processing" /\ UNCHANGED state
    BY <1>1, <1>3 DEF SteadyInv, Holds, ReplyJob
  <2>4. age' = [age EXCEPT ![r] = 0] /\ Become(w, t)
    BY <1>3, <2>3 DEF ReplyJob, t
  <2>5. Rows' = Rows /\ Beyond' = Beyond /\ Rows \subseteq RowIds
    BY <1>1, <2>3 DEF Rows, Beyond, RowIds, TypeOK, NeutronOK, EntriesOK
  <2>6. worker'[w] = t /\ \A v \in Workers \ {w} : worker'[v] = worker[v]
    BY <2>4 DEF Become, TypeOK, ThreadsOK
  <2>7. age'[r] = 0 /\ \A q \in Rows \ {r} : age'[q] = age[q]
    BY <1>1, <2>4, <2>5 DEF TypeOK, TableOK
  <2>8. NoReturn
    BY <2>3, <2>5 DEF NoReturn
  <2>9. Holds(worker[w])' /\ Polls(worker[w])'
    BY <2>1, <2>2, <2>3, <2>5, <2>6, <2>7 DEF Holds, Polls
  <2>10. OthersKept(w)
    <3>1. ASSUME NEW v \in Workers \ {w}, worker[v].pc \in Holding
          PROVE  worker[v].row \in Rows \ {r}
      BY <1>1, <3>1, HandRow DEF SteadyInv, ExclusiveProcessing
    <3> QED
      BY <2>3, <2>6, <2>7, <3>1 DEF OthersKept
  <2>11. OwnRow(w)
    BY <1>1, <2>1, <2>6 DEF OwnRow
  <2> QED
    BY <2>8, <2>9, <2>10, <2>11, ThreadApart
<1> QED
  BY <1>2, <1>3

\* A poller only completes rows, and only such as nobody can have in hand.
LEMMA PollApart ==
  ASSUME Steady, TypeOK, SteadyInv, NEW w \in Workers,
         (\E r \in RowIds : PollJob(w, r)) \/ HandleAnswer(w)
  PROVE  SteadyInv' /\ NoReturn
<1>1. ASSUME NEW r \in RowIds, PollJob(w, r) PROVE SteadyInv' /\ NoReturn
  <2> DEFINE t == [worker[w] EXCEPT !.pc = "answer", !.row = r,
                                    !.status = "Completed"]
  <2>1. /\ UNCHANGED entry /\ r \in Beyond /\ worker[w].todo \subseteq Beyond
        /\ worker[w] \in Thread
    BY <1>1 DEF PollJob, neutronVars, SteadyInv, Polls, TypeOK, ThreadsOK
  <2>2. ~Fault("job_failed") /\ ~Fault("poll_login") /\ ~Fault("poll_unsupported")
    BY DEF Steady, Rollbacks, Fault
  <2>3. \/ Become(w, t)
        \/ \E u : Become(w, u) /\ Resting(w, u)
    BY <1>1, <2>2, RestingThreads
    DEF PollJob, PollRunning, PollEnded, PollLoginFails, PollRaises,
        PollUnreadable, PollUnsupported
  <2>4. UNCHANGED <<state, age>>
    BY <1>1, <2>2
    DEF PollJob, PollRunning, PollEnded, PollLoginFails, PollRaises,
        PollUnreadable, PollUnsupported, table
  <2>5. /\ t.pc = "answer" /\ t.row = r /\ t.status = "Completed"
        /\ t.todo = worker[w].todo
    BY <2>1 DEF Thread
  <2>6. Polls(t) /\ t.pc \notin Holding
    BY <2>1, <2>5 DEF Polls, Holding
  <2> HIDE DEF t
  <2> QED
    BY <2>1, <2>3, <2>4, <2>6, ThreadMoves, RestingPolls
<1>2. CASE HandleAnswer(w)
  <2> DEFINE r == worker[w].row
  <2>1. UNCHANGED entry /\ worker[w].pc = "answer" /\ r \in Rows
    BY <1>2, HandRow DEF HandleAnswer, At, neutronVars
  <2>2. r \in Beyond /\ worker[w].status = "Completed"
    BY <2>1 DEF SteadyInv, Polls
  <2>3. SetState(w, r, "completed", PollNext(w, r, TRUE))
    BY <1>2, <2>2 DEF HandleAnswer, AnswerState
  <2> QED
    BY <2>1, <2>2, <2>3, SetStateApart, RestingThreads DEF RowStates
<1> QED
  BY <1>1, <1>2

\* The environment: a row in hand is no orphan, since time waits for its
\* thread; only completed rows are deleted; a new row is pending.
LEMMA EnvironmentApart ==
  ASSUME Steady, TypeOK, SteadyInv,
         Tick \/ DeleteCompletedRows \/ ResetProcessingRows
  PROVE  SteadyInv' /\ NoReturn
<1>1. UNCHANGED <<entry, worker>> /\ Rows' = Rows /\ Rows \subseteq RowIds
  BY DEF Tick, DeleteCompletedRows, ResetProcessingRows, neutronVars, Rows,
         RowIds, TypeOK, NeutronOK, EntriesOK
<1>2. \A r \in Rows : \/ state'[r] = state[r]
                      \/ state[r] = "completed" /\ state'[r] = "absent"
                      \/ state[r] = "processing" /\ age[r] > ProcessingTimeout
  BY <1>1 DEF Tick, DeleteCompletedRows, ResetProcessingRows, Expired, Orphans
<1>3. ASSUME ResetProcessingRows, NEW r \in Rows, state'[r] # state[r]
      PROVE  state[r] = "processing"
  BY <1>1, <1>3 DEF ResetProcessingRows, Orphans
<1>4. NoReturn
  BY <1>1, <1>2 DEF NoReturn, Beyond
<1>5. ASSUME NEW w \in Workers, worker[w].pc \in Holding
      PROVE  /\ state'[worker[w].row] = "processing"
             /\ age'[worker[w].row] <= ProcessingTimeout
  <2> DEFINE r == worker[w].row
  <2>1. /\ r \in Rows /\ r \in RowIds /\ state[r] = "processing"
        /\ age[r] <= ProcessingTimeout /\ age[r] \in Nat
    BY <1>1, <1>5, HandRow, MaxAgeNat DEF SteadyInv, Holds, TypeOK, TableOK
  <2>2. CASE Tick
    <3>1. age[r] < ProcessingTimeout
      BY <1>5, <2>2 DEF Tick, Steady
    <3>2. age'[r] \in {age[r], age[r] + 1} /\ state'[r] = state[r]
      BY <2>1, <2>2 DEF Tick
    <3> QED
      BY <2>1, <3>1, <3>2
  <2>3. CASE DeleteCompletedRows
    BY <2>1, <2>3 DEF DeleteCompletedRows, Expired
  <2>4. CASE ResetProcessingRows
    BY <2>1, <2>4 DEF ResetProcessingRows, Orphans
  <2> QED
    BY <2>2, <2>3, <2>4
<1>6. Beyond \subseteq Beyond'
  BY <1>4 DEF NoReturn, Beyond
<1> QED
  BY <1>1, <1>4, <1>5, <1>6
  DEF SteadyInv, Holds, Polls, ExclusiveProcessing

LEMMA ApiApart ==
  ASSUME TypeOK, Lifecycle, SteadyInv, ApiStep
  PROVE  SteadyInv' /\ NoReturn
<1>1. CASE NotRecorded
  <2>1. UNCHANGED <<entry, state, age, worker>> /\ Rows' = Rows
    BY <1>1 DEF NotRecorded, table, Rows
  <2> QED
    BY <2>1
    DEF SteadyInv, Holds, Polls, Beyond, ExclusiveProcessing, NoReturn
<1>2. ASSUME NEW o \in Objects, NEW op \in Ops, Recorded(o, op)
      PROVE  SteadyInv' /\ NoReturn
  <2> DEFINE k == Len(entry) + 1
  <2>1. Rows' = Rows \cup {k} /\ k \in RowIds /\ k \notin Rows
    <3>1. Record(o, op) /\ NeutronOK /\ Len(entry) < MaxRows
      BY <1>2 DEF Recorded, ApiStep, TypeOK
    <3>2. Rows' = Rows \cup {k} /\ k \in RowIds
      BY <3>1, RecordRows
    <3>3. k \notin Rows
      BY <3>1 DEF Rows, NeutronOK, EntriesOK
    <3> QED
      BY <3>2, <3>3
  <2>2. /\ UNCHANGED worker
        /\ state' = [state EXCEPT ![k] = "pending"]
        /\ age' = [age EXCEPT ![k] = 0]
    BY <1>2 DEF Recorded, Record
  <2> HIDE DEF k
  <2>3. \A r \in Rows : state'[r] = state[r] /\ age'[r] = age[r]
    <3>1. Rows \subseteq RowIds
      BY DEF Rows, RowIds, TypeOK, NeutronOK, EntriesOK
    <3> QED
      BY <2>1, <2>2, <3>1 DEF TypeOK, TableOK
  <2>4. NoReturn /\ Beyond \subseteq Beyond'
    BY <2>1, <2>3 DEF NoReturn, Beyond
  <2>5. \A w \in Workers : worker[w].pc \in Holding => worker[w].row \in Rows
    BY HandRow
  <2> QED
    BY <2>2, <2>3, <2>4, <2>5 DEF SteadyInv, Holds, Polls, ExclusiveProcessing
<1> QED
  BY <1>1, <1>2, ApiRecords

\* Whatever happens, threads stay apart and no row comes back.
LEMMA NextApart ==
  ASSUME Steady, TypeOK, Lifecycle, SteadyInv, [Next]_vars
  PROVE  SteadyInv' /\ NoReturn
<1>1. CASE ApiStep
  BY <1>1, ApiApart
<1>2. ASSUME NEW w \in Workers, ThreadStep(w) \/ Crash(w)
      PROVE  SteadyInv' /\ NoReturn
  BY <1>2, MovingApart, ClaimApart, CheckApart, LoginApart, ReplyApart, PollApart
  DEF ThreadStep
<1>3. CASE Tick \/ DeleteCompletedRows \/ ResetProcessingRows
  BY <1>3, EnvironmentApart
<1>4. CASE UNCHANGED vars
  <2>1. UNCHANGED <<entry, state, age, worker>> /\ Rows' = Rows
    BY <1>4 DEF vars, neutronVars, table, Rows
  <2> QED
    BY <2>1
    DEF SteadyInv, Holds, Polls, Beyond, ExclusiveProcessing, NoReturn
<1> QED
  BY <1>1, <1>2, <1>3, <1>4 DEF Next

LEMMA InitApart == Init => SteadyInv
<1> SUFFICES ASSUME Init PROVE SteadyInv
  OBVIOUS
<1>1. Waiting.pc = "wait" /\ Waiting.todo = {}
  BY DEF Waiting
<1>2. \A w \in Workers : worker[w] = Waiting
  BY DEF Init
<1> QED
  BY <1>1, <1>2 DEF SteadyInv, Holds, Polls, ExclusiveProcessing, Holding

LEMMA SteadyInvariant ==
  ASSUME Steady
  PROVE  Spec => [](TypeOK /\ Lifecycle /\ SteadyInv)
<1>1. Init => TypeOK /\ Lifecycle /\ SteadyInv
  BY InitTypes, InitApart
<1>2. TypeOK /\ Lifecycle /\ SteadyInv /\ [Next]_vars
         => (TypeOK /\ Lifecycle /\ SteadyInv)'
  BY NextTypes, NextApart
<1> QED
  BY <1>1, <1>2, PTL DEF Spec

\* As long as no thread outlasts the processing timeout, and no failure makes
\* a poller put a row back, no two threads ever work on one row: not after a
\* crash, nor after a lost answer, nor with an old list of monitored rows.
THEOREM ExclusiveProcessingCorrect ==
  ASSUME Steady
  PROVE  Spec => []ExclusiveProcessing
<1>1. SteadyInv => ExclusiveProcessing
  BY DEF SteadyInv
<1> QED
  BY <1>1, SteadyInvariant, PTL

\* Under the same conditions a row that is completed or failed stays so until
\* it is deleted, whatever threads remember of it from before.
THEOREM DoneIsFinalCorrect ==
  ASSUME Steady
  PROVE  Spec => DoneIsFinal
<1>1. TypeOK /\ Lifecycle /\ SteadyInv /\ [Next]_vars
         => [\A r \in Rows : state[r] \in {"completed", "failed"} =>
                state'[r] \in {state[r], "absent"}]_vars
  BY NextApart DEF NoReturn
<1> QED
  BY <1>1, SteadyInvariant, PTL DEF Spec, DoneIsFinal

-----------------------------------------------------------------------------
(* Rows of one object wait for one another.                                *)

\* Rows are created in the order of their insertion; of a network, POST is the
\* first row and DELETE the last.
InOrder ==
    \A q, r \in Rows : q < r =>
        /\ entry[q].at <= entry[r].at
        /\ DistinctSeconds => entry[q].at < entry[r].at
        /\ entry[q].obj = entry[r].obj /\ entry[q].obj \in Nets
              => entry[r].op # "post" /\ entry[q].op # "delete"

LEMMA OrderKept ==
  ASSUME TypeOK, Lifecycle, InOrder, [Next]_vars
  PROVE  InOrder'
<1>1. CASE UNCHANGED entry
  BY <1>1 DEF InOrder, Rows
<1>2. CASE ApiStep
  <2>1. ASSUME NEW o \in Objects, NEW op \in Ops, Recorded(o, op)
        PROVE  InOrder'
    <3> DEFINE k == Len(entry) + 1
    <3>1. Record(o, op) /\ NeutronOK /\ Len(entry) < MaxRows
      BY <1>2, <2>1 DEF Recorded, ApiStep, TypeOK
    <3>2. /\ Rows' = Rows \cup {k}
          /\ \A r \in Rows : entry'[r] = entry[r]
          /\ entry'[k] = [obj |-> o, op |-> op, at |-> now]
      BY <3>1, RecordRows
    <3>3. k \in Nat /\ \A r \in Rows : r \in Nat /\ r < k
      BY <3>1 DEF NeutronOK, EntriesOK, Rows
    <3>4. entry'[k].obj = o /\ entry'[k].op = op /\ entry'[k].at = now
      BY <3>2
    <3> HIDE DEF k
    <3>5. ASSUME NEW q \in Rows
          PROVE  /\ entry[q].at <= now
                 /\ DistinctSeconds => entry[q].at < now
                 /\ entry[q].obj = o /\ o \in Nets
                       => op # "post" /\ entry[q].op # "delete"
      BY <2>1, <3>1 DEF Lifecycle, Record, Recorded
    <3> QED
      BY <3>2, <3>3, <3>4, <3>5 DEF InOrder
  <2> QED
    BY <1>1, <1>2, <2>1, ApiRecords DEF NotRecorded
<1> QED
  BY <1>1, <1>2, NeutronKept DEF Next, Tick, vars, neutronVars

\* A row waits for every row of its object that was created earlier.
LEMMA OlderIsDep ==
  ASSUME TypeOK, InOrder, NEW q \in Rows, NEW r \in Rows,
         entry[q].obj = entry[r].obj, entry[q].at < entry[r].at
  PROVE  q \in Deps[r]
<1>1. /\ entry[r].obj \in Objects /\ entry[q].op \in Ops /\ entry[r].op \in Ops
      /\ entry[q].at \in Nat /\ entry[r].at \in Nat /\ q \in Nat /\ r \in Nat
  BY EntryFields DEF Rows, TypeOK, NeutronOK, EntriesOK
<1>2. q < r
  <2>1. q # r
    BY <1>1
  <2>2. ~(r < q)
    BY <1>1 DEF InOrder
  <2> QED
    BY <1>1, <2>1, <2>2
<1>3. q \in OlderOps(r)
  BY <1>1, <1>2 DEF OlderOps
<1>4. CASE entry[r].obj \in Ports
  <2>1. entry[r].obj \notin Nets
    BY <1>4
  <2>2. SecondDeps[r] = OlderOps(r)
    BY <1>4, <2>1 DEF SecondDeps
  <2> QED
    BY <1>3, <2>2, DepsAreRows
<1>5. CASE entry[r].obj \in Nets
  <2>1. entry[r].op # "post" /\ entry[q].op # "delete"
    BY <1>2, <1>5 DEF InOrder
  <2>2. CASE entry[r].op = "delete"
    <3>1. FirstDeps[r] = OpsOn(entry[r].obj, {"post", "put"})
      BY <1>5, <2>2 DEF FirstDeps
    <3>2. q \in OpsOn(entry[r].obj, {"post", "put"})
      BY <1>1, <2>1 DEF OpsOn, Ops
    <3> QED
      BY <3>1, <3>2, DepsAreRows
  <2>3. CASE entry[r].op = "put"
    <3>1. FirstDeps[r] = OlderOps(r)
      BY <1>5, <2>3 DEF FirstDeps
    <3> QED
      BY <1>3, <3>1, DepsAreRows
  <2> QED
    BY <1>1, <2>1, <2>2, <2>3 DEF Ops
<1> QED
  BY <1>1, <1>4, <1>5 DEF Objects

\* The rows there are, and what they wait for, do not change.
LEMMA RowsFixed ==
  ASSUME TypeOK, Lifecycle, [Next]_vars
  PROVE  \A r \in Rows : /\ r \in Rows' /\ entry'[r] = entry[r]
                         /\ FirstDeps'[r] = FirstDeps[r]
                         /\ Deps'[r] = Deps[r]
<1>1. CASE UNCHANGED entry
  BY <1>1, DepsKept
<1>2. CASE ApiStep
  <2>1. ASSUME NEW o \in Objects, NEW op \in Ops, Recorded(o, op)
        PROVE  \A r \in Rows : /\ r \in Rows' /\ entry'[r] = entry[r]
                               /\ FirstDeps'[r] = FirstDeps[r]
                               /\ Deps'[r] = Deps[r]
    <3>1. /\ Record(o, op) /\ NeutronOK /\ Len(entry) < MaxRows
      BY <1>2, <2>1 DEF Recorded, ApiStep, TypeOK
    <3>2. Rows \subseteq Rows' /\ \A r \in Rows : entry'[r] = entry[r]
      BY <3>1, RecordRows
    <3>3. \A r \in Rows : FirstDeps'[r] = FirstDeps[r] /\ Deps'[r] = Deps[r]
      BY <2>1, <3>1, RecordDeps DEF Recorded
    <3> QED
      BY <3>2, <3>3
  <2> QED
    BY <1>1, <1>2, <2>1, ApiRecords DEF NotRecorded
<1> QED
  BY <1>1, <1>2, NeutronKept DEF Next, Tick, vars, neutronVars

\* The steps of one thread are its own.
LEMMA OtherThreads ==
  ASSUME TypeOK, NEW w \in Workers, ThreadStep(w) \/ Crash(w)
  PROVE  \A v \in Workers \ {w} : worker'[v] = worker[v]
<1>1. \E t : Become(w, t)
  BY DEF ThreadStep, Crash, Wake, Claim, NothingPending, CheckFirst,
         CheckSecond, Check, SendTaken, SendNeedless, SendRefused, Respond,
         SendLoginFails, SetState, ReplyNeedless, ReplyJob, ReplyNoJob,
         ReplyRaises, SetMonitoring, ListMonitored, PollJob, PollRunning,
         PollEnded, PollLoginFails, PollRaises, PollUnreadable,
         PollUnsupported, HandleAnswer
<1> QED
  BY <1>1 DEF Become, TypeOK, ThreadsOK

\* The controller takes a row by an answer to a request, and by nothing else.
LEMMA OnlySends ==
  ASSUME TypeOK, Lifecycle, [Next]_vars
  PROVE  \/ \E w \in Workers : SendTaken(w) \/ SendNeedless(w)
         \/ UNCHANGED <<accepted, applied>>
<1>1. CASE ApiStep
  BY <1>1, ApiRecords DEF NotRecorded, Recorded, Record, controller
<1>2. ASSUME NEW w \in Workers, ThreadStep(w) \/ Crash(w)
      PROVE  SendTaken(w) \/ SendNeedless(w) \/ UNCHANGED <<accepted, applied>>
  BY <1>2
  DEF ThreadStep, Crash, Wake, Claim, NothingPending, CheckFirst, CheckSecond,
      SendRefused, SendLoginFails, Answered, ReplyNeedless, ReplyJob,
      ReplyNoJob, ReplyRaises, SetMonitoring, ListMonitored, PollJob,
      HandleAnswer, controller
<1>3. CASE \/ Tick \/ DeleteCompletedRows \/ ResetProcessingRows
           \/ UNCHANGED vars
  BY <1>3 DEF Tick, DeleteCompletedRows, ResetProcessingRows, vars, controller
<1> QED
  BY <1>1, <1>2, <1>3 DEF Next

-----------------------------------------------------------------------------
(* What is sent once, and what twice.                                      *)

\* The failures that leave a row in processing which the controller has taken.
Doubtful == {"crash", "no_job", "reply_lost"}

\* A thread that has an answer by which the row it has in hand will leave
\* processing.
Answering(t) == \/ t.pc = "reply" /\ t.status # "no_job"
                    /\ ~Raises(t.status, entry[t.row].op)
                \/ t.pc = "monitor"

\* A row that the controller took is under way to its end, or a thread knows.
Accounted == \A r \in accepted \ Beyond :
                 \E w \in Workers : Answering(worker[w]) /\ worker[w].row = r

\* What a thread knows of a row stands in the row before the thread forgets it.
LEMMA AnswerWritten ==
  ASSUME Steady, Faults \cap Doubtful = {}, TypeOK, Lifecycle, SteadyInv,
         NEW w \in Workers, Answering(worker[w]), ThreadStep(w) \/ Crash(w)
  PROVE  \/ worker[w].row \in Beyond'
         \/ Answering(worker[w])' /\ worker'[w].row = worker[w].row
<1> DEFINE r == worker[w].row
<1>1. r \in Rows /\ r \in RowIds /\ worker[w] \in Thread /\ worker[w].pc \in Holding
  BY HandRow DEF Answering, Holding, Rows, RowIds, TypeOK, NeutronOK, EntriesOK,
                 ThreadsOK
<1>2. state[r] = "processing" /\ state \in [RowIds -> RowStates]
  BY <1>1 DEF SteadyInv, Holds, TypeOK, TableOK
<1>3. ~Crash(w)
  BY DEF Crash, Fault, Doubtful
<1>4. CASE ReplyNeedless(w) \/ SetMonitoring(w)
  <2>1. UNCHANGED entry /\ state'[r] \in {"completed", "monitoring"}
    BY <1>1, <1>2, <1>4
    DEF ReplyNeedless, SetMonitoring, SetState, Answered, neutronVars
  <2> QED
    BY <1>1, <2>1 DEF Beyond, Rows
<1>5. CASE ReplyJob(w)
  <2> DEFINE t == [worker[w] EXCEPT !.pc = "monitor", !.status = "none"]
  <2>1. t.pc = "monitor" /\ t.row = r
    BY <1>1 DEF Thread
  <2>2. worker'[w] = t
    BY <1>2, <1>5 DEF ReplyJob, Become, TypeOK, ThreadsOK
  <2> QED
    BY <2>1, <2>2 DEF Answering
<1>6. CASE worker[w].pc = "reply"
  BY <1>3, <1>4, <1>5, <1>6
  DEF Answering, ThreadStep, At, Wake, Claim, NothingPending, CheckFirst,
      CheckSecond, SendTaken, SendNeedless, SendRefused, SendLoginFails,
      Answered, ReplyNoJob, ReplyRaises, ListMonitored, PollJob, HandleAnswer
<1>7. CASE worker[w].pc = "monitor"
  BY <1>3, <1>4, <1>5, <1>7
  DEF ThreadStep, At, Wake, Claim, NothingPending, CheckFirst,
      CheckSecond, SendTaken, SendNeedless, SendRefused, SendLoginFails,
      Answered, ReplyNoJob, ReplyRaises, ListMonitored, PollJob, HandleAnswer
<1> QED
  BY <1>6, <1>7 DEF Answering

\* A thread whose row the controller takes has the answer.
LEMMA TakenAnswers ==
  ASSUME Faults \cap Doubtful = {}, TypeOK, NEW w \in Workers,
         SendTaken(w) \/ SendNeedless(w)
  PROVE  /\ accepted' = accepted \cup {worker[w].row}
         /\ Answering(worker[w])' /\ worker'[w].row = worker[w].row
<1> DEFINE r == worker[w].row
           t(s) == [worker[w] EXCEPT !.pc = "reply", !.status = s]
<1>1. UNCHANGED entry /\ accepted' = accepted \cup {r}
  BY DEF SendTaken, SendNeedless, Take, neutronVars
<1>2. PICK s \in {"job", "not_found", "not_implemented"} :
          /\ Respond(w, s)
          /\ s = "not_found" => entry[r].op = "delete"
  BY DEF SendTaken, SendNeedless, Fault, Doubtful
<1>3. t(s).pc = "reply" /\ t(s).row = r /\ t(s).status = s
  BY DEF Thread, TypeOK, ThreadsOK
<1>4. worker'[w] = t(s)
  BY <1>2 DEF Respond, Become, TypeOK, ThreadsOK
<1> HIDE DEF t
<1>5. ~Raises(s, entry[r].op)
  BY <1>2 DEF Raises
<1> QED
  BY <1>1, <1>2, <1>3, <1>4, <1>5 DEF Answering

LEMMA NextAccounted ==
  ASSUME Steady, Faults \cap Doubtful = {}, TypeOK, Lifecycle, SteadyInv,
         Accounted, [Next]_vars
  PROVE  Accounted'
<1>1. NoReturn /\ Beyond \subseteq Beyond' /\ accepted \subseteq Rows
  BY NextApart DEF NoReturn, Beyond, TypeOK, ControllerOK
<1>2. \A r \in Rows : entry'[r] = entry[r]
  BY RowsFixed
<1>3. ASSUME NEW r \in accepted \ Beyond'
      PROVE  \E w \in Workers : Answering(worker[w])' /\ worker'[w].row = r
  <2>1. PICK w \in Workers : Answering(worker[w]) /\ worker[w].row = r
    BY <1>1 DEF Accounted
  <2>2. CASE ThreadStep(w) \/ Crash(w)
    BY <1>3, <2>1, <2>2, AnswerWritten
  <2>3. CASE worker'[w] = worker[w]
    BY <1>1, <1>2, <2>1, <2>3 DEF Answering
  <2>4. CASE \E v \in Workers \ {w} : ThreadStep(v) \/ Crash(v)
    BY <2>3, <2>4, OtherThreads
  <2>5. CASE ~\E v \in Workers : ThreadStep(v) \/ Crash(v)
    BY <2>3, <2>5, ApiRecords
    DEF Next, NotRecorded, Recorded, Record, Tick, DeleteCompletedRows,
        ResetProcessingRows, vars
  <2> QED
    BY <2>2, <2>4, <2>5
<1>4. ASSUME NEW r \in accepted' \ accepted
      PROVE  \E w \in Workers : Answering(worker[w])' /\ worker'[w].row = r
  <2>1. PICK w \in Workers : SendTaken(w) \/ SendNeedless(w)
    BY <1>4, OnlySends
  <2> QED
    BY <1>4, <2>1, TakenAnswers
<1> QED
  BY <1>3, <1>4 DEF Accounted

\* The journal sends an operation again only after one of six failures: a job
\* that failed, a login or an answer that failed a poll (Rollbacks), a crash, or
\* an answer to the request that is lost or holds no job.  A login that fails
\* before the request, a refusal, or a poll that raises repeats nothing.
THEOREM SentOnceCorrect ==
  ASSUME Steady, Faults \cap Doubtful = {}
  PROVE  Spec => SentOnce
<1>1. Init => Accounted
  BY DEF Init, Accounted
<1>2. TypeOK /\ Lifecycle /\ SteadyInv /\ Accounted
         => [\A w \in Workers : At(w, "send") /\ worker'[w].pc = "reply"
                                  => worker[w].row \notin accepted]_vars
  <2> SUFFICES ASSUME TypeOK, SteadyInv, Accounted, NEW w \in Workers,
                      worker[w].pc = "send", worker[w].row \in accepted
               PROVE  FALSE
    BY DEF At
  <2>1. state[worker[w].row] = "processing"
    BY DEF SteadyInv, Holds, Holding
  <2>2. PICK v \in Workers : Answering(worker[v]) /\ worker[v].row = worker[w].row
    BY <2>1 DEF Accounted, Beyond
  <2> QED
    BY <2>2 DEF Answering, SteadyInv, ExclusiveProcessing, Holding
<1>3. TypeOK /\ Lifecycle /\ SteadyInv /\ Accounted /\ [Next]_vars => Accounted'
  BY NextAccounted
<1> QED
  BY <1>1, <1>2, <1>3, SteadyInvariant, PTL DEF Spec, SentOnce

-----------------------------------------------------------------------------
(* What the controller holds is the latest it was sent.                    *)

\* No request is refused with a 501, after which the row counts as completed
\* although the controller did not follow it.
AllSupported == "unsupported" \notin Faults

\* What the validator has found, and will not change until the row is sent.
Validated(t) == /\ t.pc = "check2" => FirstDeps[t.row] \cap Unsent = {}
                /\ t.pc = "send" => Deps[t.row] \cap Unsent = {}

\* The rows an accepted row had to wait for are never sent again.
OrderFinal == \A r \in accepted : Deps[r] \cap Unsent = {}

AppliedLast(o) ==
    /\ applied[o] # 0 => applied[o] \in accepted /\ entry[applied[o]].obj = o
    /\ \A r \in accepted : entry[r].obj = o =>
          applied[o] # 0 /\ entry[r].at <= entry[applied[o]].at

MirrorInv == /\ InOrder
             /\ \A w \in Workers : Validated(worker[w])
             /\ OrderFinal
             /\ \A o \in Objects : AppliedLast(o)

\* What is no longer to be sent stays so.
LEMMA UnsentShrinks ==
  ASSUME TypeOK, NoReturn
  PROVE  Unsent' \cap Rows \subseteq Unsent
<1> SUFFICES ASSUME NEW r \in Rows, r \in Unsent', r \notin Unsent PROVE FALSE
  OBVIOUS
<1>1. r \in RowIds
  BY DEF TypeOK, NeutronOK, EntriesOK, Rows, RowIds
<1>2. r \in Beyond \/ state[r] = "failed"
  BY <1>1 DEF Unsent, Beyond, TypeOK, TableOK, RowStates
<1> QED
  BY <1>2 DEF NoReturn, Beyond, Unsent

\* A step by which the controller takes nothing.
LEMMA MirrorKept ==
  ASSUME TypeOK, Lifecycle, MirrorInv, NoReturn, [Next]_vars,
         UNCHANGED <<accepted, applied>>,
         \A w \in Workers : worker'[w] = worker[w] \/ Validated(worker[w])'
  PROVE  MirrorInv'
<1>1. \A r \in Rows : /\ r \in Rows' /\ entry'[r] = entry[r]
                      /\ FirstDeps'[r] = FirstDeps[r] /\ FirstDeps[r] \subseteq Rows
                      /\ Deps'[r] = Deps[r] /\ Deps[r] \subseteq Rows
  BY RowsFixed, DepsAreRows
<1>2. accepted \subseteq Rows
  BY DEF TypeOK, ControllerOK
<1>3. OrderFinal'
  BY <1>1, <1>2, UnsentShrinks DEF MirrorInv, OrderFinal
<1>4. ASSUME NEW w \in Workers PROVE Validated(worker[w])'
  <2>1. CASE worker'[w] = worker[w]
    <3>1. worker[w].pc \in {"check2", "send"} => worker[w].row \in Rows
      BY HandRow DEF Holding
    <3>2. Validated(worker[w])
      BY DEF MirrorInv
    <3> QED
      BY <1>1, <2>1, <3>1, <3>2, UnsentShrinks DEF Validated
  <2> QED
    BY <2>1
<1>5. ASSUME NEW o \in Objects PROVE AppliedLast(o)'
  <2>1. AppliedLast(o)
    BY DEF MirrorInv
  <2> QED
    BY <1>1, <1>2, <2>1 DEF AppliedLast
<1>6. InOrder'
  BY OrderKept DEF MirrorInv
<1> QED
  BY <1>3, <1>4, <1>5, <1>6 DEF MirrorInv

\* A thread knows something of the rows its row waits for only after a query.
LEMMA OnlyQueries ==
  ASSUME TypeOK, NEW w \in Workers, ThreadStep(w) \/ Crash(w),
         ~CheckFirst(w), ~CheckSecond(w)
  PROVE  worker'[w].pc \notin {"check2", "send"}
<1>1. worker \in [Workers -> Thread] /\ worker[w] \in Thread
  BY DEF TypeOK, ThreadsOK
<1>2. \A t : Become(w, t) => worker'[w] = t
  BY <1>1 DEF Become
<1>3. \A t : Resting(w, t) => t.pc \notin {"check2", "send"}
  BY DEF Resting, Holding
<1>4. CASE \/ Wake(w) \/ NothingPending(w) \/ ReplyNoJob(w) \/ ReplyRaises(w)
           \/ Crash(w) \/ SendLoginFails(w) \/ ReplyNeedless(w)
           \/ SetMonitoring(w) \/ HandleAnswer(w)
  <2>1. \E t : Become(w, t) /\ Resting(w, t)
    BY <1>4, RestingThreads
    DEF Wake, NothingPending, ReplyNoJob, ReplyRaises, Crash, SendLoginFails,
        ReplyNeedless, SetMonitoring, HandleAnswer, SetState
  <2> QED
    BY <1>2, <1>3, <2>1
<1>5. CASE SendTaken(w) \/ SendNeedless(w) \/ SendRefused(w)
  <2>1. \E s : Become(w, [worker[w] EXCEPT !.pc = "reply", !.status = s])
    BY <1>5 DEF SendTaken, SendNeedless, SendRefused, Respond
  <2>2. \A s : [worker[w] EXCEPT !.pc = "reply", !.status = s].pc = "reply"
    BY <1>1 DEF Thread
  <2> QED
    BY <1>2, <2>1, <2>2
<1>6. ASSUME NEW r \in RowIds, Claim(w, r)
      PROVE  worker'[w].pc \notin {"check2", "send"}
  <2> DEFINE t == [Waiting EXCEPT !.pc = "check1", !.row = r, !.tries = retries[r]]
  <2>1. t.pc = "check1"
    BY DEF Waiting
  <2>2. Become(w, t)
    BY <1>6 DEF Claim
  <2> QED
    BY <1>2, <2>1, <2>2
<1>7. CASE ReplyJob(w)
  <2> DEFINE t == [worker[w] EXCEPT !.pc = "monitor", !.status = "none"]
  <2>1. t.pc = "monitor"
    BY <1>1 DEF Thread
  <2>2. Become(w, t) \/ Become(w, Waiting)
    BY <1>7 DEF ReplyJob
  <2> HIDE DEF t
  <2> QED
    BY <1>2, <1>3, <2>1, <2>2, RestingThreads
<1>8. CASE ListMonitored(w)
  <2> DEFINE t == [Waiting EXCEPT !.pc = "poll", !.todo = Monitored]
  <2>1. t.pc = "poll"
    BY DEF Waiting
  <2>2. Become(w, t) \/ Become(w, Waiting)
    BY <1>8 DEF ListMonitored
  <2> HIDE DEF t
  <2> QED
    BY <1>2, <1>3, <2>1, <2>2, RestingThreads
<1>9. ASSUME NEW r \in RowIds, PollJob(w, r)
      PROVE  worker'[w].pc \notin {"check2", "send"}
  <2> DEFINE t(s) == [worker[w] EXCEPT !.pc = "answer", !.row = r, !.status = s]
  <2>1. \A s : t(s).pc = "answer"
    BY <1>1 DEF Thread
  <2>2. \/ \E s : Become(w, t(s))
        \/ \E u : Become(w, u) /\ Resting(w, u)
    BY <1>9, RestingThreads
    DEF PollJob, PollRunning, PollEnded, PollLoginFails, PollRaises,
        PollUnreadable, PollUnsupported, SetState
  <2> HIDE DEF t
  <2> QED
    BY <1>2, <1>3, <2>1, <2>2
<1> QED
  BY <1>4, <1>5, <1>6, <1>7, <1>8, <1>9 DEF ThreadStep

\* The validator's queries find what a thread then knows.
LEMMA QueriesValidate ==
  ASSUME TypeOK, Lifecycle, MirrorInv, NoReturn, NEW w \in Workers,
         CheckFirst(w) \/ CheckSecond(w)
  PROVE  Validated(worker[w])'
<1> DEFINE r == worker[w].row
           t(next) == [worker[w] EXCEPT !.pc = next]
<1>1. UNCHANGED entry /\ r \in Rows /\ worker[w] \in Thread
  BY HandRow
  DEF CheckFirst, CheckSecond, At, Holding, neutronVars, TypeOK, ThreadsOK
<1>2. \A u : Become(w, u) => worker'[w] = u
  BY DEF Become, TypeOK, ThreadsOK
<1>3. CASE SetState(w, r, "pending", Claiming)
  <2>1. worker'[w] = Claiming \/ worker'[w] = Waiting
    BY <1>2, <1>3 DEF SetState
  <2>2. worker'[w].pc \notin {"check2", "send"}
    BY <2>1, RestingThreads DEF Resting, Holding
  <2> QED
    BY <2>2 DEF Validated
<1>4. ASSUME NEW next \in {"check2", "send"}, Become(w, t(next)),
             UNCHANGED table,
             next = "check2" => FirstDeps[r] \cap Unsent = {},
             next = "send" => Deps[r] \cap Unsent = {}
      PROVE  Validated(worker[w])'
  <2>1. worker'[w].pc = next /\ worker'[w].row = r
    BY <1>1, <1>2, <1>4 DEF Thread
  <2>2. FirstDeps' = FirstDeps /\ Deps' = Deps /\ Unsent' = Unsent
    BY <1>1, <1>4, DepsKept DEF Unsent, table
  <2> QED
    BY <1>4, <2>1, <2>2 DEF Validated
<1>5. CASE CheckFirst(w) /\ FirstDeps[r] \cap Unsent = {} /\ Become(w, t("check2"))
           /\ UNCHANGED table
  BY <1>4, <1>5
<1>6. CASE CheckSecond(w) /\ SecondDeps[r] \cap Unsent = {} /\ Become(w, t("send"))
           /\ UNCHANGED table
  <2>1. FirstDeps[r] \cap Unsent = {}
    BY <1>6 DEF MirrorInv, Validated, CheckSecond, At
  <2>2. Deps[r] \cap Unsent = {}
    BY <1>1, <1>6, <2>1, DepsAreRows
  <2> QED
    BY <1>4, <1>6, <2>2
<1> QED
  BY <1>3, <1>5, <1>6 DEF CheckFirst, CheckSecond, Check

\* The row the controller takes is as late as any it took for that object: a
\* later one would have waited for it.
LEMMA SendMirrored ==
  ASSUME AllSupported, TypeOK, Lifecycle, SteadyInv, MirrorInv, NoReturn,
         [Next]_vars, NEW w \in Workers, SendTaken(w) \/ SendNeedless(w)
  PROVE  MirrorInv'
<1> DEFINE r == worker[w].row
           o == entry[r].obj
<1>1. /\ UNCHANGED <<entry, state>> /\ worker[w].pc = "send" /\ r \in Rows
      /\ accepted' = accepted \cup {r}
      /\ applied' = [applied EXCEPT ![o] = r]
  BY HandRow
  DEF SendTaken, SendNeedless, Take, At, Holding, neutronVars, table,
      AllSupported, Fault
<1>2. Rows' = Rows /\ Deps' = Deps /\ Unsent' = Unsent
  BY <1>1, DepsKept DEF Unsent
<1>3. Deps[r] \cap Unsent = {} /\ r \in Unsent
  <2>1. state[r] = "processing"
    BY <1>1 DEF SteadyInv, Holds, Holding
  <2> QED
    BY <1>1, <2>1 DEF MirrorInv, Validated, Unsent
<1>4. OrderFinal'
  BY <1>1, <1>2, <1>3 DEF MirrorInv, OrderFinal
<1>5. /\ applied \in [Objects -> 0 .. MaxRows] /\ accepted \subseteq Rows
      /\ o \in Objects /\ r \in Nat \ {0}
  BY <1>1, EntryFields DEF TypeOK, ControllerOK, Rows, NeutronOK, EntriesOK
<1>6. ASSUME NEW q \in accepted, entry[q].obj = o
      PROVE  entry[q].at <= entry[r].at
  <2>1. q \in Rows /\ entry[q].at \in Nat /\ entry[r].at \in Nat
    BY <1>1, <1>5, EntryFields
  <2>2. ~(entry[r].at < entry[q].at)
    <3> SUFFICES ASSUME entry[r].at < entry[q].at PROVE FALSE
      OBVIOUS
    <3>1. r \in Deps[q]
      BY <1>1, <1>6, <2>1, OlderIsDep DEF MirrorInv
    <3> QED
      BY <1>3, <3>1 DEF MirrorInv, OrderFinal
  <2> QED
    BY <2>1, <2>2
<1>7. ASSUME NEW x \in Objects PROVE AppliedLast(x)'
  <2>1. CASE x = o
    <3>1. applied'[x] = r /\ r # 0
      BY <1>1, <1>5, <2>1
    <3>2. entry[r].at <= entry[r].at
      BY <1>1, EntryFields
    <3> QED
      BY <1>1, <1>6, <2>1, <3>1, <3>2 DEF AppliedLast
  <2>2. CASE x # o
    <3>1. applied'[x] = applied[x] /\ AppliedLast(x)
      BY <1>1, <1>5, <2>2 DEF MirrorInv
    <3> QED
      BY <1>1, <2>2, <3>1 DEF AppliedLast
  <2> QED
    BY <2>1, <2>2
<1>8. ASSUME NEW v \in Workers PROVE Validated(worker[v])'
  <2>1. CASE v = w
    <3>1. worker'[w].pc \notin {"check2", "send"}
      BY OnlyQueries, <1>1 DEF ThreadStep, CheckFirst, CheckSecond, At
    <3> QED
      BY <2>1, <3>1 DEF Validated
  <2>2. CASE v # w
    <3>1. worker'[v] = worker[v]
      BY <2>2 DEF SendTaken, SendNeedless, Respond, Become, TypeOK, ThreadsOK
    <3>2. FirstDeps' = FirstDeps
      BY <1>1, DepsKept
    <3> QED
      BY <1>2, <3>1, <3>2 DEF MirrorInv, Validated
  <2> QED
    BY <2>1, <2>2
<1>9. InOrder'
  BY OrderKept DEF MirrorInv
<1> QED
  BY <1>4, <1>7, <1>8, <1>9 DEF MirrorInv

LEMMA NextMirrored ==
  ASSUME Steady, AllSupported, TypeOK, Lifecycle, SteadyInv, MirrorInv,
         [Next]_vars
  PROVE  MirrorInv'
<1>1. NoReturn
  BY NextApart
<1>2. ASSUME NEW w \in Workers, SendTaken(w) \/ SendNeedless(w)
      PROVE  MirrorInv'
  BY <1>1, <1>2, SendMirrored
<1>3. ASSUME NEW w \in Workers, ThreadStep(w) \/ Crash(w),
             ~SendTaken(w), ~SendNeedless(w)
      PROVE  MirrorInv'
  <2>1. UNCHANGED <<accepted, applied>>
    BY <1>3
    DEF ThreadStep, Crash, Wake, Claim, NothingPending, CheckFirst, CheckSecond,
        SendRefused, SendLoginFails, Answered, ReplyNeedless, ReplyJob,
        ReplyNoJob, ReplyRaises, SetMonitoring, ListMonitored, PollJob,
        HandleAnswer, controller
  <2>2. \A v \in Workers \ {w} : worker'[v] = worker[v]
    BY <1>3, OtherThreads
  <2>3. Validated(worker[w])'
    <3>1. CASE CheckFirst(w) \/ CheckSecond(w)
      BY <1>1, <3>1, QueriesValidate
    <3>2. CASE ~CheckFirst(w) /\ ~CheckSecond(w)
      BY <1>3, <3>2, OnlyQueries DEF Validated
    <3> QED
      BY <3>1, <3>2
  <2> QED
    BY <1>1, <2>1, <2>2, <2>3, MirrorKept
<1>4. CASE \/ ApiStep \/ Tick \/ DeleteCompletedRows \/ ResetProcessingRows
           \/ UNCHANGED vars
  <2>1. UNCHANGED <<accepted, applied, worker>>
    BY <1>4, ApiRecords
    DEF NotRecorded, Recorded, Record, Tick, DeleteCompletedRows,
        ResetProcessingRows, vars, controller
  <2> QED
    BY <1>1, <2>1, MirrorKept
<1> QED
  BY <1>2, <1>3, <1>4 DEF Next

LEMMA InitMirrored == Init => MirrorInv
<1> SUFFICES ASSUME Init PROVE MirrorInv
  OBVIOUS
<1>1. Rows = {}
  BY DEF Init, Rows
<1>2. Waiting.pc = "wait"
  BY DEF Waiting
<1>3. /\ \A w \in Workers : worker[w] = Waiting
      /\ accepted = {} /\ \A o \in Objects : applied[o] = 0
  BY DEF Init
<1> QED
  BY <1>1, <1>2, <1>3
  DEF MirrorInv, InOrder, Validated, OrderFinal, AppliedLast

LEMMA MirrorInvariant ==
  ASSUME Steady, AllSupported
  PROVE  Spec => [](IInv /\ SteadyInv /\ MirrorInv)
<1>1. Init => SteadyInv /\ MirrorInv
  BY InitApart, InitMirrored
<1>2. IInv /\ SteadyInv /\ MirrorInv /\ [Next]_vars
         => (SteadyInv /\ MirrorInv)'
  BY NextApart, NextMirrored DEF IInv
<1> QED
  BY <1>1, <1>2, Invariant, PTL DEF Spec

\* DrainedMirror to the second, which is as far as created_at and
\* check_for_older_ops tell rows apart: of each object the controller then holds
\* an operation than which none was recorded in a later second.
DrainedToTheSecond ==
    Drained => \A o \in Objects : \A r \in RowsOf(o) :
                  /\ applied[o] \in RowsOf(o)
                  /\ entry[r].at <= entry[applied[o]].at

\* Once every row is done with, what the controller holds of an object is as
\* late as anything recorded of it.
LEMMA DrainedLatest == IInv /\ MirrorInv => DrainedToTheSecond
<1> SUFFICES ASSUME IInv, MirrorInv, Drained,
                    NEW o \in Objects, NEW r \in RowsOf(o)
             PROVE  /\ applied[o] \in RowsOf(o)
                    /\ entry[r].at <= entry[applied[o]].at
  BY DEF DrainedToTheSecond
<1>1. r \in Rows /\ entry[r].obj = o
  BY DEF RowsOf
<1>2. r \in accepted
  BY <1>1 DEF Drained, IInv, RowsSound
<1>3. AppliedLast(o) /\ accepted \subseteq Rows
  BY DEF MirrorInv, IInv, TypeOK, ControllerOK
<1> QED
  BY <1>1, <1>2, <1>3 DEF AppliedLast, RowsOf

\* Whatever the number of threads, and however often they crash, lose answers
\* or send again: when the journal is drained the controller holds, of each
\* object, an operation of the last second in which one was recorded.
THEOREM DrainedToTheSecondCorrect ==
  ASSUME Steady, AllSupported
  PROVE  Spec => []DrainedToTheSecond
BY MirrorInvariant, DrainedLatest, PTL

\* If no two rows are recorded in one second, that is the last one recorded.
THEOREM DrainedMirrorCorrect ==
  ASSUME Steady, AllSupported, DistinctSeconds
  PROVE  Spec => []DrainedMirror
<1>1. IInv /\ MirrorInv => DrainedMirror
  <2> SUFFICES ASSUME IInv, MirrorInv, Drained,
                      NEW o \in Objects, RowsOf(o) # {}
               PROVE  applied[o] = LastRow(o)
    BY DEF DrainedMirror
  <2>1. TypeOK /\ InOrder
    BY DEF IInv, MirrorInv
  <2>2. /\ applied[o] \in RowsOf(o)
        /\ \A r \in RowsOf(o) : entry[r].at <= entry[applied[o]].at
    BY DrainedLatest DEF DrainedToTheSecond
  <2>3. \A r \in RowsOf(o) : r \in Nat /\ r \in Rows /\ entry[r].at \in Nat
    BY <2>1, EntryFields DEF RowsOf, Rows, TypeOK, NeutronOK, EntriesOK
  <2>4. \A r \in RowsOf(o) : r <= applied[o]
    BY <2>1, <2>2, <2>3 DEF InOrder
  <2>5. ASSUME NEW r \in RowsOf(o), \A q \in RowsOf(o) : q <= r
        PROVE  r = applied[o]
    BY <2>2, <2>3, <2>4, <2>5
  <2> QED
    BY <2>2, <2>4, <2>5 DEF LastRow
<1> QED
  BY <1>1, MirrorInvariant, PTL

\* On the way there, too, no operation ever replaces one of a later second.
THEOREM NeverTakenBackCorrect ==
  ASSUME Steady, AllSupported
  PROVE  Spec => NeverTakenBack
<1>1. ASSUME IInv, MirrorInv, MirrorInv', IInv', [Next]_vars,
             NEW o \in Objects, applied[o] # 0
      PROVE  /\ applied'[o] \in Rows'
             /\ entry[applied[o]].at <= entry'[applied'[o]].at
  <2>1. TypeOK /\ Lifecycle
    BY <1>1 DEF IInv
  <2>2. applied[o] \in accepted /\ applied[o] \in Rows /\ entry[applied[o]].obj = o
    BY <1>1, <2>1 DEF MirrorInv, AppliedLast, TypeOK, ControllerOK
  <2>3. entry'[applied[o]] = entry[applied[o]]
    BY <1>1, <2>1, <2>2, RowsFixed
  <2>4. accepted \subseteq accepted'
    BY <1>1, <2>1, OnlySends DEF SendTaken, Take, SendNeedless
  <2>5. AppliedLast(o)' /\ (accepted \subseteq Rows)'
    BY <1>1 DEF MirrorInv, IInv, TypeOK, ControllerOK
  <2> QED
    BY <2>2, <2>3, <2>4, <2>5 DEF AppliedLast
<1>2. IInv /\ MirrorInv /\ (IInv /\ MirrorInv)' /\ [Next]_vars
         => [\A o \in Objects : applied[o] # 0 =>
                /\ applied'[o] \in Rows'
                /\ entry[applied[o]].at <= entry'[applied'[o]].at]_vars
  BY <1>1
<1> QED
  BY <1>2, MirrorInvariant, PTL DEF Spec, NeverTakenBack

=============================================================================
