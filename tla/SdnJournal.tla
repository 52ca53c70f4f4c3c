----------------------------- MODULE SdnJournal -----------------------------
(***************************************************************************)
(* The journal of the SDN mechanism driver.                                *)
(*                                                                         *)
(* Neutron API workers insert a row for each network and port operation    *)
(* (sdn_mech_driver.py).  In every neutron-server process a journal thread *)
(* claims pending rows, checks their dependencies, sends them to the SDN   *)
(* controller and polls the controller's jobs (journal.py).  A maintenance *)
(* thread deletes old completed rows and puts orphaned rows back           *)
(* (cleanup.py).  The threads share nothing but the journal table, and     *)
(* every write to it except the claim is an UPDATE by primary key that     *)
(* does not look at the state it overwrites.                               *)
(*                                                                         *)
(* Steps are the transactions and the HTTP exchanges: between any two of   *)
(* them, other threads may run and the process may die.                    *)
(***************************************************************************)
EXTENDS JournalDeps, FiniteSets

CONSTANTS
    Workers,            \* journal threads, one per neutron-server process
    RetryLimit,         \* [sdn] retry_count, -1 for no limit
    ProcessingTimeout,  \* [sdn] processing_timeout, in ticks of the clock
    Retention,          \* [sdn] completed_rows_retention, -1 to keep all rows
    Faults,             \* the kinds of failure that may happen
    MaxFaults,          \* bound on how many of them happen
    Timely,             \* no thread holds a row beyond ProcessingTimeout
    DistinctSeconds     \* no two rows are recorded in the same second

FaultKinds == {
    "login",            \* the login before a POST, PUT or DELETE fails
    "rejected",         \* the controller answers with an HTTP error
    "missing",          \* the controller answers 404 to a POST or PUT
    "reply_lost",       \* the controller takes the request, the answer is lost
    "no_job",           \* the answer holds no job id
    "unsupported",      \* the controller answers 501
    "job_failed",       \* the controller's job ends in an error
    "poll_login",       \* the login before a GET fails
    "poll_error",       \* the GET fails
    "poll_garbled",     \* the answer to the GET cannot be read
    "poll_unsupported", \* the controller answers 501 to the GET
    "crash"}            \* a neutron-server process dies and is restarted

ASSUME WorkersAssumption == IsFiniteSet(Workers)
ASSUME RetryAssumption == RetryLimit \in Nat \cup {-1}
ASSUME TimesAssumption == /\ ProcessingTimeout \in Nat
                          /\ Retention \in Nat \cup {-1}
ASSUME FaultsAssumption == Faults \subseteq FaultKinds /\ MaxFaults \in Nat
ASSUME FlagsAssumption == Timely \in BOOLEAN /\ DistinctSeconds \in BOOLEAN

VARIABLES
    \* Neutron
    neutron,    \* what Neutron knows of each network and port
    now,        \* the second on the database's clock
    \* the journal table, next to "entry"
    state,      \* "absent": not inserted yet, or deleted
    age,        \* ticks since last_retried, up to MaxAge
    hasJob,     \* job_id is not NULL
    retries,    \* retry_count
    \* the journal threads
    worker,
    \* the SDN controller
    applied,    \* the last row taken for each object
    \* history
    accepted,   \* rows the controller took, or refused for good
    finished,   \* rows it has finished, or refused for good
    dropped,    \* rows marked "failed"
    faults      \* how many failures have happened

neutronVars == <<neutron, entry, now>>
table       == <<state, age, hasJob, retries>>
controller  == <<applied, accepted, finished>>
vars == <<neutronVars, table, worker, controller, dropped, faults>>

\* Beyond both timeouts only the order of two ages matters.
LongestTimeout == IF Retention > ProcessingTimeout THEN Retention
                                                   ELSE ProcessingTimeout
MaxAge == LongestTimeout + MaxRows

RowStates == {"absent", "pending", "processing", "monitoring", "completed",
              "failed"}

\* Where a journal thread stands.
Places == {"wait",    \* event.wait()
           "claim",   \* get_oldest_pending_db_row_with_lock
           "check1",  \* first query of the validator
           "check2",  \* second query of the validator
           "send",    \* the request
           "reply",   \* the branches on its response
           "monitor", \* between the writes of job_id and of the state
           "list",    \* get_all_monitoring_db_row_by_oldest
           "poll",    \* the loop over the rows listed
           "answer"}  \* the branches on a job's status
\* What came back from a request: a job id, an answer without one, an HTTP
\* status, or nothing (an error status or no answer at all); from a poll, how
\* the job ended.
Statuses == {"none", "job", "no_job", "not_found", "not_implemented", "error",
             "Completed", "Failed"}

Thread == [pc     : Places,
           row    : 0 .. MaxRows,    \* the row in hand
           tries  : Nat,             \* its retry_count when it was read
           status : Statuses,
           todo   : SUBSET RowIds,   \* monitored rows still to poll
           seen   : BOOLEAN]         \* job_status is bound

Waiting == [pc |-> "wait", row |-> 0, tries |-> 0, status |-> "none",
            todo |-> {}, seen |-> FALSE]

Holding == {"check1", "check2", "send", "reply", "monitor"}

\* A thread with a row in hand has one, and polls only while it has some left.
ThreadOK(t) == /\ t.pc \in Holding \cup {"answer"} => t.row \in Rows
               /\ t.pc = "poll" => t.todo # {}
               /\ t.todo \subseteq Rows

NeutronOK == /\ neutron \in [Objects -> {"absent", "live", "deleted"}]
             /\ EntriesOK
             /\ now \in 0 .. MaxRows

TableOK == /\ state \in [RowIds -> RowStates]
           /\ age \in [RowIds -> 0 .. MaxAge]
           /\ hasJob \in [RowIds -> BOOLEAN]
           /\ retries \in [RowIds -> Nat]

ThreadsOK == /\ worker \in [Workers -> Thread]
             /\ \A w \in Workers : ThreadOK(worker[w])

ControllerOK == /\ applied \in [Objects -> 0 .. MaxRows]
                /\ accepted \subseteq Rows
                /\ finished \subseteq Rows

TypeOK == /\ NeutronOK
          /\ TableOK
          /\ ThreadsOK
          /\ ControllerOK
          /\ dropped \subseteq Rows
          /\ faults \in 0 .. MaxFaults

Init == /\ neutron = [o \in Objects |-> "absent"]
        /\ entry = <<>>
        /\ now = 0
        /\ state = [r \in RowIds |-> "absent"]
        /\ age = [r \in RowIds |-> 0]
        /\ hasJob = [r \in RowIds |-> FALSE]
        /\ retries = [r \in RowIds |-> 0]
        /\ worker = [w \in Workers |-> Waiting]
        /\ applied = [o \in Objects |-> 0]
        /\ accepted = {}
        /\ finished = {}
        /\ dropped = {}
        /\ faults = 0

-----------------------------------------------------------------------------
(* Recording.  Which operations are journalled depends on the physical     *)
(* network, the device owner and the binding of the port: here, on choice. *)

\* create_pending_row, inside the API worker's transaction.
Record(o, op) ==
    LET r == Len(entry) + 1
    IN  /\ DistinctSeconds =>
              \A q \in Rows : entry[q].at < now
        /\ entry' = Append(entry, [obj |-> o, op |-> op, at |-> now])
        /\ state' = [state EXCEPT ![r] = "pending"]
        /\ age' = [age EXCEPT ![r] = 0]
        /\ UNCHANGED <<now, hasJob, retries, worker, controller, dropped, faults>>

NotRecorded ==
    UNCHANGED <<entry, now, table, worker, controller, dropped, faults>>

LivePorts(n) == {p \in Ports : NetOf[p] = n /\ neutron[p] = "live"}

CreateNetwork(n) == /\ neutron[n] = "absent"
                    /\ neutron' = [neutron EXCEPT ![n] = "live"]
                    /\ Record(n, "post") \/ NotRecorded

UpdateNetwork(n) == /\ neutron[n] = "live"
                    /\ Record(n, "put")
                    /\ UNCHANGED neutron

\* Neutron refuses to delete a network that still has ports.
DeleteNetwork(n) == /\ neutron[n] = "live"
                    /\ LivePorts(n) = {}
                    /\ neutron' = [neutron EXCEPT ![n] = "deleted"]
                    /\ Record(n, "delete") \/ NotRecorded

CreatePort(p) == /\ neutron[p] = "absent"
                 /\ neutron[NetOf[p]] = "live"
                 /\ neutron' = [neutron EXCEPT ![p] = "live"]
                 /\ Record(p, "post") \/ NotRecorded

\* update_port_precommit records a POST, a PUT or a DELETE.
UpdatePort(p) == /\ neutron[p] = "live"
                 /\ \E op \in Ops : Record(p, op)
                 /\ UNCHANGED neutron

\* bind_port runs outside the transactions that update and delete the port, so
\* its POST may come after the DELETE.
BindPort(p) == /\ neutron[p] # "absent"
               /\ Record(p, "post")
               /\ UNCHANGED neutron

DeletePort(p) == /\ neutron[p] = "live"
                 /\ neutron' = [neutron EXCEPT ![p] = "deleted"]
                 /\ Record(p, "delete") \/ NotRecorded

\* Once MaxRows rows are recorded, what Neutron does is of no consequence.
ApiStep == /\ Len(entry) < MaxRows
           /\ \/ \E n \in Nets : \/ CreateNetwork(n)
                                 \/ UpdateNetwork(n)
                                 \/ DeleteNetwork(n)
              \/ \E p \in Ports : \/ CreatePort(p)
                                  \/ UpdatePort(p)
                                  \/ BindPort(p)
                                  \/ DeletePort(p)

-----------------------------------------------------------------------------
(* The journal thread.                                                     *)

Fault(kind) == /\ kind \in Faults
               /\ faults < MaxFaults
               /\ faults' = faults + 1

At(w, place) == worker[w].pc = place
Become(w, thread) == worker' = [worker EXCEPT ![w] = thread]

\* What a thread does between two rows: nothing is left of the last one.
Claiming == [Waiting EXCEPT !.pc = "claim"]
Listing  == [Waiting EXCEPT !.pc = "list"]

\* update_db_row_state: a blind UPDATE, after which the thread goes on as
\* "next".  If the row has been deleted meanwhile, the UPDATE matches nothing,
\* the ORM raises, and run_sync_thread goes back to waiting for its event.
SetState(w, r, s, next) ==
    /\ UNCHANGED <<hasJob, retries>>
    /\ \/ /\ state[r] # "absent"
          /\ state' = [state EXCEPT ![r] = s]
          /\ age' = [age EXCEPT ![r] = 0]
          /\ Become(w, next)
       \/ /\ state[r] = "absent"
          /\ UNCHANGED <<state, age>>
          /\ Become(w, Waiting)

\* run_sync_thread: the event was set, by a postcommit or by the timer.
Wake(w) == /\ At(w, "wait")
           /\ Become(w, Claiming)
           /\ UNCHANGED <<neutronVars, table, controller, dropped, faults>>

Pending == {r \in Rows : state[r] = "pending"}

\* Mutant of Claim: the row found is not marked as processing.
ClaimUnmarked(w, r) ==
    /\ At(w, "claim")
    /\ r \in Pending
    /\ \A q \in Pending : age[q] <= age[r]
    /\ Become(w, [Waiting EXCEPT !.pc = "check1", !.row = r,
                                 !.tries = retries[r]])
    /\ UNCHANGED <<neutronVars, table, controller, dropped, faults>>

Claim(w, r) ==
    /\ At(w, "claim")
    /\ r \in Pending
    /\ \A q \in Pending : age[q] <= age[r]
    /\ state' = [state EXCEPT ![r] = "processing"]
    /\ age' = [age EXCEPT ![r] = 0]
    /\ Become(w, [Waiting EXCEPT !.pc = "check1", !.row = r,
                                 !.tries = retries[r]])
    /\ UNCHANGED <<neutronVars, hasJob, retries, controller, dropped, faults>>

NothingPending(w) ==
    /\ At(w, "claim")
    /\ Pending = {}
    /\ Become(w, Listing)
    /\ UNCHANGED <<neutronVars, table, controller, dropped, faults>>

\* Mutant of Unsent: the queries leave out the rows in processing.
UnsentPending == {r \in Rows : state[r] = "pending"}

\* The filter every query of the validators shares.
Unsent == {r \in Rows : state[r] \in {"pending", "processing"}}

\* One query of the validator: the row goes back to pending if it finds any.
Check(w, deps, next) ==
    \/ /\ deps \cap Unsent = {}
       /\ Become(w, [worker[w] EXCEPT !.pc = next])
       /\ UNCHANGED table
    \/ /\ deps \cap Unsent # {}
       /\ SetState(w, worker[w].row, "pending", Claiming)

CheckFirst(w) ==
    /\ At(w, "check1")
    /\ Check(w, FirstDeps[worker[w].row], "check2")
    /\ UNCHANGED <<neutronVars, controller, dropped, faults>>

\* Mutant of CheckSecond: the validator ends with its first query.
CheckSecondSkipped(w) ==
    /\ At(w, "check2")
    /\ Become(w, [worker[w] EXCEPT !.pc = "send"])
    /\ UNCHANGED <<neutronVars, table, controller, dropped, faults>>

CheckSecond(w) ==
    /\ At(w, "check2")
    /\ Check(w, SecondDeps[worker[w].row], "send")
    /\ UNCHANGED <<neutronVars, controller, dropped, faults>>

-----------------------------------------------------------------------------
(* The controller takes or refuses a request.                              *)

Take(r) == /\ accepted' = accepted \cup {r}
           /\ applied' = [applied EXCEPT ![entry[r].obj] = r]

\* It lacks an object of which the last row it took, if any, was a DELETE.
Lacks(o) == \A q \in {applied[o]} \ {0} : entry[q].op = "delete"

Respond(w, status) ==
    Become(w, [worker[w] EXCEPT !.pc = "reply", !.status = status])

\* It takes the request and starts a job.  The answer may be lost, or may not
\* hold the job's identifier.
SendTaken(w) ==
    /\ At(w, "send")
    /\ Take(worker[w].row)
    /\ \/ Respond(w, "job") /\ UNCHANGED faults
       \/ Respond(w, "no_job") /\ Fault("no_job")
       \/ Respond(w, "error") /\ Fault("reply_lost")
    /\ UNCHANGED <<neutronVars, table, finished, dropped>>

\* It refuses for good: 404 to the DELETE of an object it lacks, and 501.
SendNeedless(w) ==
    LET r == worker[w].row
    IN  /\ At(w, "send")
        /\ \/ /\ entry[r].op = "delete"
              /\ Lacks(entry[r].obj)
              /\ Respond(w, "not_found")
              /\ applied' = [applied EXCEPT ![entry[r].obj] = r]
              /\ UNCHANGED faults
           \/ /\ Fault("unsupported")
              /\ Respond(w, "not_implemented")
              /\ UNCHANGED applied
        /\ accepted' = accepted \cup {r}
        /\ finished' = finished \cup {r}
        /\ UNCHANGED <<neutronVars, table, dropped>>

SendRefused(w) ==
    /\ At(w, "send")
    /\ \/ Respond(w, "error") /\ Fault("rejected")
       \/ /\ Respond(w, "not_found")
          /\ entry[worker[w].row].op # "delete"
          /\ Fault("missing")
    /\ UNCHANGED <<neutronVars, table, controller, dropped>>

\* update_pending_db_row_retry, with the retry_count read by the claim; the
\* thread stops sending and goes on to poll.
SendLoginFails(w) ==
    LET r     == worker[w].row
        tries == worker[w].tries
        spent == tries >= RetryLimit /\ RetryLimit # -1
    IN  /\ At(w, "send")
        /\ Fault("login")
        /\ \/ /\ state[r] # "absent"
              /\ age' = [age EXCEPT ![r] = 0]
              /\ Become(w, Listing)
              /\ \/ /\ spent
                    /\ state' = [state EXCEPT ![r] = "failed"]
                    /\ dropped' = dropped \cup {r}
                    /\ UNCHANGED retries
                 \/ /\ ~spent
                    /\ state' = [state EXCEPT ![r] = "pending"]
                    /\ retries' = [retries EXCEPT ![r] = tries + 1]
                    /\ UNCHANGED dropped
           \/ /\ state[r] = "absent"
              /\ Become(w, Waiting)
              /\ UNCHANGED <<state, age, retries, dropped>>
        /\ UNCHANGED <<neutronVars, hasJob, controller>>

\* Mutant of Raises: the client returns every 404, whatever the method.
RaisesNo404(status, op) == status = "error"

\* _check_rensponse: which responses the client raises instead of returning.
Raises(status, op) == /\ status \notin {"job", "no_job", "not_implemented"}
                      /\ ~(status = "not_found" /\ op = "delete")

Answered(w, test) ==
    /\ At(w, "reply")
    /\ ~Raises(worker[w].status, entry[worker[w].row].op)
    /\ test
    /\ UNCHANGED <<neutronVars, controller, dropped, faults>>

ReplyNeedless(w) ==
    /\ Answered(w, worker[w].status \in {"not_implemented", "not_found"})
    /\ SetState(w, worker[w].row, "completed", Claiming)

\* Mutant of ReplyJob: the state is written before the job id.
ReplyJobStateFirst(w) ==
    /\ Answered(w, worker[w].status = "job")
    /\ SetState(w, worker[w].row, "monitoring",
                [worker[w] EXCEPT !.pc = "monitor", !.status = "none"])

\* update_db_row_job_id, the first of two transactions.
ReplyJob(w) ==
    LET r == worker[w].row
    IN  /\ Answered(w, worker[w].status = "job")
        /\ \/ /\ state[r] # "absent"
              /\ hasJob' = [hasJob EXCEPT ![r] = TRUE]
              /\ age' = [age EXCEPT ![r] = 0]
              /\ Become(w, [worker[w] EXCEPT !.pc = "monitor",
                                             !.status = "none"])
           \/ /\ state[r] = "absent"
              /\ Become(w, Waiting)
              /\ UNCHANGED <<hasJob, age>>
        /\ UNCHANGED <<state, retries>>

\* Without a job id there is only a warning: the row stays in processing.
ReplyNoJob(w) ==
    /\ Answered(w, worker[w].status = "no_job")
    /\ Become(w, Claiming)
    /\ UNCHANGED table

\* "except SDNConnectionError and SDNLoginError" catches SDNLoginError alone:
\* any other failure ends the run, and the row stays in processing.
ReplyRaises(w) ==
    /\ At(w, "reply")
    /\ Raises(worker[w].status, entry[worker[w].row].op)
    /\ Become(w, Waiting)
    /\ UNCHANGED <<neutronVars, table, controller, dropped, faults>>

SetMonitoring(w) ==
    /\ At(w, "monitor")
    /\ SetState(w, worker[w].row, "monitoring", Claiming)
    /\ UNCHANGED <<neutronVars, controller, dropped, faults>>

-----------------------------------------------------------------------------
(* Polling.  The loop goes over the rows as they were when it listed them; *)
(* the order of last_retried in which it does is left open.                *)

Monitored == {r \in Rows : state[r] = "monitoring"}

ListMonitored(w) ==
    /\ At(w, "list")
    /\ Become(w, IF Monitored = {} THEN Waiting
                 ELSE [Waiting EXCEPT !.pc = "poll", !.todo = Monitored])
    /\ UNCHANGED <<neutronVars, table, controller, dropped, faults>>

\* Mutant of PollNext: the loop does not stop after the last row.
PollNextForever(w, r, bound) ==
    [Waiting EXCEPT !.pc = "poll", !.todo = worker[w].todo \ {r},
                    !.seen = bound \/ worker[w].seen]

\* The thread when it is done with row r, having bound job_status or not.
PollNext(w, r, bound) ==
    LET rest == worker[w].todo \ {r}
    IN  IF rest = {} THEN Waiting
        ELSE [Waiting EXCEPT !.pc = "poll", !.todo = rest,
                             !.seen = bound \/ worker[w].seen]

\* A job runs for as long as it likes, and then has ended well or badly.
PollRunning(w, r) == /\ Become(w, PollNext(w, r, TRUE))
                     /\ UNCHANGED <<table, finished, faults>>

PollEnded(w, r) ==
    /\ \/ /\ Become(w, [worker[w] EXCEPT !.pc = "answer", !.row = r,
                                          !.status = "Completed"])
          /\ finished' = finished \cup {r}
          /\ UNCHANGED faults
       \/ /\ Become(w, [worker[w] EXCEPT !.pc = "answer", !.row = r,
                                          !.status = "Failed"])
          /\ Fault("job_failed")
          /\ UNCHANGED finished
    /\ UNCHANGED table

\* The login fails: the row is put back to pending, and the loop ends.
PollLoginFails(w, r) == /\ Fault("poll_login")
                        /\ SetState(w, r, "pending", Waiting)
                        /\ UNCHANGED finished

\* Only SDNLoginError is caught here too: the run ends.
PollRaises(w) == /\ Fault("poll_error") \/ Fault("poll_garbled")
                 /\ Become(w, Waiting)
                 /\ UNCHANGED <<table, finished>>

\* A ValueError while reading the answer is logged, before job_status is bound.
PollUnreadable(w, r) == /\ Fault("poll_garbled")
                        /\ Become(w, PollNext(w, r, FALSE))
                        /\ UNCHANGED <<table, finished>>

\* A 501 is falsy: job_status, of an earlier row, is logged, or is unbound.
PollUnsupported(w, r) ==
    /\ Fault("poll_unsupported")
    /\ \/ /\ worker[w].seen
          /\ SetState(w, r, "pending", PollNext(w, r, FALSE))
       \/ /\ ~worker[w].seen
          /\ Become(w, Waiting)
          /\ UNCHANGED table
    /\ UNCHANGED finished

PollJob(w, r) ==
    /\ At(w, "poll")
    /\ r \in worker[w].todo
    /\ \/ PollRunning(w, r)
       \/ PollEnded(w, r)
       \/ PollLoginFails(w, r)
       \/ PollRaises(w)
       \/ PollUnreadable(w, r)
       \/ PollUnsupported(w, r)
    /\ UNCHANGED <<neutronVars, applied, accepted, dropped>>

\* What the row becomes when its job has ended.
AnswerState(status) == IF status = "Completed" THEN "completed" ELSE "pending"

HandleAnswer(w) ==
    LET r == worker[w].row
    IN  /\ At(w, "answer")
        /\ SetState(w, r, AnswerState(worker[w].status), PollNext(w, r, TRUE))
        /\ UNCHANGED <<neutronVars, controller, dropped, faults>>

ThreadStep(w) == \/ Wake(w)
                 \/ \E r \in RowIds : Claim(w, r)
                 \/ NothingPending(w)
                 \/ CheckFirst(w)
                 \/ CheckSecond(w)
                 \/ SendTaken(w)
                 \/ SendNeedless(w)
                 \/ SendRefused(w)
                 \/ SendLoginFails(w)
                 \/ ReplyNeedless(w)
                 \/ ReplyJob(w)
                 \/ ReplyNoJob(w)
                 \/ ReplyRaises(w)
                 \/ SetMonitoring(w)
                 \/ ListMonitored(w)
                 \/ \E r \in RowIds : PollJob(w, r)
                 \/ HandleAnswer(w)

-----------------------------------------------------------------------------
(* The environment: crashes and time.                                      *)

\* The process dies with its threads and is started again.
Crash(w) == /\ Fault("crash")
            /\ ~At(w, "wait")
            /\ Become(w, Waiting)
            /\ UNCHANGED <<neutronVars, table, controller, dropped>>

\* Who compares last_retried: the maintenance thread, with its two timeouts,
\* and the claim, which needs only the order of the pending rows, so that one
\* of them ages while every younger age is taken by another.
Ages(r) == /\ age[r] < MaxAge
           /\ \/ state[r] = "processing" /\ age[r] <= ProcessingTimeout
              \/ state[r] = "completed" /\ age[r] <= Retention
              \/ /\ state[r] = "pending"
                 /\ \A a \in 0 .. age[r] - 1 : \E q \in Pending : age[q] = a

\* A second passes.  Seconds in which nothing is recorded are not counted.
Tick ==
    /\ Timely => \A w \in Workers :
          worker[w].pc \in Holding => age[worker[w].row] < ProcessingTimeout
    /\ now' = IF \E r \in Rows : entry[r].at = now THEN now + 1 ELSE now
    /\ age' = [r \in RowIds |-> IF Ages(r) THEN age[r] + 1 ELSE age[r]]
    /\ <<now, age>>' # <<now, age>>
    /\ UNCHANGED <<neutron, entry, state, hasJob, retries, worker, controller,
                   dropped, faults>>

-----------------------------------------------------------------------------
(* The maintenance operations, each one transaction.                       *)

Expired == {r \in Rows : state[r] = "completed" /\ age[r] > Retention}

DeleteCompletedRows ==
    /\ Retention # -1
    /\ Expired # {}
    /\ state' = [r \in RowIds |-> IF r \in Expired THEN "absent" ELSE state[r]]
    /\ age' = [r \in RowIds |-> IF r \in Expired THEN 0 ELSE age[r]]
    /\ hasJob' = [r \in RowIds |-> r \notin Expired /\ hasJob[r]]
    /\ UNCHANGED <<neutronVars, retries, worker, controller, dropped, faults>>

\* Mutants of Orphans: the age of the row is not looked at; the rows put back
\* are those in monitoring.
OrphansAnyAge == {r \in Rows : state[r] = "processing"}
OrphansMonitored == {r \in Rows : /\ state[r] = "monitoring"
                                  /\ age[r] > ProcessingTimeout}

Orphans == {r \in Rows : state[r] = "processing" /\ age[r] > ProcessingTimeout}

ResetProcessingRows ==
    /\ Orphans # {}
    /\ state' = [r \in RowIds |-> IF r \in Orphans THEN "pending" ELSE state[r]]
    /\ age' = [r \in RowIds |-> IF r \in Orphans THEN 0 ELSE age[r]]
    /\ UNCHANGED <<neutronVars, hasJob, retries, worker, controller, dropped,
                   faults>>

Next == \/ ApiStep
        \/ \E w \in Workers : ThreadStep(w) \/ Crash(w)
        \/ Tick
        \/ DeleteCompletedRows
        \/ ResetProcessingRows

Spec == Init /\ [][Next]_vars

(***************************************************************************)
(* The timer sets the event at least every sync_timeout, so a waiting      *)
(* thread is always woken, and requests have a timeout; a job that is      *)
(* polled again and again is found to have ended; and the maintenance      *)
(* thread runs every maintenance_interval.                                 *)
(***************************************************************************)
JobEnds(r) == \E w \in Workers : PollJob(w, r) /\ worker'[w].pc = "answer"

Fairness == /\ \A w \in Workers : WF_vars(ThreadStep(w))
            /\ \A r \in RowIds : SF_vars(JobEnds(r))
            /\ WF_vars(Tick)
            /\ WF_vars(ResetProcessingRows)

FairSpec == Spec /\ Fairness

-----------------------------------------------------------------------------
(* Properties.                                                             *)

\* The controller never takes a row before the rows its validator looks for:
\* each was taken earlier or given up (validate and _sync_pending_rows).
CausalOrder == \A r \in accepted : Deps[r] \subseteq accepted \cup dropped

\* The journal implements the order it promises to the controller: besides
\* CausalOrder, no row is ever recorded that one already taken had to wait for.
Order == INSTANCE JournalOrder WITH
    entry <- entry, accepted <- accepted, dropped <- dropped
OrderSpec == Order!OrderSpec

\* A row in monitoring has a job id, although job_id and the state are written
\* by separate transactions and by threads that may die or be overtaken in
\* between: a row _sync_progress_rows lists does not take its "job_id is None"
\* branch.
MonitoringHasJob ==
    \A r \in Rows : state[r] = "monitoring" => hasJob[r]

\* Nothing is lost: a row is completed, and later deleted, only when the
\* controller has finished it, or has refused it for good.
NoLostOperation ==
    \A r \in Rows : state[r] \in {"completed", "absent"} => r \in finished

\* No two journal threads work on the same row
\* (get_oldest_pending_db_row_with_lock, reset_processing_rows).
ExclusiveProcessing ==
    \A v, w \in Workers :
        /\ v # w
        /\ worker[v].pc \in Holding
        /\ worker[w].pc \in Holding
        => worker[v].row # worker[w].row

\* A row the journal is done with is never taken up again by a thread that
\* remembers it from before.
DoneIsFinal ==
    [][\A r \in Rows : state[r] \in {"completed", "failed"} =>
          state'[r] \in {state[r], "absent"}]_vars

\* Once every row has reached the controller, what it holds of each object is
\* the last operation Neutron recorded for it.
Drained == /\ \A r \in Rows : state[r] \in {"completed", "absent"}
           /\ \A w \in Workers : worker[w].pc \notin Holding
LastRow(o) == CHOOSE r \in RowsOf(o) : \A q \in RowsOf(o) : q <= r
DrainedMirror ==
    Drained => \A o \in Objects :
                  RowsOf(o) # {} => applied[o] = LastRow(o)

\* The controller is never taken back: what it holds of an object is replaced
\* only by an operation of the same second or a later one, whichever threads
\* send them and however often (check_for_older_ops, reset_processing_rows).
NeverTakenBack ==
    [][\A o \in Objects : applied[o] # 0 =>
          /\ applied'[o] \in Rows'
          /\ entry[applied[o]].at <= entry'[applied'[o]].at]_vars

\* When failures stop, the journal empties: no row waits or is orphaned for
\* ever (_sync_pending_rows, _sync_progress_rows, cleanup_processing_rows).
EventuallyDrained ==
    <>[](\A r \in Rows : state[r] \in {"completed", "absent"})

\* Properties the sources state and the code does not have.

\* A row is not sent again once the controller has taken it; a login error in
\* _sync_progress_rows is said to be only logged, and polling to be retried.
SentOnce ==
    [][\A w \in Workers : At(w, "send") /\ worker'[w].pc = "reply"
                            => worker[w].row \notin accepted]_vars

\* The help of [sdn] retry_count: a row is tried again that many times before
\* it is marked failed.  Where there is one row, and failures are failures to
\* send it, "faults" counts its failed attempts.
RetriesLimited == RetryLimit # -1 => faults <= RetryLimit + 1

-----------------------------------------------------------------------------
(* The inductive invariant behind CausalOrder, MonitoringHasJob and        *)
(* NoLostOperation.                                                        *)

\* Neutron never goes back: nothing is recorded for an object before it is
\* created or, but for its ports, after its DELETE; and the clock only
\* advances.  So a new row is never one an older row had to wait for.
Lifecycle ==
    /\ now <= Len(entry)
    /\ \A r \in Rows :
          /\ entry[r].at < r
          /\ entry[r].at <= now
          /\ neutron[entry[r].obj] # "absent"
          /\ entry[r].obj \in Nets /\ entry[r].op = "delete"
                => neutron[entry[r].obj] = "deleted"
    /\ \A p \in Ports :
          /\ neutron[p] # "absent" => neutron[NetOf[p]] # "absent"
          /\ neutron[p] = "live" => neutron[NetOf[p]] = "live"

\* The rows nobody has to wait for any more.
Settled == accepted \cup dropped

\* A row that no longer holds others back is settled.
RowsSound ==
    \A r \in Rows :
        /\ state[r] \in {"monitoring", "completed", "absent"} => r \in accepted
        /\ state[r] = "failed" => r \in dropped

\* What a thread is about to write is still true, whoever wrote meanwhile.
ThreadSound(t) ==
    /\ t.pc = "check2" => FirstDeps[t.row] \subseteq Settled
    /\ t.pc = "send" => Deps[t.row] \subseteq Settled
    /\ t.pc = "reply" /\ ~Raises(t.status, entry[t.row].op) =>
          /\ t.row \in accepted
          /\ t.status \in {"not_implemented", "not_found"} => t.row \in finished
    /\ t.pc = "monitor" =>
          t.row \in accepted /\ (state[t.row] # "absent" => hasJob[t.row])
    /\ t.pc = "answer" =>
          t.row \in accepted /\ (t.status = "Completed" => t.row \in finished)
    /\ t.todo \subseteq accepted

ThreadsSound == \A w \in Workers : ThreadSound(worker[w])

IInv == /\ TypeOK
        /\ Lifecycle
        /\ RowsSound
        /\ ThreadsSound
        /\ CausalOrder
        /\ MonitoringHasJob
        /\ NoLostOperation

=============================================================================
