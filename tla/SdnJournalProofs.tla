-------------------------- MODULE SdnJournalProofs --------------------------
(***************************************************************************)
(* Theorems about the journal, for any networks and ports, any number of   *)
(* rows and journal threads, any failures and any timeouts.                *)
(***************************************************************************)
EXTENDS SdnJournal, TLAPS

USE ObjectsAssumption, MaxRowsAssumption, RetryAssumption, TimesAssumption,
    FaultsAssumption

-----------------------------------------------------------------------------
(* Types.                                                                  *)

\* The threads a thread becomes between two rows are well formed.
LEMMA IdleThreads ==
    /\ Waiting \in Thread /\ ThreadOK(Waiting)
    /\ Claiming \in Thread /\ ThreadOK(Claiming)
    /\ Listing \in Thread /\ ThreadOK(Listing)
<1>1. Waiting \in Thread
  BY DEF Waiting, Thread, Places, Statuses
<1>2. Claiming \in Thread /\ Listing \in Thread
  BY <1>1 DEF Claiming, Listing, Thread, Places
<1>3. /\ Waiting.pc = "wait" /\ Waiting.todo = {}
      /\ Claiming.pc = "claim" /\ Claiming.todo = {}
      /\ Listing.pc = "list" /\ Listing.todo = {}
  BY DEF Waiting, Claiming, Listing
<1> QED
  BY <1>1, <1>2, <1>3 DEF ThreadOK, Holding

\* The bound on ages is a number.
LEMMA MaxAgeNat == LongestTimeout \in Int /\ MaxAge \in Nat
BY DEF LongestTimeout, MaxAge

\* A thread may become any well-formed thread.
LEMMA BecomeTypes ==
  ASSUME TypeOK, UNCHANGED entry, NEW w \in Workers, NEW t \in Thread,
         ThreadOK(t), Become(w, t)
  PROVE  ThreadsOK'
BY DEF TypeOK, Become, ThreadOK, Rows, ThreadsOK

\* update_db_row_state keeps the table and the threads well formed.
LEMMA SetStateTypes ==
  ASSUME TypeOK, UNCHANGED entry, NEW w \in Workers, NEW r \in Rows,
         NEW s \in RowStates, NEW t \in Thread, ThreadOK(t),
         SetState(w, r, s, t)
  PROVE  TableOK' /\ ThreadsOK'
<1>1. TableOK'
  BY MaxAgeNat DEF SetState, TypeOK, TableOK
<1>2. Become(w, t) => ThreadsOK'
  BY BecomeTypes
<1>3. Become(w, Waiting) => ThreadsOK'
  BY BecomeTypes, IdleThreads
<1> QED
  BY <1>1, <1>2, <1>3 DEF SetState

\* The thread that goes on to the next row of its list is well formed.
LEMMA PollNextTypes ==
  ASSUME TypeOK, NEW w \in Workers, NEW r, NEW bound \in BOOLEAN
  PROVE  PollNext(w, r, bound) \in Thread /\ ThreadOK(PollNext(w, r, bound))
<1> DEFINE rest == worker[w].todo \ {r}
           t == [Waiting EXCEPT !.pc = "poll", !.todo = rest,
                                !.seen = bound \/ worker[w].seen]
<1>1. /\ worker[w] \in Thread /\ worker[w].todo \subseteq Rows
      /\ worker[w].todo \in SUBSET RowIds /\ worker[w].seen \in BOOLEAN
  BY DEF TypeOK, ThreadsOK, ThreadOK, Thread
<1>2. (bound \/ worker[w].seen) \in BOOLEAN
  OBVIOUS
<1>3. t \in Thread
  BY <1>1, <1>2, IdleThreads DEF Thread, Places
<1>4. rest # {} => ThreadOK(t)
  BY <1>1 DEF Waiting, ThreadOK, Holding
<1> HIDE DEF t
<1>5. PollNext(w, r, bound) = IF rest = {} THEN Waiting ELSE t
  BY DEF PollNext, t
<1> QED
  BY <1>3, <1>4, <1>5, IdleThreads

\* What the entry of a row is made of.
LEMMA EntryFields ==
  ASSUME TypeOK, NEW r \in Rows
  PROVE  /\ entry[r] \in Entry
         /\ entry[r].obj \in Objects
         /\ entry[r].op \in Ops
         /\ entry[r].at \in 0 .. MaxRows
<1>1. entry[r] \in Entry
  BY DEF TypeOK, NeutronOK, EntriesOK, Rows
<1> QED
  BY <1>1 DEF Entry

\* Inserting a row adds it to Rows and leaves the rows before it alone.
LEMMA RecordRows ==
  ASSUME NeutronOK, Len(entry) < MaxRows, NEW o \in Objects, NEW op \in Ops,
         Record(o, op)
  PROVE  /\ EntriesOK'
         /\ Len(entry') = Len(entry) + 1
         /\ Len(entry) + 1 \in RowIds
         /\ Rows' = Rows \cup {Len(entry) + 1}
         /\ \A r \in Rows : entry'[r] = entry[r]
         /\ entry'[Len(entry) + 1] = [obj |-> o, op |-> op, at |-> now]
<1> DEFINE e == [obj |-> o, op |-> op, at |-> now]
<1>1. entry \in Seq(Entry) /\ e \in Entry /\ entry' = Append(entry, e)
  BY DEF NeutronOK, EntriesOK, Record, Entry
<1> HIDE DEF e
<1>2. /\ entry' \in Seq(Entry)
      /\ Len(entry') = Len(entry) + 1
      /\ \A r \in 1 .. Len(entry) : entry'[r] = entry[r]
      /\ entry'[Len(entry) + 1] = e
  BY <1>1
<1> QED
  BY <1>1, <1>2 DEF Rows, RowIds, EntriesOK, e

\* Recording keeps everything well formed.
LEMMA RecordTypes ==
  ASSUME TypeOK, Len(entry) < MaxRows, NEW o \in Objects, NEW op \in Ops,
         Record(o, op)
  PROVE  /\ EntriesOK' /\ (now \in 0 .. MaxRows)'
         /\ TableOK' /\ ThreadsOK' /\ ControllerOK'
         /\ (dropped \subseteq Rows)' /\ (faults \in 0 .. MaxFaults)'
<1>1. /\ EntriesOK' /\ Rows' = Rows \cup {Len(entry) + 1}
      /\ Len(entry) + 1 \in RowIds
  BY RecordRows DEF TypeOK
<1>2. TableOK'
  BY <1>1, MaxAgeNat DEF Record, TypeOK, TableOK, RowStates
<1>3. ThreadsOK'
  BY <1>1 DEF Record, TypeOK, ThreadsOK, ThreadOK
<1> QED
  BY <1>1, <1>2, <1>3 DEF Record, TypeOK, NeutronOK, ControllerOK, controller

\* An API call keeps everything well formed.
LEMMA ApiTypes == TypeOK /\ ApiStep => TypeOK'
<1> SUFFICES ASSUME TypeOK, ApiStep PROVE TypeOK'
  OBVIOUS
<1> DEFINE Rest == /\ EntriesOK' /\ (now \in 0 .. MaxRows)'
                   /\ TableOK' /\ ThreadsOK' /\ ControllerOK'
                   /\ (dropped \subseteq Rows)' /\ (faults \in 0 .. MaxFaults)'
           Live == neutron' \in [Objects -> {"absent", "live", "deleted"}]
<1>1. \A o \in Objects, op \in Ops : Record(o, op) => Rest
  BY RecordTypes DEF ApiStep
<1>2. NotRecorded => Rest
  BY DEF NotRecorded, TypeOK, NeutronOK, EntriesOK, TableOK, ThreadsOK,
         ThreadOK, ControllerOK, Rows, table, controller
<1>3. /\ Nets \subseteq Objects /\ Ports \subseteq Objects
      /\ "post" \in Ops /\ "put" \in Ops /\ "delete" \in Ops
  BY DEF Objects, Ops
<1> HIDE DEF Rest
<1>4. ASSUME NEW n \in Nets,
             CreateNetwork(n) \/ UpdateNetwork(n) \/ DeleteNetwork(n)
      PROVE  Rest /\ Live
  BY <1>1, <1>2, <1>3, <1>4
  DEF CreateNetwork, UpdateNetwork, DeleteNetwork, TypeOK, NeutronOK
<1>5. ASSUME NEW p \in Ports,
             CreatePort(p) \/ UpdatePort(p) \/ BindPort(p) \/ DeletePort(p)
      PROVE  Rest /\ Live
  BY <1>1, <1>2, <1>3, <1>5
  DEF CreatePort, UpdatePort, BindPort, DeletePort, TypeOK, NeutronOK
<1> QED
  BY <1>4, <1>5 DEF ApiStep, Rest, TypeOK, NeutronOK

\* What every step of a journal thread, but for the table and the thread
\* itself, leaves well formed.
LEMMA ThreadStepTypes ==
  ASSUME TypeOK, UNCHANGED neutronVars, TableOK', ThreadsOK',
         UNCHANGED applied \/ \E r \in Rows, o \in Objects :
                                 applied' = [applied EXCEPT ![o] = r],
         UNCHANGED accepted \/ \E r \in Rows : accepted' = accepted \cup {r},
         UNCHANGED finished \/ \E r \in Rows : finished' = finished \cup {r},
         UNCHANGED dropped \/ \E r \in Rows : dropped' = dropped \cup {r},
         UNCHANGED faults \/ \E kind \in FaultKinds : Fault(kind)
  PROVE  TypeOK'
<1>1. NeutronOK' /\ Rows' = Rows
  BY DEF TypeOK, NeutronOK, EntriesOK, Rows, neutronVars
<1>2. Rows \subseteq 0 .. MaxRows
  BY DEF TypeOK, NeutronOK, EntriesOK, Rows
<1>3. (applied \in [Objects -> 0 .. MaxRows])'
  BY <1>2 DEF TypeOK, ControllerOK
<1>4. ControllerOK' /\ (dropped \subseteq Rows)'
  BY <1>1, <1>3 DEF TypeOK, ControllerOK
<1>5. (faults \in 0 .. MaxFaults)'
  BY DEF TypeOK, Fault
<1> QED
  BY <1>1, <1>4, <1>5 DEF TypeOK

\* A step of a journal thread keeps everything well formed.
LEMMA WorkerTypes ==
  ASSUME TypeOK, NEW w \in Workers, ThreadStep(w) \/ Crash(w)
  PROVE  TypeOK'
<1> DEFINE r == worker[w].row
<1>a. /\ worker[w] \in Thread /\ ThreadOK(worker[w])
      /\ Rows \subseteq RowIds /\ worker \in [Workers -> Thread]
  BY DEF TypeOK, ThreadsOK, NeutronOK, EntriesOK, Rows, RowIds
<1>b. worker[w].pc \in Holding \cup {"answer"} => r \in Rows
  BY <1>a DEF ThreadOK
<1>c. r \in Rows => entry[r].obj \in Objects
  BY EntryFields
<1>d. UNCHANGED table => TableOK'
  BY DEF TypeOK, TableOK, table
<1>e. \A k \in {"login", "rejected", "missing", "reply_lost", "no_job",
                "unsupported", "job_failed", "poll_login", "poll_error",
                "poll_garbled", "poll_unsupported", "crash"} : k \in FaultKinds
  BY DEF FaultKinds
<1>f. \A s \in {"pending", "processing", "monitoring", "completed", "failed"} :
         s \in RowStates
  BY DEF RowStates
<1> HIDE DEF r
<1>1. CASE Wake(w) \/ NothingPending(w)
  <2>1. UNCHANGED <<neutronVars, table, controller, dropped, faults>>
    BY <1>1 DEF Wake, NothingPending
  <2>2. ThreadsOK'
    BY <1>1, BecomeTypes, IdleThreads DEF Wake, NothingPending, neutronVars
  <2> QED
    BY <2>1, <2>2, <1>d, ThreadStepTypes DEF controller
<1>2. ASSUME NEW q \in RowIds, Claim(w, q) PROVE TypeOK'
  <2> DEFINE t == [Waiting EXCEPT !.pc = "check1", !.row = q, !.tries = retries[q]]
  <2>1. q \in Rows /\ q \in 0 .. MaxRows /\ retries[q] \in Nat
    BY <1>2 DEF Claim, Pending, RowIds, TypeOK, TableOK
  <2>2. t \in Thread
    BY <2>1, IdleThreads DEF Thread, Places
  <2>3. ThreadOK(t)
    BY <2>1 DEF Waiting, ThreadOK
  <2> HIDE DEF t
  <2>4. ThreadsOK'
    BY <1>2, <2>2, <2>3, BecomeTypes DEF Claim, neutronVars, t
  <2>5. TableOK'
    BY <1>2, <1>f, MaxAgeNat DEF Claim, TypeOK, TableOK
  <2> QED
    BY <1>2, <2>4, <2>5, ThreadStepTypes DEF Claim, controller
<1>3. CASE CheckFirst(w) \/ CheckSecond(w)
  <2> DEFINE t(next) == [worker[w] EXCEPT !.pc = next]
  <2>1. PICK next \in {"check2", "send"} :
          \/ Become(w, t(next)) /\ UNCHANGED table
          \/ SetState(w, r, "pending", Claiming)
    BY <1>3 DEF CheckFirst, CheckSecond, Check, r
  <2>2. t(next) \in Thread
    BY <1>a DEF Thread, Places
  <2>3. ThreadOK(t(next))
    BY <1>3, <1>a DEF CheckFirst, CheckSecond, At, ThreadOK, Holding, Thread
  <2> HIDE DEF t
  <2>4. UNCHANGED <<neutronVars, controller, dropped, faults>> /\ r \in Rows
    BY <1>3, <1>b DEF CheckFirst, CheckSecond, At, Holding
  <2>5. TableOK' /\ ThreadsOK'
    BY <2>1, <2>2, <2>3, <2>4, <1>d, <1>f, BecomeTypes, SetStateTypes, IdleThreads
    DEF neutronVars
  <2> QED
    BY <2>4, <2>5, ThreadStepTypes DEF controller
<1>4. CASE SendTaken(w) \/ SendNeedless(w) \/ SendRefused(w)
  <2> DEFINE t(s) == [worker[w] EXCEPT !.pc = "reply", !.status = s]
  <2>1. PICK s \in Statuses : Become(w, t(s))
    BY <1>4 DEF SendTaken, SendNeedless, SendRefused, Respond, Statuses
  <2>2. t(s) \in Thread
    BY <1>a DEF Thread, Places
  <2>3. r \in Rows /\ worker[w].pc = "send"
    BY <1>4, <1>b DEF SendTaken, SendNeedless, SendRefused, At, Holding
  <2>4. ThreadOK(t(s))
    BY <1>a, <2>3 DEF ThreadOK, Holding, Thread
  <2> HIDE DEF t
  <2>5. UNCHANGED <<neutronVars, table, dropped>>
    BY <1>4 DEF SendTaken, SendNeedless, SendRefused
  <2>6. ThreadsOK' /\ TableOK'
    BY <2>1, <2>2, <2>4, <2>5, <1>d, BecomeTypes DEF neutronVars
  <2>7. /\ \/ UNCHANGED applied
           \/ \E o \in Objects : applied' = [applied EXCEPT ![o] = r]
        /\ UNCHANGED accepted \/ accepted' = accepted \cup {r}
        /\ UNCHANGED finished \/ finished' = finished \cup {r}
    BY <1>4, <1>c, <2>3
    DEF SendTaken, SendNeedless, SendRefused, Take, controller, r
  <2>8. UNCHANGED faults \/ \E kind \in FaultKinds : Fault(kind)
    BY <1>4, <1>e DEF SendTaken, SendNeedless, SendRefused
  <2> QED
    BY <2>3, <2>5, <2>6, <2>7, <2>8, ThreadStepTypes
<1>5. CASE SendLoginFails(w)
  <2>1. r \in Rows
    BY <1>5, <1>b DEF SendLoginFails, At, Holding
  <2>2. worker[w].tries \in Nat
    BY <1>a DEF Thread
  <2>3. TableOK'
    BY <1>5, <1>f, <2>2, MaxAgeNat DEF SendLoginFails, TypeOK, TableOK, r
  <2>4. ThreadsOK'
    BY <1>5, BecomeTypes, IdleThreads DEF SendLoginFails, neutronVars
  <2>5. UNCHANGED dropped \/ dropped' = dropped \cup {r}
    BY <1>5 DEF SendLoginFails, r
  <2> QED
    BY <1>5, <1>e, <2>1, <2>3, <2>4, <2>5, ThreadStepTypes
    DEF SendLoginFails, controller
<1>6. CASE ReplyNeedless(w) \/ SetMonitoring(w)
  <2>1. PICK s \in RowStates : SetState(w, r, s, Claiming)
    BY <1>6, <1>f DEF ReplyNeedless, SetMonitoring, r
  <2>2. UNCHANGED <<neutronVars, controller, dropped, faults>> /\ r \in Rows
    BY <1>6, <1>b DEF ReplyNeedless, SetMonitoring, Answered, At, Holding
  <2>3. TableOK' /\ ThreadsOK'
    BY <2>1, <2>2, SetStateTypes, IdleThreads DEF neutronVars
  <2> QED
    BY <2>2, <2>3, ThreadStepTypes DEF controller
<1>7. CASE ReplyJob(w)
  <2> DEFINE t == [worker[w] EXCEPT !.pc = "monitor", !.status = "none"]
  <2>1. UNCHANGED <<neutronVars, controller, dropped, faults>> /\ r \in Rows
    BY <1>7, <1>b DEF ReplyJob, Answered, At, Holding
  <2>2. t \in Thread
    BY <1>a DEF Thread, Places, Statuses
  <2>3. ThreadOK(t)
    BY <1>7, <1>a DEF ReplyJob, Answered, At, ThreadOK, Holding, Thread
  <2> HIDE DEF t
  <2>4. ThreadsOK'
    BY <1>7, <2>1, <2>2, <2>3, BecomeTypes, IdleThreads
    DEF ReplyJob, neutronVars, t
  <2>5. hasJob' \in [RowIds -> BOOLEAN]
    <3>1. hasJob' = hasJob \/ hasJob' = [hasJob EXCEPT ![r] = TRUE]
      BY <1>7 DEF ReplyJob, r
    <3> QED
      BY <3>1 DEF TypeOK, TableOK
  <2>6. age' \in [RowIds -> 0 .. MaxAge] /\ UNCHANGED <<state, retries>>
    BY <1>7, MaxAgeNat DEF ReplyJob, TypeOK, TableOK, r
  <2>7. TableOK'
    BY <2>5, <2>6 DEF TypeOK, TableOK
  <2> QED
    BY <2>1, <2>4, <2>7, ThreadStepTypes DEF controller
<1>8. CASE ReplyNoJob(w) \/ ReplyRaises(w) \/ Crash(w)
  <2>1. UNCHANGED <<neutronVars, table, controller, dropped>>
    BY <1>8 DEF ReplyNoJob, ReplyRaises, Crash, Answered
  <2>2. UNCHANGED faults \/ \E kind \in FaultKinds : Fault(kind)
    BY <1>8, <1>e DEF ReplyNoJob, ReplyRaises, Crash, Answered
  <2>3. ThreadsOK'
    BY <1>8, <2>1, BecomeTypes, IdleThreads
    DEF ReplyNoJob, ReplyRaises, Crash, neutronVars
  <2> QED
    BY <2>1, <2>2, <2>3, <1>d, ThreadStepTypes DEF controller
<1>9. CASE ListMonitored(w)
  <2> DEFINE t == [Waiting EXCEPT !.pc = "poll", !.todo = Monitored]
  <2>1. Monitored \subseteq Rows /\ Monitored \in SUBSET RowIds
    BY <1>a DEF Monitored
  <2>2. t \in Thread
    BY <2>1, IdleThreads DEF Thread, Places
  <2>3. Monitored # {} => ThreadOK(t)
    BY <2>1 DEF Waiting, ThreadOK, Holding
  <2> HIDE DEF t
  <2>4. Become(w, IF Monitored = {} THEN Waiting ELSE t)
    BY <1>9 DEF ListMonitored, t
  <2>5. UNCHANGED <<neutronVars, table, controller, dropped, faults>>
    BY <1>9 DEF ListMonitored
  <2>6. ThreadsOK'
    BY <2>2, <2>3, <2>4, <2>5, BecomeTypes, IdleThreads DEF neutronVars
  <2> QED
    BY <2>5, <2>6, <1>d, ThreadStepTypes DEF controller
<1>10. ASSUME NEW q \in RowIds, PollJob(w, q) PROVE TypeOK'
  <2> DEFINE t(s) == [worker[w] EXCEPT !.pc = "answer", !.row = q, !.status = s]
  <2>1. /\ UNCHANGED <<neutronVars, applied, accepted, dropped>>
        /\ q \in Rows /\ q \in 0 .. MaxRows
    BY <1>10, <1>a DEF PollJob, ThreadOK, RowIds
  <2>2. \A s \in Statuses : t(s) \in Thread
    BY <2>1, <1>a DEF Thread, Places
  <2>3. \A s \in Statuses : ThreadOK(t(s))
    BY <2>1, <1>a DEF ThreadOK, Holding, Thread
  <2> HIDE DEF t
  <2>4. "Completed" \in Statuses /\ "Failed" \in Statuses
    BY DEF Statuses
  <2>5. \A b \in BOOLEAN : /\ PollNext(w, q, b) \in Thread
                           /\ ThreadOK(PollNext(w, q, b))
    BY PollNextTypes
  <2>6. UNCHANGED faults \/ \E kind \in FaultKinds : Fault(kind)
    BY <1>10, <1>e
    DEF PollJob, PollRunning, PollEnded, PollLoginFails, PollRaises,
        PollUnreadable, PollUnsupported
  <2>7. UNCHANGED finished \/ finished' = finished \cup {q}
    BY <1>10
    DEF PollJob, PollRunning, PollEnded, PollLoginFails, PollRaises,
        PollUnreadable, PollUnsupported
  <2>8. CASE PollRunning(w, q) \/ PollUnreadable(w, q)
    <3>1. TableOK' /\ ThreadsOK'
      BY <2>8, <2>1, <2>5, <1>d, BecomeTypes
      DEF PollRunning, PollUnreadable, neutronVars
    <3> QED
      BY <3>1, <2>1, <2>6, <2>7, ThreadStepTypes
  <2>9. CASE PollEnded(w, q)
    <3>1. \E s \in Statuses : Become(w, t(s))
      BY <2>9, <2>4 DEF PollEnded, t
    <3>2. TableOK' /\ ThreadsOK'
      BY <3>1, <2>9, <2>1, <2>2, <2>3, <1>d, BecomeTypes
      DEF PollEnded, neutronVars
    <3> QED
      BY <3>2, <2>1, <2>6, <2>7, ThreadStepTypes
  <2>10. CASE PollLoginFails(w, q) \/ PollRaises(w)
    <3>1. TableOK' /\ ThreadsOK'
      BY <2>10, <2>1, <1>d, <1>f, BecomeTypes, SetStateTypes, IdleThreads
      DEF PollLoginFails, PollRaises, neutronVars
    <3> QED
      BY <3>1, <2>1, <2>6, <2>7, ThreadStepTypes
  <2>11. CASE PollUnsupported(w, q)
    <3>1. TableOK' /\ ThreadsOK'
      BY <2>11, <2>1, <2>5, <1>d, <1>f, BecomeTypes, SetStateTypes, IdleThreads
      DEF PollUnsupported, neutronVars
    <3> QED
      BY <3>1, <2>1, <2>6, <2>7, ThreadStepTypes
  <2> QED
    BY <1>10, <2>8, <2>9, <2>10, <2>11 DEF PollJob
<1>11. CASE HandleAnswer(w)
  <2>1. /\ UNCHANGED <<neutronVars, controller, dropped, faults>>
        /\ r \in Rows
        /\ SetState(w, r, AnswerState(worker[w].status), PollNext(w, r, TRUE))
    BY <1>11, <1>b DEF HandleAnswer, At, r
  <2>2. AnswerState(worker[w].status) \in RowStates
    BY <1>f DEF AnswerState
  <2>3. /\ PollNext(w, r, TRUE) \in Thread
        /\ ThreadOK(PollNext(w, r, TRUE))
    BY PollNextTypes
  <2>4. TableOK' /\ ThreadsOK'
    BY <2>1, <2>2, <2>3, SetStateTypes DEF neutronVars
  <2> QED
    BY <2>1, <2>4, ThreadStepTypes DEF controller
<1> QED
  BY <1>1, <1>2, <1>3, <1>4, <1>5, <1>6, <1>7, <1>8, <1>9, <1>10, <1>11
  DEF ThreadStep

\* Time and maintenance keep everything well formed.
LEMMA EnvironmentTypes ==
  ASSUME TypeOK, Lifecycle, Tick \/ DeleteCompletedRows \/ ResetProcessingRows
  PROVE  TypeOK'
<1>1. CASE Tick
  <2>1. (now \in 0 .. MaxRows)'
    <3>1. ASSUME NEW r \in Rows, entry[r].at = now PROVE now + 1 <= MaxRows
      <4>1. now < r
        BY <3>1 DEF Lifecycle
      <4>2. r \in Nat /\ r <= Len(entry) /\ Len(entry) <= MaxRows /\ Len(entry) \in Nat
        BY DEF Rows, TypeOK, NeutronOK, EntriesOK
      <4> QED
        BY <4>1, <4>2 DEF TypeOK, NeutronOK
    <3> QED
      BY <1>1, <3>1 DEF Tick, TypeOK, NeutronOK
  <2>2. (age \in [RowIds -> 0 .. MaxAge])'
    BY <1>1, MaxAgeNat DEF Tick, Ages, TypeOK, TableOK
  <2> QED
    BY <1>1, <2>1, <2>2
    DEF Tick, TypeOK, NeutronOK, EntriesOK, TableOK, ThreadsOK, ThreadOK,
        ControllerOK, Rows, controller
<1>2. CASE DeleteCompletedRows
  <2>1. TableOK'
    BY <1>2, MaxAgeNat DEF DeleteCompletedRows, TypeOK, TableOK, RowStates
  <2> QED
    BY <1>2, <2>1
    DEF DeleteCompletedRows, TypeOK, NeutronOK, EntriesOK, ThreadsOK, ThreadOK,
        ControllerOK, Rows, neutronVars, controller
<1>3. CASE ResetProcessingRows
  <2>1. TableOK'
    BY <1>3, MaxAgeNat DEF ResetProcessingRows, TypeOK, TableOK, RowStates
  <2> QED
    BY <1>3, <2>1
    DEF ResetProcessingRows, TypeOK, NeutronOK, EntriesOK, ThreadsOK, ThreadOK,
        ControllerOK, Rows, neutronVars, controller
<1> QED
  BY <1>1, <1>2, <1>3

-----------------------------------------------------------------------------
(* Dependencies.  They are functions of the insertion history, and do not  *)
(* change when a row is added to it.                                       *)

LEMMA DepsKept ==
  ASSUME UNCHANGED entry
  PROVE  /\ Rows' = Rows
         /\ FirstDeps' = FirstDeps
         /\ SecondDeps' = SecondDeps
         /\ Deps' = Deps
BY DEF Rows, FirstDeps, SecondDeps, Deps, OpsOn, OlderOps, PortDeletes

\* A new row can become a dependency of an older one only if it is a network
\* POST or PUT after that network's DELETE, a network POST after a row of one of
\* its ports, a port DELETE after its network's, or if it was created earlier.
\* Neutron and the clock exclude all of these.
LEMMA RecordDeps ==
  ASSUME TypeOK, Lifecycle, Len(entry) < MaxRows,
         NEW o \in Objects, NEW op \in Ops, Record(o, op),
         o \in Nets => neutron[o] # "deleted",
         o \in Nets /\ op = "post" => neutron[o] = "absent",
         o \in Ports /\ op = "delete" => neutron[NetOf[o]] # "deleted"
  PROVE  \A r \in Rows : /\ FirstDeps'[r] = FirstDeps[r]
                         /\ SecondDeps'[r] = SecondDeps[r]
                         /\ Deps'[r] = Deps[r]
<1> DEFINE k == Len(entry) + 1
<1>1. /\ Rows' = Rows \cup {k}
      /\ \A r \in Rows : entry'[r] = entry[r]
      /\ entry'[k] = [obj |-> o, op |-> op, at |-> now]
  BY RecordRows DEF TypeOK
<1>2. k \notin Rows /\ entry'[k].obj = o /\ entry'[k].op = op /\ entry'[k].at = now
  BY <1>1 DEF Rows, TypeOK, NeutronOK, EntriesOK
<1> HIDE DEF k
<1> SUFFICES ASSUME NEW r \in Rows
             PROVE  /\ FirstDeps'[r] = FirstDeps[r]
                    /\ SecondDeps'[r] = SecondDeps[r]
                    /\ Deps'[r] = Deps[r]
  OBVIOUS
<1>3. r \in Rows' /\ entry'[r] = entry[r]
  BY <1>1
<1>4. /\ entry[r].obj \in Objects /\ entry[r].at \in Nat /\ now \in Nat
      /\ entry[r].at <= now /\ neutron[entry[r].obj] # "absent"
  BY EntryFields DEF Lifecycle, TypeOK, NeutronOK
<1>5. (OlderOps(r))' = OlderOps(r)
  BY <1>1, <1>2, <1>3, <1>4 DEF OlderOps
<1>6. CASE entry[r].obj \in Nets /\ entry[r].op = "delete"
  <2>1. neutron[entry[r].obj] = "deleted"
    BY <1>6 DEF Lifecycle
  <2>2. /\ entry[r].obj # o
        /\ o \in Ports /\ op = "delete" => NetOf[o] # entry[r].obj
    BY <1>6, <2>1
  <2>3. (OpsOn(entry[r].obj, {"post", "put"}))' = OpsOn(entry[r].obj, {"post", "put"})
    BY <1>1, <1>2, <1>3, <2>2 DEF OpsOn
  <2>4. (PortDeletes(entry[r].obj))' = PortDeletes(entry[r].obj)
    <3>1. k \notin (PortDeletes(entry[r].obj))'
      BY <1>2, <1>3, <2>2 DEF PortDeletes
    <3>2. \A q \in Rows : q \in (PortDeletes(entry[r].obj))'
                             <=> q \in PortDeletes(entry[r].obj)
      BY <1>1, <1>3 DEF PortDeletes
    <3>3. /\ (PortDeletes(entry[r].obj))' \subseteq Rows'
          /\ PortDeletes(entry[r].obj) \subseteq Rows
      BY DEF PortDeletes
    <3> QED
      BY <1>1, <3>1, <3>2, <3>3
  <2> QED
    BY <1>3, <1>6, <2>3, <2>4 DEF FirstDeps, SecondDeps, Deps
<1>7. CASE entry[r].obj \in Nets /\ entry[r].op # "delete"
  BY <1>3, <1>5, <1>7 DEF FirstDeps, SecondDeps, Deps
<1>8. CASE entry[r].obj \in Ports
  <2>1. entry[r].obj \notin Nets /\ NetOf[entry[r].obj] \in Nets
    BY <1>8
  <2>2. neutron[NetOf[entry[r].obj]] # "absent"
    BY <1>4, <1>8 DEF Lifecycle
  <2>3. NetOf[entry[r].obj] # o \/ op # "post"
    BY <2>1, <2>2
  <2>4. (OpsOn(NetOf[entry[r].obj], {"post"}))' = OpsOn(NetOf[entry[r].obj], {"post"})
    BY <1>1, <1>2, <1>3, <2>3 DEF OpsOn
  <2> QED
    BY <1>3, <1>5, <1>8, <2>1, <2>4 DEF FirstDeps, SecondDeps, Deps
<1> QED
  BY <1>4, <1>6, <1>7, <1>8 DEF Objects

-----------------------------------------------------------------------------
(* The life of networks and ports.                                         *)

\* Neutron goes only forward, and deletes a network after its ports.
LEMMA ApiNeutron ==
  ASSUME TypeOK, Lifecycle, ApiStep
  PROVE  /\ \A o \in Objects : neutron[o] # "absent" => neutron'[o] # "absent"
         /\ \A n \in Nets : neutron[n] = "deleted" => neutron'[n] = "deleted"
         /\ \A p \in Ports :
               /\ neutron'[p] # "absent" => neutron'[NetOf[p]] # "absent"
               /\ neutron'[p] = "live" => neutron'[NetOf[p]] = "live"
<1>1. /\ neutron \in [Objects -> {"absent", "live", "deleted"}]
      /\ \A p \in Ports : NetOf[p] \in Nets /\ p \notin Nets
      /\ Nets \subseteq Objects /\ Ports \subseteq Objects
  BY DEF TypeOK, NeutronOK, Objects
<1>2. \A p \in Ports : /\ neutron[p] # "absent" => neutron[NetOf[p]] # "absent"
                       /\ neutron[p] = "live" => neutron[NetOf[p]] = "live"
  BY DEF Lifecycle
<1>3. ASSUME NEW n \in Nets, CreateNetwork(n)
      PROVE  neutron' = [neutron EXCEPT ![n] = "live"] /\ neutron[n] = "absent"
  BY <1>3 DEF CreateNetwork
<1>4. ASSUME NEW n \in Nets, UpdateNetwork(n) PROVE neutron' = neutron
  BY <1>4 DEF UpdateNetwork
<1>5. ASSUME NEW n \in Nets, DeleteNetwork(n)
      PROVE  /\ neutron' = [neutron EXCEPT ![n] = "deleted"]
             /\ \A p \in Ports : NetOf[p] = n => neutron[p] # "live"
  BY <1>5 DEF DeleteNetwork, LivePorts
<1>6. ASSUME NEW p \in Ports, CreatePort(p)
      PROVE  /\ neutron' = [neutron EXCEPT ![p] = "live"]
             /\ neutron[NetOf[p]] = "live"
  BY <1>6 DEF CreatePort
<1>7. ASSUME NEW p \in Ports, UpdatePort(p) \/ BindPort(p)
      PROVE  neutron' = neutron
  BY <1>7 DEF UpdatePort, BindPort
<1>8. ASSUME NEW p \in Ports, DeletePort(p)
      PROVE  neutron' = [neutron EXCEPT ![p] = "deleted"] /\ neutron[p] = "live"
  BY <1>8 DEF DeletePort
<1>9. CASE \E n \in Nets : CreateNetwork(n)
  BY <1>1, <1>2, <1>3, <1>9
<1>10. CASE \E n \in Nets : DeleteNetwork(n)
  BY <1>1, <1>2, <1>5, <1>10
<1>11. CASE \E p \in Ports : CreatePort(p)
  BY <1>1, <1>2, <1>6, <1>11
<1>12. CASE \E p \in Ports : DeletePort(p)
  BY <1>1, <1>2, <1>8, <1>12
<1> QED
  BY <1>2, <1>4, <1>7, <1>9, <1>10, <1>11, <1>12 DEF ApiStep

\* What an API call records, and of what object.
Recorded(o, op) ==
    /\ Record(o, op)
    /\ o \in Nets => neutron[o] # "deleted"
    /\ o \in Nets /\ op = "post" => neutron[o] = "absent"
    /\ o \in Ports /\ op = "delete" => neutron[NetOf[o]] # "deleted"
    /\ neutron'[o] # "absent"
    /\ o \in Nets /\ op = "delete" => neutron'[o] = "deleted"

\* An API call records one operation or none.
LEMMA ApiRecords ==
  ASSUME TypeOK, Lifecycle, ApiStep
  PROVE  NotRecorded \/ \E o \in Objects, op \in Ops : Recorded(o, op)
<1>1. /\ neutron \in [Objects -> {"absent", "live", "deleted"}]
      /\ \A p \in Ports : p \notin Nets
      /\ \A n \in Nets : n \notin Ports
      /\ Nets \subseteq Objects /\ Ports \subseteq Objects
      /\ "post" \in Ops /\ "put" \in Ops /\ "delete" \in Ops
  BY DEF TypeOK, NeutronOK, Objects, Ops
<1>2. \A p \in Ports : neutron[p] = "live" => neutron[NetOf[p]] = "live"
  BY DEF Lifecycle
<1>3. ASSUME NEW n \in Nets, CreateNetwork(n), ~NotRecorded
      PROVE  Recorded(n, "post")
  BY <1>1, <1>3 DEF CreateNetwork, Recorded
<1>4. ASSUME NEW n \in Nets, UpdateNetwork(n) PROVE Recorded(n, "put")
  BY <1>1, <1>4 DEF UpdateNetwork, Recorded
<1>5. ASSUME NEW n \in Nets, DeleteNetwork(n), ~NotRecorded
      PROVE  Recorded(n, "delete")
  BY <1>1, <1>5 DEF DeleteNetwork, Recorded
<1>6. ASSUME NEW p \in Ports, CreatePort(p), ~NotRecorded
      PROVE  Recorded(p, "post")
  BY <1>1, <1>6 DEF CreatePort, Recorded
<1>7. ASSUME NEW p \in Ports, UpdatePort(p)
      PROVE  \E op \in Ops : Recorded(p, op)
  BY <1>1, <1>2, <1>7 DEF UpdatePort, Recorded
<1>8. ASSUME NEW p \in Ports, DeletePort(p), ~NotRecorded
      PROVE  Recorded(p, "delete")
  BY <1>1, <1>2, <1>8 DEF DeletePort, Recorded
<1>9. ASSUME NEW p \in Ports, BindPort(p) PROVE Recorded(p, "post")
  BY <1>1, <1>9 DEF BindPort, Recorded
<1> QED
  BY <1>1, <1>3, <1>4, <1>5, <1>6, <1>7, <1>8, <1>9 DEF ApiStep

\* No step takes Neutron or the clock back.
LEMMA LifecycleKept ==
  ASSUME TypeOK, Lifecycle, ApiStep \/ Tick \/ UNCHANGED neutronVars
  PROVE  Lifecycle'
<1>1. CASE ApiStep
  <2> DEFINE EntryLife(r) ==
        /\ entry[r].at < r
        /\ entry[r].at <= now
        /\ neutron[entry[r].obj] # "absent"
        /\ entry[r].obj \in Nets /\ entry[r].op = "delete"
              => neutron[entry[r].obj] = "deleted"
  <2>1. now' = now
    BY <1>1, ApiRecords DEF NotRecorded, Recorded, Record
  <2>2. /\ \A o \in Objects : neutron[o] # "absent" => neutron'[o] # "absent"
        /\ \A n \in Nets : neutron[n] = "deleted" => neutron'[n] = "deleted"
    BY <1>1, ApiNeutron
  <2>3. ASSUME NEW r \in Rows, entry'[r] = entry[r] PROVE EntryLife(r)'
    <3>1. EntryLife(r) /\ entry[r].obj \in Objects
      BY EntryFields DEF Lifecycle
    <3> QED
      BY <2>1, <2>2, <2>3, <3>1
  <2>4. now \in Nat /\ Len(entry) \in Nat /\ now <= Len(entry)
    BY DEF TypeOK, NeutronOK, EntriesOK, Lifecycle
  <2>5. now' <= Len(entry)' /\ \A r \in Rows' : EntryLife(r)'
    <3>1. CASE NotRecorded
      <4>1. entry' = entry /\ Rows' = Rows
        BY <3>1 DEF NotRecorded, Rows
      <4> HIDE DEF EntryLife
      <4> QED
        BY <2>1, <2>3, <2>4, <4>1
    <3>2. ASSUME NEW o \in Objects, NEW op \in Ops, Recorded(o, op)
          PROVE  now' <= Len(entry)' /\ \A r \in Rows' : EntryLife(r)'
      <4>0. PICK k \in Nat : k = Len(entry) + 1
        BY <2>4
      <4>1. /\ Len(entry') = k
            /\ Rows' = Rows \cup {k}
            /\ \A r \in Rows : entry'[r] = entry[r]
            /\ entry'[k] = [obj |-> o, op |-> op, at |-> now]
        BY <1>1, <3>2, <4>0, RecordRows DEF Recorded, ApiStep, TypeOK
      <4>2. /\ entry'[k].obj = o /\ entry'[k].op = op /\ entry'[k].at = now
            /\ now < k
        BY <2>4, <4>0, <4>1
      <4>3. EntryLife(k)'
        BY <2>1, <2>4, <3>2, <4>2 DEF Recorded
      <4> HIDE DEF EntryLife
      <4> QED
        BY <2>1, <2>3, <2>4, <4>0, <4>1, <4>2, <4>3
    <3> QED
      BY <1>1, <3>1, <3>2, ApiRecords
  <2> QED
    BY <1>1, <2>5, ApiNeutron DEF Lifecycle
<1>2. CASE Tick
  <2>1. UNCHANGED <<neutron, entry>> /\ Rows' = Rows
    BY <1>2 DEF Tick, Rows
  <2>2. now \in Nat /\ Len(entry) \in Nat
    BY DEF TypeOK, NeutronOK, EntriesOK
  <2>3. now <= now' /\ now' <= Len(entry)
    <3>1. ASSUME NEW r \in Rows, entry[r].at = now PROVE now + 1 <= Len(entry)
      BY <2>2, <3>1 DEF Lifecycle, Rows
    <3> QED
      BY <1>2, <2>2, <3>1 DEF Tick, Lifecycle
  <2>4. \A r \in Rows : entry[r].at \in Nat
    BY EntryFields
  <2>5. now' \in Nat
    BY <1>2, <2>2 DEF Tick
  <2> QED
    BY <2>1, <2>2, <2>3, <2>4, <2>5 DEF Lifecycle
<1>3. CASE UNCHANGED neutronVars
  BY <1>3 DEF neutronVars, Lifecycle, Rows
<1> QED
  BY <1>1, <1>2, <1>3

\* A step of a thread or of the maintenance leaves Neutron alone.
LEMMA NeutronKept ==
  ASSUME \/ \E w \in Workers : ThreadStep(w) \/ Crash(w)
         \/ DeleteCompletedRows \/ ResetProcessingRows
  PROVE  UNCHANGED neutronVars
BY DEF ThreadStep, Crash, DeleteCompletedRows, ResetProcessingRows, Wake, Claim,
       NothingPending, CheckFirst, CheckSecond, SendTaken, SendNeedless,
       SendRefused, SendLoginFails, Answered, ReplyNeedless, ReplyJob,
       ReplyNoJob, ReplyRaises, SetMonitoring, ListMonitored, PollJob,
       HandleAnswer

\* A step that changes nothing.
LEMMA StutterTypes == TypeOK /\ Lifecycle /\ UNCHANGED vars => TypeOK' /\ Lifecycle'
BY DEF vars, neutronVars, table, controller, TypeOK, NeutronOK, EntriesOK,
       TableOK, ThreadsOK, ThreadOK, ControllerOK, Rows, Lifecycle

LEMMA InitTypes == Init => TypeOK /\ Lifecycle
<1> SUFFICES ASSUME Init PROVE TypeOK /\ Lifecycle
  OBVIOUS
<1>1. Rows = {} /\ Len(entry) = 0 /\ entry \in Seq(Entry)
  BY DEF Init, Rows
<1>2. NeutronOK /\ Lifecycle
  BY <1>1 DEF Init, NeutronOK, EntriesOK, Lifecycle, Objects
<1>3. TableOK
  BY MaxAgeNat DEF Init, TableOK, RowStates
<1>4. ThreadsOK
  <2>1. Waiting.pc = "wait" /\ ThreadOK(Waiting) /\ Waiting \in Thread
    BY IdleThreads DEF Waiting
  <2>2. \A w \in Workers : worker[w] = Waiting
    BY DEF Init
  <2> QED
    BY <2>1, <2>2 DEF Init, ThreadsOK
<1> QED
  BY <1>1, <1>2, <1>3, <1>4 DEF Init, TypeOK, ControllerOK

LEMMA NextTypes == TypeOK /\ Lifecycle /\ [Next]_vars => TypeOK' /\ Lifecycle'
<1> SUFFICES ASSUME TypeOK, Lifecycle, [Next]_vars PROVE TypeOK' /\ Lifecycle'
  OBVIOUS
<1>1. CASE ApiStep
  BY <1>1, ApiTypes, LifecycleKept
<1>2. ASSUME NEW w \in Workers, ThreadStep(w) \/ Crash(w)
      PROVE  TypeOK' /\ Lifecycle'
  BY <1>2, WorkerTypes, NeutronKept, LifecycleKept
<1>3. CASE Tick \/ DeleteCompletedRows \/ ResetProcessingRows
  BY <1>3, EnvironmentTypes, NeutronKept, LifecycleKept
<1> QED
  BY <1>1, <1>2, <1>3, StutterTypes DEF Next

LEMMA TypeInvariant == Spec => [](TypeOK /\ Lifecycle)
BY InitTypes, NextTypes, PTL DEF Spec

\* Every value stays in its type; in particular the clock, which only ticks
\* after a row was recorded, never passes the number of rows, and the row a
\* journal thread has in hand is one that was recorded.
THEOREM TypeCorrect == Spec => []TypeOK
BY TypeInvariant, PTL

-----------------------------------------------------------------------------
(* Soundness of the table and of the threads.                              *)

\* What the state of one row says of it.
RowSound(r) ==
    /\ state[r] \in {"monitoring", "completed", "absent"} => r \in accepted
    /\ state[r] = "failed" => r \in dropped
    /\ state[r] = "monitoring" => hasJob[r]
    /\ state[r] \in {"completed", "absent"} => r \in finished

Sound == /\ \A r \in Rows : RowSound(r)
         /\ ThreadsSound
         /\ CausalOrder

LEMMA SoundInvariant == IInv <=> TypeOK /\ Lifecycle /\ Sound
BY DEF IInv, Sound, RowSound, RowsSound, MonitoringHasJob, NoLostOperation

\* The history grows, the dependencies of a row are fixed, and a job id, once
\* written, stays as long as the row.
Grows == /\ accepted \subseteq accepted'
         /\ dropped \subseteq dropped'
         /\ finished \subseteq finished'
         /\ \A r \in Rows :
               /\ r \in Rows'
               /\ entry'[r] = entry[r]
               /\ FirstDeps'[r] = FirstDeps[r]
               /\ Deps'[r] = Deps[r]
               /\ hasJob[r] \/ state[r] = "absent"
                     => hasJob'[r] \/ state'[r] = "absent"

\* What a thread knows stays true while the other threads go on.
LEMMA ThreadKept ==
  ASSUME TypeOK, Grows, NEW w \in Workers,
         ThreadSound(worker[w]), worker'[w] = worker[w]
  PROVE  ThreadSound(worker[w])'
<1>1. ThreadOK(worker[w]) /\ worker[w] \in Thread
  BY DEF TypeOK, ThreadsOK
<1>2. worker[w].pc \in Holding \cup {"answer"} => worker[w].row \in Rows
  BY <1>1 DEF ThreadOK
<1>3. Settled \subseteq Settled'
  BY DEF Grows, Settled
<1> QED
  BY <1>2, <1>3 DEF ThreadSound, Grows, Raises, Holding

\* A thread between two rows knows nothing of a row.
Idle(t) == /\ t.pc \in {"wait", "claim", "check1", "list", "poll"}
           /\ t.todo \subseteq accepted

LEMMA IdleSound ==
  ASSUME NEW w, Idle(worker[w]) PROVE ThreadSound(worker[w])
BY DEF Idle, ThreadSound

LEMMA IdleThreadsIdle == Idle(Waiting) /\ Idle(Claiming) /\ Idle(Listing)
<1>1. /\ Waiting.pc = "wait" /\ Waiting.todo = {}
      /\ Claiming.pc = "claim" /\ Claiming.todo = {}
      /\ Listing.pc = "list" /\ Listing.todo = {}
  BY DEF Waiting, Claiming, Listing
<1> QED
  BY <1>1 DEF Idle

LEMMA PollNextIdle ==
  ASSUME NEW w \in Workers, NEW r, NEW bound, ThreadSound(worker[w])
  PROVE  Idle(PollNext(w, r, bound))
<1> DEFINE rest == worker[w].todo \ {r}
           t == [Waiting EXCEPT !.pc = "poll", !.todo = rest,
                                !.seen = bound \/ worker[w].seen]
<1>1. t.pc = "poll" /\ t.todo = rest
  BY DEF Waiting
<1>2. rest \subseteq accepted
  BY DEF ThreadSound
<1> HIDE DEF t
<1>3. PollNext(w, r, bound) = IF rest = {} THEN Waiting ELSE t
  BY DEF PollNext, t
<1> QED
  BY <1>1, <1>2, <1>3, IdleThreadsIdle DEF Idle

\* A step of one thread keeps everything sound if it grows the history, its
\* own knowledge is sound, and the rows and the order are.
LEMMA OneThread ==
  ASSUME TypeOK, Sound, Grows, UNCHANGED entry, NEW w \in Workers, NEW t,
         Become(w, t), ThreadSound(worker[w])',
         \A r \in Rows : RowSound(r)', CausalOrder'
  PROVE  Sound'
<1>1. \A v \in Workers : v # w => worker'[v] = worker[v]
  BY DEF Become, TypeOK, ThreadsOK
<1>2. ASSUME NEW v \in Workers PROVE ThreadSound(worker[v])'
  <2>1. CASE v = w
    BY <2>1
  <2>2. CASE v # w
    BY <1>1, <2>2, ThreadKept DEF Sound, ThreadsSound
  <2> QED
    BY <2>1, <2>2
<1>3. Rows' = Rows
  BY DEF Rows
<1> QED
  BY <1>2, <1>3 DEF Sound, ThreadsSound

\* What is left unchanged stays sound.
LEMMA RowsKept ==
  ASSUME Sound, UNCHANGED <<entry, table, dropped>>,
         accepted \subseteq accepted', finished \subseteq finished'
  PROVE  /\ Grows
         /\ \A r \in Rows : RowSound(r)'
         /\ accepted' = accepted => CausalOrder'
<1>1. Rows' = Rows /\ FirstDeps' = FirstDeps /\ Deps' = Deps
  BY DepsKept
<1>2. Grows
  BY <1>1 DEF Grows, table
<1>3. \A r \in Rows : RowSound(r)'
  BY DEF Sound, RowSound, table
<1> QED
  BY <1>1, <1>2, <1>3 DEF Sound, CausalOrder

\* A thread that only moves on.
LEMMA IdleStep ==
  ASSUME TypeOK, Sound, UNCHANGED <<entry, table, accepted, dropped>>,
         finished \subseteq finished',
         NEW w \in Workers, NEW t, Become(w, t), Idle(t)
  PROVE  Sound'
<1>1. worker'[w] = t
  BY DEF Become, TypeOK, ThreadsOK
<1>2. ThreadSound(worker[w])'
  BY <1>1 DEF Idle, ThreadSound
<1> QED
  BY <1>2, RowsKept, OneThread

\* A thread that writes the state of a row, knowing it to be true.
LEMMA SetStateSound ==
  ASSUME TypeOK, Sound, UNCHANGED <<entry, accepted, finished, dropped>>,
         NEW w \in Workers, NEW r \in Rows, NEW t,
         NEW s \in {"pending", "monitoring", "completed"},
         SetState(w, r, s, t), Idle(t),
         s # "pending" => r \in accepted,
         s = "monitoring" => hasJob[r] \/ state[r] = "absent",
         s = "completed" => r \in finished
  PROVE  Sound'
<1>1. Rows' = Rows /\ FirstDeps' = FirstDeps /\ Deps' = Deps
  BY DepsKept
<1>2. r \in RowIds /\ state \in [RowIds -> RowStates] /\ Rows \subseteq RowIds
  BY DEF TypeOK, NeutronOK, TableOK, EntriesOK, Rows, RowIds
<1>3. CausalOrder'
  BY <1>1 DEF Sound, CausalOrder
<1>4. hasJob' = hasJob
  BY DEF SetState
<1>5. CASE state[r] # "absent" /\ state' = [state EXCEPT ![r] = s] /\ Become(w, t)
  <2>1. ASSUME NEW q \in Rows PROVE RowSound(q)'
    <3>1. q = r => state'[q] = s
      BY <1>2, <1>5
    <3>2. q # r => state'[q] = state[q]
      BY <1>2, <1>5
    <3>3. RowSound(q)
      BY DEF Sound
    <3> QED
      BY <1>4, <1>5, <3>1, <3>2, <3>3 DEF RowSound
  <2>2. Grows
    BY <1>1, <1>2, <1>4, <1>5 DEF Grows
  <2>3. worker'[w] = t
    BY <1>5 DEF Become, TypeOK, ThreadsOK
  <2>4. ThreadSound(worker[w])'
    BY <2>3 DEF Idle, ThreadSound
  <2> QED
    BY <1>3, <1>5, <2>1, <2>2, <2>4, OneThread
<1>6. CASE UNCHANGED state /\ Become(w, Waiting)
  <2>1. Grows /\ \A q \in Rows : RowSound(q)'
    BY <1>1, <1>4, <1>6 DEF Grows, Sound, RowSound
  <2>2. worker'[w] = Waiting
    BY <1>6 DEF Become, TypeOK, ThreadsOK
  <2>3. ThreadSound(worker[w])'
    BY <2>2, IdleThreadsIdle DEF Idle, ThreadSound
  <2> QED
    BY <1>3, <1>6, <2>1, <2>3, OneThread
<1> QED
  BY <1>5, <1>6 DEF SetState

-----------------------------------------------------------------------------
(* Each action keeps the table and the threads sound.                      *)

\* A query of the validator that finds nothing shows its rows are settled.
LEMMA QuerySettles ==
  ASSUME TypeOK, Sound, NEW deps, deps \subseteq Rows, deps \cap Unsent = {}
  PROVE  deps \subseteq Settled
<1> SUFFICES ASSUME NEW d \in deps PROVE d \in Settled
  OBVIOUS
<1>1. d \in Rows /\ d \in RowIds
  BY DEF TypeOK, NeutronOK, EntriesOK, Rows, RowIds
<1>2. state[d] \in {"absent", "monitoring", "completed", "failed"}
  BY <1>1 DEF Unsent, TypeOK, TableOK, RowStates
<1>3. RowSound(d)
  BY <1>1 DEF Sound
<1> QED
  BY <1>2, <1>3 DEF RowSound, Settled

\* The rows a row waits for are rows.
LEMMA DepsAreRows ==
  ASSUME NEW r \in Rows
  PROVE  /\ FirstDeps[r] \subseteq Rows
         /\ SecondDeps[r] \subseteq Rows
         /\ Deps[r] = FirstDeps[r] \cup SecondDeps[r]
<1>1. /\ \A o, ops : OpsOn(o, ops) \subseteq Rows
      /\ \A n : PortDeletes(n) \subseteq Rows
      /\ OlderOps(r) \subseteq Rows
  BY DEF OpsOn, PortDeletes, OlderOps
<1> QED
  BY <1>1 DEF FirstDeps, SecondDeps, Deps

LEMMA CheckSound ==
  ASSUME TypeOK, Sound, NEW w \in Workers, CheckFirst(w) \/ CheckSecond(w)
  PROVE  Sound'
<1> DEFINE r == worker[w].row
           t(next) == [worker[w] EXCEPT !.pc = next]
<1>1. UNCHANGED <<neutronVars, controller, dropped, faults>> /\ r \in Rows
  BY DEF CheckFirst, CheckSecond, At, TypeOK, ThreadsOK, ThreadOK, Holding
<1>2. ThreadSound(worker[w]) /\ worker[w] \in Thread
  BY DEF Sound, ThreadsSound, TypeOK, ThreadsOK
<1>3. UNCHANGED <<entry, accepted, finished, dropped>>
  BY <1>1 DEF neutronVars, controller
<1>4. CASE SetState(w, r, "pending", Claiming)
  BY <1>1, <1>3, <1>4, SetStateSound, IdleThreadsIdle
<1>5. ASSUME NEW next, Become(w, t(next)), UNCHANGED table,
             next = "check2" => FirstDeps[r] \subseteq Settled,
             next = "send" => Deps[r] \subseteq Settled,
             next \in {"check2", "send"}
      PROVE  Sound'
  <2>1. /\ worker'[w].pc = next /\ worker'[w].row = r
        /\ worker'[w].todo = worker[w].todo
    BY <1>2, <1>5 DEF Become, TypeOK, ThreadsOK, Thread
  <2>2. FirstDeps' = FirstDeps /\ Deps' = Deps /\ Settled' = Settled
    BY <1>3, DepsKept DEF Settled
  <2>3. ThreadSound(worker[w])'
    BY <1>2, <1>3, <1>5, <2>1, <2>2 DEF ThreadSound
  <2> QED
    BY <1>3, <1>5, <2>3, RowsKept, OneThread
<1>6. CASE CheckFirst(w) /\ FirstDeps[r] \cap Unsent = {} /\ Become(w, t("check2")) /\ UNCHANGED table
  <2>1. FirstDeps[r] \subseteq Settled
    BY <1>1, <1>6, QuerySettles, DepsAreRows
  <2> QED
    BY <1>5, <1>6, <2>1
<1>7. CASE CheckSecond(w) /\ SecondDeps[r] \cap Unsent = {} /\ Become(w, t("send")) /\ UNCHANGED table
  <2>1. SecondDeps[r] \subseteq Settled
    BY <1>1, <1>7, QuerySettles, DepsAreRows
  <2>2. FirstDeps[r] \subseteq Settled
    BY <1>2, <1>7 DEF CheckSecond, At, ThreadSound
  <2>3. Deps[r] \subseteq Settled
    BY <1>1, <2>1, <2>2, DepsAreRows
  <2> QED
    BY <1>5, <1>7, <2>3
<1> QED
  BY <1>4, <1>6, <1>7 DEF CheckFirst, CheckSecond, Check

\* The controller takes a row, or refuses it for good, only after the rows it
\* had to wait for; other answers leave no trace.
LEMMA SendSound ==
  ASSUME TypeOK, Sound, NEW w \in Workers,
         SendTaken(w) \/ SendNeedless(w) \/ SendRefused(w)
  PROVE  Sound'
<1> DEFINE r == worker[w].row
           t(s) == [worker[w] EXCEPT !.pc = "reply", !.status = s]
<1>1. /\ UNCHANGED <<neutronVars, table, dropped>> /\ r \in Rows
      /\ worker[w].pc = "send"
  BY DEF SendTaken, SendNeedless, SendRefused, At, TypeOK, ThreadsOK, ThreadOK,
         Holding
<1>2. ThreadSound(worker[w]) /\ worker[w] \in Thread
  BY DEF Sound, ThreadsSound, TypeOK, ThreadsOK
<1>3. UNCHANGED <<entry, table, dropped>>
  BY <1>1 DEF neutronVars
<1>4. Deps[r] \subseteq Settled
  BY <1>1, <1>2 DEF ThreadSound
<1>5. PICK s : /\ Become(w, t(s))
               /\ \/ SendTaken(w) /\ s \in {"job", "no_job", "error"}
                  \/ SendNeedless(w) /\ s \in {"not_found", "not_implemented"}
                  \/ /\ SendRefused(w)
                     /\ \/ s = "error"
                        \/ s = "not_found" /\ entry[r].op # "delete"
  BY DEF SendTaken, SendNeedless, SendRefused, Respond
<1>6. /\ accepted' \in {accepted, accepted \cup {r}}
      /\ finished \subseteq finished'
      /\ SendTaken(w) => r \in accepted'
      /\ SendNeedless(w) => r \in accepted' /\ r \in finished'
  BY DEF SendTaken, SendNeedless, SendRefused, Take, controller
<1>7. /\ worker'[w].pc = "reply" /\ worker'[w].row = r
      /\ worker'[w].status = s /\ worker'[w].todo = worker[w].todo
  BY <1>2, <1>5 DEF Become, TypeOK, ThreadsOK, Thread
<1>8. ThreadSound(worker[w])'
  BY <1>2, <1>3, <1>5, <1>6, <1>7 DEF ThreadSound, Raises
<1>9. CausalOrder'
  <2>1. Deps' = Deps
    BY <1>3, DepsKept
  <2> QED
    BY <1>3, <1>4, <1>6, <2>1 DEF Sound, CausalOrder, Settled
<1> QED
  BY <1>3, <1>5, <1>6, <1>8, <1>9, RowsKept, OneThread

\* A login that fails: the row is put back or given up.
LEMMA LoginSound ==
  ASSUME TypeOK, Sound, NEW w \in Workers, SendLoginFails(w)
  PROVE  Sound'
<1> DEFINE r == worker[w].row
<1>1. r \in Rows /\ UNCHANGED <<entry, hasJob, accepted, finished>>
  BY DEF SendLoginFails, At, TypeOK, ThreadsOK, ThreadOK, Holding, neutronVars,
         controller
<1>2. r \in RowIds /\ state \in [RowIds -> RowStates] /\ Rows \subseteq RowIds
  BY <1>1 DEF TypeOK, NeutronOK, TableOK, EntriesOK, Rows, RowIds
<1>3. Rows' = Rows /\ FirstDeps' = FirstDeps /\ Deps' = Deps
  BY <1>1, DepsKept
<1>4. dropped \subseteq dropped'
  BY DEF SendLoginFails
<1>5. PICK t : Become(w, t) /\ Idle(t)
  BY IdleThreadsIdle DEF SendLoginFails
<1>6. \/ UNCHANGED <<state, dropped>>
      \/ /\ state[r] # "absent"
         /\ \/ state' = [state EXCEPT ![r] = "pending"]
            \/ state' = [state EXCEPT ![r] = "failed"] /\ r \in dropped'
  BY DEF SendLoginFails
<1>7. Grows
  BY <1>1, <1>2, <1>3, <1>4, <1>6 DEF Grows
<1>8. ASSUME NEW q \in Rows PROVE RowSound(q)'
  <2>1. q # r => state'[q] = state[q]
    BY <1>2, <1>6
  <2>2. \/ state'[q] = state[q]
        \/ state'[q] = "pending"
        \/ state'[q] = "failed" /\ q \in dropped'
    BY <1>2, <1>6, <2>1
  <2>3. RowSound(q)
    BY DEF Sound
  <2> QED
    BY <1>1, <1>4, <2>2, <2>3 DEF RowSound
<1>9. CausalOrder'
  BY <1>1, <1>3, <1>4 DEF Sound, CausalOrder
<1>10. worker'[w] = t
  BY <1>5 DEF Become, TypeOK, ThreadsOK
<1>11. ThreadSound(worker[w])'
  BY <1>1, <1>5, <1>10 DEF Idle, ThreadSound
<1> QED
  BY <1>1, <1>5, <1>7, <1>8, <1>9, <1>11, OneThread

\* The branches on an answer write what the controller has said.
LEMMA ReplySound ==
  ASSUME TypeOK, Sound, NEW w \in Workers,
         \/ ReplyNeedless(w) \/ ReplyJob(w) \/ ReplyNoJob(w) \/ ReplyRaises(w)
         \/ SetMonitoring(w)
  PROVE  Sound'
<1> DEFINE r == worker[w].row
<1>1. r \in Rows /\ UNCHANGED <<entry, accepted, finished, dropped>>
  BY DEF ReplyNeedless, ReplyJob, ReplyNoJob, ReplyRaises, SetMonitoring,
         Answered, At, TypeOK, ThreadsOK, ThreadOK, Holding, neutronVars,
         controller
<1>2. ThreadSound(worker[w]) /\ worker[w] \in Thread
  BY DEF Sound, ThreadsSound, TypeOK, ThreadsOK
<1>3. CASE ReplyNeedless(w)
  <2>1. r \in accepted /\ r \in finished
    BY <1>2, <1>3 DEF ReplyNeedless, Answered, At, ThreadSound
  <2> QED
    BY <1>1, <1>3, <2>1, SetStateSound, IdleThreadsIdle DEF ReplyNeedless
<1>4. CASE ReplyNoJob(w) \/ ReplyRaises(w)
  BY <1>1, <1>4, IdleStep, IdleThreadsIdle DEF ReplyNoJob, ReplyRaises
<1>5. CASE SetMonitoring(w)
  <2>1. r \in accepted /\ (hasJob[r] \/ state[r] = "absent")
    BY <1>2, <1>5 DEF SetMonitoring, At, ThreadSound
  <2> QED
    BY <1>1, <1>5, <2>1, SetStateSound, IdleThreadsIdle DEF SetMonitoring
<1>6. CASE ReplyJob(w)
  <2> DEFINE t == [worker[w] EXCEPT !.pc = "monitor", !.status = "none"]
  <2>1. UNCHANGED state /\ r \in RowIds /\ hasJob \in [RowIds -> BOOLEAN]
    BY <1>1, <1>6 DEF ReplyJob, TypeOK, NeutronOK, TableOK, EntriesOK, Rows, RowIds
  <2>2. r \in accepted
    BY <1>2, <1>6 DEF ReplyJob, Answered, At, ThreadSound
  <2>3. \A q \in Rows : hasJob[q] => hasJob'[q]
    <3>1. hasJob' = hasJob \/ hasJob' = [hasJob EXCEPT ![r] = TRUE]
      BY <1>6 DEF ReplyJob
    <3>2. \A q \in RowIds : hasJob[q] => hasJob'[q]
      BY <2>1, <3>1, Zenon
    <3>3. Rows \subseteq RowIds
      BY DEF TypeOK, NeutronOK, EntriesOK, Rows, RowIds
    <3> QED
      BY <3>2, <3>3
  <2>4. Rows' = Rows /\ FirstDeps' = FirstDeps /\ Deps' = Deps
    BY <1>1, DepsKept
  <2>5. Grows /\ CausalOrder'
    BY <1>1, <2>1, <2>3, <2>4 DEF Grows, Sound, CausalOrder
  <2>6. \A q \in Rows : RowSound(q)'
    BY <1>1, <2>1, <2>3 DEF Sound, RowSound
  <2>7. CASE Become(w, t) /\ hasJob' = [hasJob EXCEPT ![r] = TRUE]
    <3>1. /\ worker'[w].pc = "monitor" /\ worker'[w].row = r
          /\ worker'[w].todo = worker[w].todo
      BY <1>2, <2>7 DEF Become, TypeOK, ThreadsOK, Thread
    <3>2. hasJob'[r]
      BY <2>1, <2>7
    <3>3. ThreadSound(worker[w])'
      BY <1>1, <1>2, <2>2, <3>1, <3>2 DEF ThreadSound
    <3> QED
      BY <1>1, <2>5, <2>6, <2>7, <3>3, OneThread
  <2>8. CASE Become(w, Waiting)
    <3>1. worker'[w] = Waiting
      BY <2>8 DEF Become, TypeOK, ThreadsOK
    <3>2. ThreadSound(worker[w])'
      BY <1>1, <3>1, IdleThreadsIdle DEF Idle, ThreadSound
    <3> QED
      BY <1>1, <2>5, <2>6, <2>8, <3>2, OneThread
  <2> QED
    BY <1>6, <2>7, <2>8 DEF ReplyJob
<1> QED
  BY <1>3, <1>4, <1>5, <1>6

\* Polling a listed row: the thread listed it because the controller took it.
LEMMA PollSound ==
  ASSUME TypeOK, Sound, NEW w \in Workers,
         (\E r \in RowIds : PollJob(w, r)) \/ HandleAnswer(w)
  PROVE  Sound'
<1>1. UNCHANGED <<entry, accepted, dropped>>
  BY DEF PollJob, HandleAnswer, neutronVars, controller
<1>2. /\ ThreadSound(worker[w]) /\ ThreadOK(worker[w]) /\ worker[w] \in Thread
      /\ worker[w].todo \subseteq Rows /\ worker[w].todo \subseteq accepted
  BY DEF Sound, ThreadsSound, TypeOK, ThreadsOK, ThreadOK, ThreadSound
<1>3. ASSUME NEW r \in RowIds, PollJob(w, r) PROVE Sound'
  <2>1. r \in Rows /\ r \in accepted
    BY <1>2, <1>3 DEF PollJob
  <2>2. \A b : Idle(PollNext(w, r, b))
    BY <1>2, PollNextIdle
  <2>3. CASE PollRunning(w, r) \/ PollUnreadable(w, r)
    <3>1. UNCHANGED <<table, finished>>
      BY <2>3 DEF PollRunning, PollUnreadable
    <3> QED
      BY <1>1, <2>2, <2>3, <3>1, IdleStep DEF PollRunning, PollUnreadable
  <2>4. CASE PollEnded(w, r)
    <3> DEFINE t(s) == [worker[w] EXCEPT !.pc = "answer", !.row = r, !.status = s]
    <3>1. UNCHANGED table /\ finished \subseteq finished'
      BY <2>4 DEF PollEnded
    <3>a. \/ Become(w, t("Completed")) /\ r \in finished'
          \/ Become(w, t("Failed"))
      BY <2>4 DEF PollEnded
    <3>b. "Completed" # "Failed"
      OBVIOUS
    <3> HIDE DEF t
    <3>2. PICK s : Become(w, t(s)) /\ (s = "Completed" => r \in finished')
      BY <3>a, <3>b
    <3>3. /\ worker'[w].pc = "answer" /\ worker'[w].row = r
          /\ worker'[w].status = s /\ worker'[w].todo = worker[w].todo
      BY <1>2, <3>2 DEF Become, TypeOK, ThreadsOK, Thread, t
    <3>4. ThreadSound(worker[w])'
      BY <1>1, <1>2, <2>1, <3>2, <3>3 DEF ThreadSound
    <3> QED
      BY <1>1, <3>1, <3>2, <3>4, RowsKept, OneThread
  <2>5. CASE PollLoginFails(w, r)
    <3>1. SetState(w, r, "pending", Waiting) /\ UNCHANGED finished
      BY <2>5 DEF PollLoginFails
    <3> QED
      BY <1>1, <2>1, <3>1, SetStateSound, IdleThreadsIdle
  <2>6. CASE PollRaises(w)
    BY <1>1, <2>6, IdleStep, IdleThreadsIdle DEF PollRaises
  <2>7. CASE PollUnsupported(w, r)
    <3>1. CASE SetState(w, r, "pending", PollNext(w, r, FALSE)) /\ UNCHANGED finished
      BY <1>1, <2>1, <2>2, <3>1, SetStateSound
    <3>2. CASE Become(w, Waiting) /\ UNCHANGED <<table, finished>>
      BY <1>1, <3>2, IdleStep, IdleThreadsIdle
    <3> QED
      BY <2>7, <3>1, <3>2 DEF PollUnsupported
  <2> QED
    BY <1>3, <2>3, <2>4, <2>5, <2>6, <2>7 DEF PollJob
<1>4. CASE HandleAnswer(w)
  <2> DEFINE r == worker[w].row
             s == AnswerState(worker[w].status)
  <2>1. /\ worker[w].pc = "answer" /\ r \in Rows /\ UNCHANGED finished
        /\ SetState(w, r, s, PollNext(w, r, TRUE))
    BY <1>2, <1>4 DEF HandleAnswer, At, ThreadOK, controller
  <2>2. /\ s \in {"pending", "completed"} /\ r \in accepted
        /\ s = "completed" => r \in finished
    BY <1>2, <2>1 DEF AnswerState, ThreadSound
  <2>3. Idle(PollNext(w, r, TRUE))
    BY <1>2, PollNextIdle
  <2> HIDE DEF s, r
  <2> QED
    BY <1>1, <2>1, <2>2, <2>3, SetStateSound
<1> QED
  BY <1>3, <1>4

\* Taking a row up, or finding nothing to do.
LEMMA ClaimSound ==
  ASSUME TypeOK, Sound, NEW w \in Workers,
         \/ Wake(w) \/ NothingPending(w) \/ ListMonitored(w) \/ Crash(w)
         \/ \E r \in RowIds : Claim(w, r)
  PROVE  Sound'
<1>1. CASE Wake(w) \/ NothingPending(w) \/ Crash(w)
  <2>1. UNCHANGED <<entry, table, accepted, finished, dropped>>
    BY <1>1 DEF Wake, NothingPending, Crash, neutronVars, controller
  <2> QED
    BY <1>1, <2>1, IdleStep, IdleThreadsIdle DEF Wake, NothingPending, Crash
<1>2. CASE ListMonitored(w)
  <2> DEFINE t == [Waiting EXCEPT !.pc = "poll", !.todo = Monitored]
  <2>1. UNCHANGED <<entry, table, accepted, finished, dropped>>
    BY <1>2 DEF ListMonitored, neutronVars, controller
  <2>2. Monitored \subseteq accepted
    BY DEF Monitored, Sound, RowSound
  <2>3. t.pc = "poll" /\ t.todo = Monitored
    BY DEF Waiting
  <2>4. Idle(t)
    BY <2>2, <2>3 DEF Idle
  <2> HIDE DEF t
  <2>5. Become(w, Waiting) \/ Become(w, t)
    BY <1>2 DEF ListMonitored, t
  <2> QED
    BY <2>1, <2>4, <2>5, IdleStep, IdleThreadsIdle
<1>3. ASSUME NEW r \in RowIds, Claim(w, r) PROVE Sound'
  <2> DEFINE t == [Waiting EXCEPT !.pc = "check1", !.row = r, !.tries = retries[r]]
  <2>1. UNCHANGED <<entry, hasJob, accepted, finished, dropped>>
    BY <1>3 DEF Claim, neutronVars, controller
  <2>2. t.pc = "check1" /\ t.todo = {}
    BY DEF Waiting
  <2>3. Idle(t)
    BY <2>2 DEF Idle
  <2> HIDE DEF t
  <2>4. Become(w, t)
    BY <1>3 DEF Claim, t
  <2>5. worker'[w] = t
    BY <2>4 DEF Become, TypeOK, ThreadsOK
  <2>6. ThreadSound(worker[w])'
    BY <2>1, <2>3, <2>5 DEF Idle, ThreadSound
  <2>7. /\ state[r] = "pending" /\ state' = [state EXCEPT ![r] = "processing"]
        /\ state \in [RowIds -> RowStates] /\ Rows \subseteq RowIds
    <3>1. state[r] = "pending" /\ state' = [state EXCEPT ![r] = "processing"]
      BY <1>3 DEF Claim, Pending
    <3> QED
      BY <3>1 DEF TypeOK, NeutronOK, TableOK, EntriesOK, Rows, RowIds
  <2>8. Rows' = Rows /\ FirstDeps' = FirstDeps /\ Deps' = Deps
    BY <2>1, DepsKept
  <2>9. Grows /\ CausalOrder'
    BY <2>1, <2>7, <2>8 DEF Grows, Sound, CausalOrder
  <2>10. ASSUME NEW q \in Rows PROVE RowSound(q)'
    <3>1. state'[q] = state[q] \/ state'[q] = "processing"
      BY <2>7
    <3>2. RowSound(q)
      BY DEF Sound
    <3> QED
      BY <2>1, <3>1, <3>2 DEF RowSound
  <2> QED
    BY <2>1, <2>4, <2>6, <2>9, <2>10, OneThread
<1> QED
  BY <1>1, <1>2, <1>3

\* Steps that touch no journal thread.
LEMMA NoThread ==
  ASSUME TypeOK, Sound, Grows, UNCHANGED worker,
         \A r \in Rows' : RowSound(r)', CausalOrder'
  PROVE  Sound'
<1>1. ASSUME NEW v \in Workers PROVE ThreadSound(worker[v])'
  BY ThreadKept DEF Sound, ThreadsSound
<1> QED
  BY <1>1 DEF Sound, ThreadsSound

\* Time and maintenance change no knowledge: only rows done with are deleted.
LEMMA EnvironmentSound ==
  ASSUME TypeOK, Sound, Tick \/ DeleteCompletedRows \/ ResetProcessingRows
  PROVE  Sound'
<1>1. UNCHANGED <<entry, worker, accepted, finished, dropped>>
  BY DEF Tick, DeleteCompletedRows, ResetProcessingRows, neutronVars, controller
<1>2. Rows' = Rows /\ FirstDeps' = FirstDeps /\ Deps' = Deps
  BY <1>1, DepsKept
<1>3. Rows \subseteq RowIds
  BY DEF TypeOK, NeutronOK, EntriesOK, Rows, RowIds
<1>4. CausalOrder'
  BY <1>1, <1>2 DEF Sound, CausalOrder
<1>5. CASE Tick
  BY <1>1, <1>2, <1>4, <1>5, NoThread DEF Tick, Grows, Sound, RowSound
<1>6. CASE DeleteCompletedRows
  <2>1. ASSUME NEW q \in Rows
        PROVE  \/ state'[q] = state[q] /\ (hasJob[q] <=> hasJob'[q])
               \/ state[q] = "completed" /\ state'[q] = "absent"
    BY <1>3, <1>6 DEF DeleteCompletedRows, Expired
  <2>2. Grows
    BY <1>1, <1>2, <2>1 DEF Grows
  <2>3. \A q \in Rows : RowSound(q)'
    BY <1>1, <2>1 DEF Sound, RowSound
  <2> QED
    BY <1>1, <1>2, <1>4, <2>2, <2>3, NoThread
<1>7. CASE ResetProcessingRows
  <2>1. ASSUME NEW q \in Rows
        PROVE  \/ state'[q] = state[q]
               \/ state[q] = "processing" /\ state'[q] = "pending"
    BY <1>3, <1>7 DEF ResetProcessingRows, Orphans
  <2>2. hasJob' = hasJob
    BY <1>7 DEF ResetProcessingRows
  <2>3. Grows
    BY <1>1, <1>2, <2>1, <2>2 DEF Grows
  <2>4. \A q \in Rows : RowSound(q)'
    BY <1>1, <2>1, <2>2 DEF Sound, RowSound
  <2> QED
    BY <1>1, <1>2, <1>4, <2>3, <2>4, NoThread
<1> QED
  BY <1>5, <1>6, <1>7

\* A new row disturbs nothing that is known of the others.
LEMMA ApiSound ==
  ASSUME TypeOK, Lifecycle, Sound, ApiStep
  PROVE  Sound'
<1>1. CASE NotRecorded
  <2>1. UNCHANGED <<entry, table, worker, accepted, finished, dropped>>
    BY <1>1 DEF NotRecorded, controller
  <2>2. Rows' = Rows
    BY <2>1 DEF Rows
  <2> QED
    BY <2>1, <2>2, RowsKept, NoThread
<1>2. ASSUME NEW o \in Objects, NEW op \in Ops, Recorded(o, op) PROVE Sound'
  <2>0. PICK k \in Nat : k = Len(entry) + 1
    BY DEF TypeOK, NeutronOK, EntriesOK
  <2>1. /\ Rows' = Rows \cup {k} /\ k \in RowIds /\ k \notin Rows
        /\ \A r \in Rows : entry'[r] = entry[r]
    <3>1. NeutronOK /\ Len(entry) < MaxRows /\ Record(o, op)
      BY <1>2 DEF ApiStep, TypeOK, Recorded
    <3>2. k \notin Rows
      BY <2>0, <3>1 DEF NeutronOK, EntriesOK, Rows
    <3> QED
      BY <2>0, <3>1, <3>2, RecordRows
  <2>2. \A r \in Rows : FirstDeps'[r] = FirstDeps[r] /\ Deps'[r] = Deps[r]
    BY <1>2, RecordDeps DEF Recorded, ApiStep
  <2>3. /\ state' = [state EXCEPT ![k] = "pending"]
        /\ UNCHANGED <<hasJob, worker, accepted, finished, dropped>>
    BY <1>2, <2>0 DEF Recorded, Record, controller
  <2>4. state'[k] = "pending" /\ \A r \in Rows : state'[r] = state[r]
    BY <2>1, <2>3 DEF TypeOK, NeutronOK, EntriesOK, TableOK, Rows, RowIds
  <2>5. Grows
    BY <2>1, <2>2, <2>3, <2>4 DEF Grows
  <2>6. \A r \in Rows' : RowSound(r)'
    BY <2>1, <2>3, <2>4 DEF Sound, RowSound
  <2>7. CausalOrder'
    BY <2>2, <2>3 DEF Sound, CausalOrder, TypeOK, ControllerOK
  <2> QED
    BY <2>3, <2>5, <2>6, <2>7, NoThread
<1> QED
  BY <1>1, <1>2, ApiRecords

-----------------------------------------------------------------------------
(* The inductive invariant and the theorems.                               *)

LEMMA InitInvariant == Init => IInv
<1> SUFFICES ASSUME Init PROVE TypeOK /\ Lifecycle /\ Sound
  BY SoundInvariant
<1>1. \A w \in Workers : Idle(worker[w])
  BY IdleThreadsIdle DEF Init
<1>2. ThreadsSound
  BY <1>1, IdleSound DEF ThreadsSound
<1>3. Rows = {} /\ accepted = {}
  BY DEF Init, Rows
<1> QED
  BY <1>2, <1>3, InitTypes DEF Sound, CausalOrder

LEMMA NextInvariant == IInv /\ [Next]_vars => IInv'
<1> SUFFICES ASSUME TypeOK, Lifecycle, Sound, [Next]_vars
             PROVE  TypeOK' /\ Lifecycle' /\ Sound'
  BY SoundInvariant DEF IInv, Sound, RowSound, RowsSound, MonitoringHasJob,
     NoLostOperation
<1>1. ASSUME ApiStep PROVE Sound'
  BY <1>1, ApiSound
<1>2. ASSUME NEW w \in Workers, ThreadStep(w) \/ Crash(w) PROVE Sound'
  BY <1>2, ClaimSound, CheckSound, SendSound, LoginSound, ReplySound, PollSound
  DEF ThreadStep
<1>3. ASSUME Tick \/ DeleteCompletedRows \/ ResetProcessingRows PROVE Sound'
  BY <1>3, EnvironmentSound
<1>4. ASSUME UNCHANGED vars PROVE Sound'
  <2>1. UNCHANGED <<entry, table, worker, accepted, finished, dropped>>
    BY <1>4 DEF vars, neutronVars, controller
  <2>2. Rows' = Rows
    BY <2>1 DEF Rows
  <2> QED
    BY <2>1, <2>2, RowsKept, NoThread
<1> QED
  BY <1>1, <1>2, <1>3, <1>4, NextTypes DEF Next

LEMMA Invariant == Spec => []IInv
BY InitInvariant, NextInvariant, PTL DEF Spec

\* Whatever the threads, the failures and the timeouts, the controller takes
\* no row before the rows it had to wait for were taken or given up.
THEOREM CausalOrderCorrect == Spec => []CausalOrder
<1>1. IInv => CausalOrder
  BY DEF IInv
<1> QED
  BY <1>1, Invariant, PTL

\* A row in monitoring has a job id, although the two are written by separate
\* transactions.
THEOREM MonitoringHasJobCorrect == Spec => []MonitoringHasJob
<1>1. IInv => MonitoringHasJob
  BY DEF IInv
<1> QED
  BY <1>1, Invariant, PTL

\* No row is completed or deleted that the controller has not finished or
\* refused for good.
THEOREM NoLostOperationCorrect == Spec => []NoLostOperation
<1>1. IInv => NoLostOperation
  BY DEF IInv
<1> QED
  BY <1>1, Invariant, PTL

-----------------------------------------------------------------------------
(* The journal implements JournalOrder.                                    *)

\* The abstract specification speaks of the same rows.
LEMMA SameRows ==
  /\ Order!Rows = Rows
  /\ Order!Entry = Entry
  /\ Order!Deps = Deps
  /\ Order!Deps' = Deps'
BY DEF Order!Rows, Order!Entry, Order!Objects, Order!Ops, Order!Deps,
       Order!FirstDeps, Order!SecondDeps, Order!OpsOn, Order!OlderOps,
       Order!PortDeletes, Rows, Entry, Objects, Ops, Deps, FirstDeps,
       SecondDeps, OpsOn, OlderOps, PortDeletes

\* An API call that records an operation is Record.
LEMMA ApiOrder ==
  ASSUME IInv, ApiStep, ~NotRecorded
  PROVE  Order!Record
<1>1. TypeOK /\ Lifecycle
  BY DEF IInv
<1>2. PICK o \in Objects, op \in Ops : Recorded(o, op)
  BY <1>1, ApiRecords
<1>3. Record(o, op) /\ NeutronOK /\ Len(entry) < MaxRows
  BY <1>1, <1>2 DEF Recorded, TypeOK, ApiStep
<1>4. /\ Len(entry') = Len(entry) + 1
      /\ EntriesOK'
      /\ UNCHANGED <<accepted, dropped>>
  BY <1>3, RecordRows DEF Record, controller
<1>5. \E e \in Entry : entry' = Append(entry, e)
  BY <1>3 DEF Record, Entry, NeutronOK
<1>6. ASSUME NEW r \in accepted PROVE Len(entry') \notin Deps'[r]
  <2>1. r \in Rows /\ Len(entry') \notin Rows
    BY <1>1, <1>3, <1>4 DEF TypeOK, ControllerOK, Rows, NeutronOK, EntriesOK
  <2>2. Deps'[r] = Deps[r]
    BY <1>1, <1>2, <2>1, RecordDeps DEF Recorded, ApiStep
  <2> QED
    BY <2>1, <2>2, DepsAreRows
<1> QED
  BY <1>4, <1>5, <1>6, SameRows DEF Order!Record, EntriesOK

\* The controller's answer to a request is Accept, a row given up is GiveUp,
\* and no other step of a thread changes the order.
LEMMA ThreadOrder ==
  ASSUME IInv, NEW w \in Workers, ThreadStep(w) \/ Crash(w)
  PROVE  Order!Accept \/ Order!GiveUp \/ UNCHANGED <<entry, accepted, dropped>>
<1> DEFINE r == worker[w].row
<1>1. UNCHANGED entry
  BY NeutronKept DEF neutronVars
<1>2. worker[w].pc = "send" => r \in Rows /\ Deps[r] \subseteq accepted \cup dropped
  BY DEF IInv, TypeOK, ThreadsOK, ThreadOK, Holding, ThreadsSound, ThreadSound,
         Settled
<1>3. CASE SendTaken(w) \/ SendNeedless(w)
  <2>1. /\ worker[w].pc = "send" /\ accepted' = accepted \cup {r}
        /\ UNCHANGED dropped
    BY <1>3 DEF SendTaken, SendNeedless, Take, At
  <2> QED
    BY <1>1, <1>2, <2>1, SameRows DEF Order!Accept
<1>4. CASE SendLoginFails(w)
  <2>1. /\ worker[w].pc = "send" /\ UNCHANGED accepted
        /\ dropped' = dropped \/ dropped' = dropped \cup {r}
    BY <1>4 DEF SendLoginFails, At, controller
  <2> QED
    BY <1>1, <1>2, <2>1, SameRows DEF Order!GiveUp
<1>5. CASE ~(SendTaken(w) \/ SendNeedless(w) \/ SendLoginFails(w))
  <2>1. UNCHANGED <<accepted, dropped>>
    BY <1>5
    DEF ThreadStep, Crash, Wake, Claim, NothingPending, CheckFirst, CheckSecond,
        SendRefused, Answered, ReplyNeedless, ReplyJob, ReplyNoJob, ReplyRaises,
        SetMonitoring, ListMonitored, PollJob, HandleAnswer, controller
  <2> QED
    BY <1>1, <2>1
<1> QED
  BY <1>3, <1>4, <1>5

\* The journal keeps the promise of JournalOrder: rows reach the controller in
\* an order that respects their dependencies, and none is ever recorded that a
\* row already taken would have had to wait for.
THEOREM OrderCorrect == Spec => OrderSpec
<1>1. Init => Order!OrderInit
  BY DEF Init, Order!OrderInit
<1>2. IInv /\ [Next]_vars => [Order!OrderNext]_Order!orderVars
  <2> SUFFICES ASSUME IInv, [Next]_vars
               PROVE  \/ Order!Record \/ Order!Accept \/ Order!GiveUp
                      \/ UNCHANGED <<entry, accepted, dropped>>
    BY DEF Order!OrderNext, Order!orderVars
  <2>1. CASE ApiStep
    BY <2>1, ApiOrder DEF NotRecorded, controller
  <2>2. ASSUME NEW w \in Workers, ThreadStep(w) \/ Crash(w)
        PROVE  \/ Order!Accept \/ Order!GiveUp
               \/ UNCHANGED <<entry, accepted, dropped>>
    BY <2>2, ThreadOrder
  <2>3. CASE \/ Tick \/ DeleteCompletedRows \/ ResetProcessingRows
             \/ UNCHANGED vars
    BY <2>3 DEF Tick, DeleteCompletedRows, ResetProcessingRows, vars,
                neutronVars, controller
  <2> QED
    BY <2>1, <2>2, <2>3 DEF Next
<1> QED
  BY <1>1, <1>2, Invariant, PTL DEF Spec, OrderSpec, Order!OrderSpec

-----------------------------------------------------------------------------
(* The order alone, whatever implements it.                                *)

\* What the abstract specification keeps.
OrderInv == EntriesOK /\ accepted \subseteq Rows /\ CausalOrder

\* A row of the order waits for no row recorded after it was taken.
LEMMA LaterDeps ==
  ASSUME OrderInv, Order!Record, NEW r \in accepted
  PROVE  r \in Rows' /\ Deps'[r] \subseteq Deps[r]
<1>1. PICK e \in Entry : entry' = Append(entry, e)
  BY SameRows DEF Order!Record
<1>2. entry \in Seq(Entry) /\ r \in Rows
  BY DEF OrderInv, EntriesOK
<1>3. /\ Rows' = Rows \cup {Len(entry')}
      /\ \A q \in Rows : entry'[q] = entry[q]
  BY <1>1, <1>2 DEF Rows
<1>4. Len(entry') \notin Deps'[r]
  BY SameRows DEF Order!Record
<1> DEFINE k == Len(entry')
<1> HIDE DEF k
<1>5. \A o, ops : (OpsOn(o, ops))' \subseteq OpsOn(o, ops) \cup {k}
  BY <1>3 DEF OpsOn, k
<1>6. \A n : (PortDeletes(n))' \subseteq PortDeletes(n) \cup {k}
  BY <1>3 DEF PortDeletes, k
<1>7. (OlderOps(r))' \subseteq OlderOps(r) \cup {k}
  BY <1>2, <1>3 DEF OlderOps, k
<1>8. r \in Rows' /\ entry'[r] = entry[r]
  BY <1>2, <1>3
<1>9. /\ FirstDeps'[r] \subseteq FirstDeps[r] \cup {k}
      /\ SecondDeps'[r] \subseteq SecondDeps[r] \cup {k}
  BY <1>2, <1>5, <1>6, <1>7, <1>8 DEF FirstDeps, SecondDeps
<1>10. Deps'[r] \subseteq Deps[r] \cup {k}
  BY <1>2, <1>8, <1>9 DEF Deps
<1> QED
  BY <1>4, <1>8, <1>10 DEF k

\* JournalOrder is all of the promise: in whatever way it is kept, with or
\* without threads, retries and resets, no operation ever stands at the
\* controller, now or after more are recorded, without those it waits for.
THEOREM OrderGivesCausality == OrderSpec => []CausalOrder
<1>1. Order!OrderInit => OrderInv
  BY DEF Order!OrderInit, OrderInv, EntriesOK, CausalOrder, Rows
<1>2. OrderInv /\ [Order!OrderNext]_Order!orderVars => OrderInv'
  <2> SUFFICES ASSUME OrderInv, [Order!OrderNext]_Order!orderVars
               PROVE  OrderInv'
    OBVIOUS
  <2>1. CASE Order!Record
    <3>1. EntriesOK' /\ Rows \subseteq Rows' /\ UNCHANGED <<accepted, dropped>>
      BY <2>1, SameRows DEF Order!Record, OrderInv, EntriesOK, Rows
    <3> QED
      BY <2>1, <3>1, LaterDeps DEF OrderInv, CausalOrder
  <2>2. CASE Order!Accept \/ Order!GiveUp
    <3>1. /\ UNCHANGED entry /\ accepted \subseteq accepted'
          /\ dropped \subseteq dropped' /\ accepted' \subseteq Rows
          /\ \A r \in accepted' \ accepted : Deps[r] \subseteq accepted \cup dropped
      BY <2>2, SameRows DEF Order!Accept, Order!GiveUp, OrderInv
    <3>2. Rows' = Rows /\ Deps' = Deps
      BY <3>1, DepsKept
    <3> QED
      BY <3>1, <3>2 DEF OrderInv, EntriesOK, CausalOrder
  <2>3. CASE UNCHANGED Order!orderVars
    <3>1. UNCHANGED <<entry, accepted, dropped>> /\ Rows' = Rows /\ Deps' = Deps
      BY <2>3, DepsKept DEF Order!orderVars
    <3> QED
      BY <3>1 DEF OrderInv, EntriesOK, CausalOrder
  <2> QED
    BY <2>1, <2>2, <2>3 DEF Order!OrderNext
<1>3. OrderInv => CausalOrder
  BY DEF OrderInv
<1> QED
  BY <1>1, <1>2, <1>3, PTL DEF OrderSpec, Order!OrderSpec

=============================================================================
