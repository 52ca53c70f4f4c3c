----------------------------- MODULE SyncEvent -----------------------------
(***************************************************************************)
(* How the journal thread of one neutron-server process is woken.          *)
(*                                                                         *)
(* The thread waits for an event (journal.py, run_sync_thread).  API       *)
(* threads set it after their commit, and so does a timer that every call  *)
(* of set_sync_event cancels and starts anew.  A timer that has expired    *)
(* can no longer be cancelled: its callback is one more caller of          *)
(* set_sync_event, in a thread of its own, and may find that the timer it  *)
(* is to cancel is not the one it belongs to.                              *)
(***************************************************************************)
EXTENDS Integers, FiniteSets

CONSTANTS Api,          \* API threads
          Timers,       \* threading.Timer objects, used again when done with
          NoCaller,     \* nobody
          MaxFailures   \* bound on failed runs and on restarts

ASSUME CallersAssumption == /\ Api \cap Timers = {}
                            /\ NoCaller \notin Api \cup Timers
ASSUME TimersAssumption == IsFiniteSet(Timers) /\ Timers # {}
ASSUME FailuresAssumption == MaxFailures \in Nat

Callers == Api \cup Timers

VARIABLES
    event,      \* self.event
    lock,       \* who holds self.lock
    timer,      \* self._timer
    armed,      \* timers started, neither cancelled nor expired
    caller,     \* where each caller stands in set_sync_event
    sync,       \* where the journal thread stands in run_sync_thread
    unseen,     \* API threads with a committed row no run has looked for yet
    announced,  \* those of them whose set_sync_event returned since
    failures

vars == <<event, lock, timer, armed, caller, sync, unseen, announced, failures>>

CallerPlaces == {"idle",
                 "acquire",   \* with self.lock
                 "cancel",    \* self._timer.cancel()
                 "start",     \* self._start_sync_timer()
                 "set"}       \* self.event.set()
SyncPlaces == {"wait",        \* event.wait()
               "clear",       \* event.clear()
               "pending",     \* _sync_pending_rows
               "progress"}    \* _sync_progress_rows

\* A Timer object runs or is in its callback, never both.
TypeOK == /\ event \in BOOLEAN
          /\ lock \in Callers \cup {NoCaller}
          /\ timer \in Timers
          /\ armed \subseteq Timers
          /\ caller \in [Callers -> CallerPlaces]
          /\ \A t \in armed : caller[t] = "idle"
          /\ sync \in SyncPlaces
          /\ unseen \subseteq Api
          /\ announced \subseteq unseen
          /\ failures \in 0 .. MaxFailures

\* __init__: the thread is started, then the first timer.
Init == /\ event = FALSE
        /\ lock = NoCaller
        /\ timer \in Timers
        /\ armed = {timer}
        /\ caller = [c \in Callers |-> "idle"]
        /\ sync = "wait"
        /\ unseen = {}
        /\ announced = {}
        /\ failures = 0

-----------------------------------------------------------------------------
(* Callers of set_sync_event.                                              *)

Move(c, from, to) == /\ caller[c] = from
                     /\ caller' = [caller EXCEPT ![c] = to]

\* A precommit has recorded a row and its transaction is committed: the
\* postcommit follows, unless another driver's fails before.  bind_port records
\* a row too, and has no postcommit.
Commit(a) == /\ \/ Move(a, "idle", "acquire")
                \/ caller[a] = "idle" /\ UNCHANGED caller
             /\ unseen' = unseen \cup {a}
             /\ announced' = announced \ {a}
             /\ UNCHANGED <<event, lock, timer, armed, sync, failures>>

\* Callbacks of expired timers still in set_sync_event.
Expired == {t \in Timers : caller[t] # "idle"}

\* A timer expires.  That one Timer object is always left to start is a bound:
\* no more than all but one of them are in their callback at a time.
Expire(t) == /\ t \in armed
             /\ Cardinality(Expired) < Cardinality(Timers) - 1
             /\ armed' = armed \ {t}
             /\ Move(t, "idle", "acquire")
             /\ UNCHANGED <<event, lock, timer, sync, unseen, announced, failures>>

\* Mutant of Acquire: there is no lock.
AcquireFree(c) ==
    /\ Move(c, "acquire", "cancel")
    /\ UNCHANGED <<event, lock, timer, armed, sync, unseen, announced, failures>>

Acquire(c) ==
    /\ lock = NoCaller
    /\ lock' = c
    /\ Move(c, "acquire", "cancel")
    /\ UNCHANGED <<event, timer, armed, sync, unseen, announced, failures>>

\* Cancelling a timer that has expired has no effect.
CancelTimer(c) ==
    /\ Move(c, "cancel", "start")
    /\ armed' = armed \ {timer}
    /\ UNCHANGED <<event, lock, timer, sync, unseen, announced, failures>>

\* Mutants of StartTimer: the Timer object that was cancelled, or that has
\* expired, is started again; the callback of a timer leaves it stopped.
StartTimerAgain(c) ==
    /\ Move(c, "start", "set")
    /\ armed' = armed \cup {timer}
    /\ lock' = NoCaller
    /\ UNCHANGED <<event, timer, sync, unseen, announced, failures>>

StartTimerOnce(c) ==
    /\ Move(c, "start", "set")
    /\ \/ c \in Timers /\ UNCHANGED <<timer, armed>>
       \/ /\ c \in Api
          /\ \E t \in Timers \ (armed \cup Expired) :
                timer' = t /\ armed' = armed \cup {t}
    /\ lock' = NoCaller
    /\ UNCHANGED <<event, sync, unseen, announced, failures>>

\* _start_sync_timer, and the end of the locked section.
StartTimer(c) ==
    /\ Move(c, "start", "set")
    /\ \E t \in Timers \ (armed \cup Expired) :
          timer' = t /\ armed' = armed \cup {t}
    /\ lock' = NoCaller
    /\ UNCHANGED <<event, sync, unseen, announced, failures>>

SetEvent(c) ==
    /\ Move(c, "set", "idle")
    /\ event' = TRUE
    /\ announced' = announced \cup ({c} \cap unseen)
    /\ UNCHANGED <<lock, timer, armed, sync, unseen, failures>>

CallerStep(c) == Acquire(c) \/ CancelTimer(c) \/ StartTimer(c) \/ SetEvent(c)

-----------------------------------------------------------------------------
(* The journal thread.                                                     *)

Wait == /\ sync = "wait"
        /\ event
        /\ sync' = "clear"
        /\ UNCHANGED <<event, lock, timer, armed, caller, unseen, announced,
                       failures>>

Clear == /\ sync = "clear"
         /\ event' = FALSE
         /\ sync' = "pending"
         /\ UNCHANGED <<lock, timer, armed, caller, unseen, announced, failures>>

\* The loop over the pending rows: it goes on until a query finds none.  A row
\* committed after that query is left for the next run.
SyncPending == /\ sync = "pending"
               /\ unseen' = {}
               /\ announced' = {}
               /\ sync' \in {"pending", "progress"}
               /\ UNCHANGED <<event, lock, timer, armed, caller, failures>>

\* Mutant of SyncProgress: the event is cleared at the end of the run.
SyncProgressClears == /\ sync = "progress"
                      /\ sync' = "wait"
                      /\ event' = FALSE
                      /\ UNCHANGED <<lock, timer, armed, caller, unseen,
                                     announced, failures>>

SyncProgress == /\ sync = "progress"
                /\ sync' = "wait"
                /\ UNCHANGED <<event, lock, timer, armed, caller, unseen,
                               announced, failures>>

\* An exception ends the run, and a failed login its loop over the pending
\* rows; nothing announces again the rows it did not see.
RunFails == /\ failures < MaxFailures
            /\ failures' = failures + 1
            /\ \/ sync \in {"pending", "progress"} /\ sync' = "wait"
               \/ sync = "pending" /\ sync' = "progress"
            /\ announced' = {}
            /\ UNCHANGED <<event, lock, timer, armed, caller, unseen>>

SyncStep == Wait \/ Clear \/ SyncPending \/ SyncProgress

\* The process dies and is started again: only the rows are left.
Restart == /\ failures < MaxFailures
           /\ failures' = failures + 1
           /\ event' = FALSE
           /\ lock' = NoCaller
           /\ timer' \in Timers
           /\ armed' = {timer'}
           /\ caller' = [c \in Callers |-> "idle"]
           /\ sync' = "wait"
           /\ announced' = {}
           /\ UNCHANGED unseen

Next == \/ \E a \in Api : Commit(a)
        \/ \E t \in Timers : Expire(t)
        \/ \E c \in Callers : CallerStep(c)
        \/ SyncStep
        \/ RunFails
        \/ Restart

Spec == Init /\ [][Next]_vars

(***************************************************************************)
(* Threads are scheduled, and a timer left alone expires.  Nothing obliges *)
(* an API thread to commit; a caller gets the lock in the end, because the *)
(* section it protects is short and never blocks.  A run that goes on and  *)
(* on, row after row, does see every row.                                  *)
(***************************************************************************)
Fairness == /\ \A t \in Timers : WF_vars(Expire(t))
            /\ \A c \in Callers : SF_vars(CallerStep(c))
            /\ WF_vars(Wait)
            /\ WF_vars(Clear)
            /\ WF_vars(SyncPending)
            /\ WF_vars(SyncProgress)

FairSpec == Spec /\ Fairness

-----------------------------------------------------------------------------
(* Properties.                                                             *)

\* Timers do not multiply: however expiries and calls of set_sync_event
\* interleave, no timer runs but the one the next call will cancel ("Prevent
\* race when starting the timer").
OneTimer == armed \subseteq {timer}

\* And they do not die out: a timer runs, or somebody is about to start one.
TimerAlive == \/ timer \in armed
              \/ \E c \in Callers : caller[c] \in {"acquire", "cancel", "start"}

\* A row that was announced wakes the thread: the event is set, or the thread
\* has still to look for pending rows.
NoLostWakeup == announced # {} => event \/ sync \in {"clear", "pending"}

\* Every committed row is looked for in the end, whether or not it was
\* announced, and whatever runs failed.
EventuallySeen == \A a \in Api : a \in unseen ~> a \notin unseen

=============================================================================
