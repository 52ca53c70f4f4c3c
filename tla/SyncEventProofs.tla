-------------------------- MODULE SyncEventProofs --------------------------
(***************************************************************************)
(* The timer and the event of the journal thread, for any number of API    *)
(* threads, timers and failures.                                           *)
(***************************************************************************)
EXTENDS SyncEvent, TLAPS

\* Who holds the lock stands between cancelling the timer and starting the
\* next, and nobody else does; in between no timer runs.
Locked == /\ \A c \in Callers : caller[c] \in {"cancel", "start"} => lock = c
          /\ \A c \in Callers : caller[c] = "start" => armed = {}

IInv == TypeOK /\ Locked /\ OneTimer /\ TimerAlive /\ NoLostWakeup

USE CallersAssumption, TimersAssumption, FailuresAssumption

LEMMA InitInvariant == Init => IInv
<1> SUFFICES ASSUME Init PROVE IInv
  OBVIOUS
<1>1. \A c \in Callers : caller[c] = "idle"
  BY DEF Init
<1>2. event \in BOOLEAN /\ caller \in [Callers -> CallerPlaces]
  BY DEF Init, CallerPlaces
<1>3. TypeOK
  BY <1>1, <1>2 DEF Init, TypeOK, SyncPlaces, Callers
<1>4. Locked /\ OneTimer /\ TimerAlive /\ NoLostWakeup
  BY <1>1 DEF Init, Locked, OneTimer, TimerAlive, NoLostWakeup
<1> QED
  BY <1>3, <1>4 DEF IInv

\* A move takes one caller from one place to another.
LEMMA Moves ==
  ASSUME TypeOK, NEW c \in Callers, NEW from, NEW to \in CallerPlaces,
         Move(c, from, to)
  PROVE  /\ caller[c] = from
         /\ caller'[c] = to
         /\ \A d \in Callers : d # c => caller'[d] = caller[d]
         /\ (caller \in [Callers -> CallerPlaces])'
BY DEF Move, TypeOK

LEMMA NextInvariant == IInv /\ [Next]_vars => IInv'
<1> SUFFICES ASSUME IInv, [Next]_vars PROVE IInv'
  OBVIOUS
<1>1. /\ TypeOK /\ Locked /\ OneTimer /\ TimerAlive /\ NoLostWakeup
      /\ \A c \in Callers : caller[c] \in CallerPlaces
      /\ Api \subseteq Callers /\ Timers \subseteq Callers
  BY DEF IInv, TypeOK, Callers
<1>2. \A p \in {"idle", "acquire", "cancel", "start", "set"} : p \in CallerPlaces
  BY DEF CallerPlaces
<1>3. ASSUME NEW a \in Api, Commit(a) PROVE IInv'
  <2>1. /\ UNCHANGED <<event, lock, timer, armed, sync, failures>>
        /\ unseen' = unseen \cup {a} /\ announced' = announced \ {a}
    BY <1>3 DEF Commit
  <2>2. \/ UNCHANGED caller
        \/ /\ caller'[a] = "acquire"
           /\ \A d \in Callers : d # a => caller'[d] = caller[d]
           /\ (caller \in [Callers -> CallerPlaces])'
    BY <1>1, <1>2, <1>3, Moves DEF Commit
  <2>3. caller[a] = "idle"
    BY <1>3 DEF Commit, Move
  <2>4. TypeOK'
    BY <1>1, <2>1, <2>2 DEF TypeOK
  <2>5. Locked' /\ OneTimer' /\ TimerAlive'
    BY <1>1, <2>1, <2>2, <2>3 DEF Locked, OneTimer, TimerAlive
  <2>6. NoLostWakeup'
    BY <1>1, <2>1 DEF NoLostWakeup
  <2> QED
    BY <2>4, <2>5, <2>6 DEF IInv
<1>4. ASSUME NEW t \in Timers, Expire(t) PROVE IInv'
  <2>1. /\ UNCHANGED <<event, lock, timer, sync, unseen, announced, failures>>
        /\ t \in armed /\ armed' = armed \ {t}
    BY <1>4 DEF Expire
  <2>2. /\ caller[t] = "idle" /\ caller'[t] = "acquire"
        /\ \A d \in Callers : d # t => caller'[d] = caller[d]
        /\ (caller \in [Callers -> CallerPlaces])'
    BY <1>1, <1>2, <1>4, Moves DEF Expire
  <2>3. TypeOK'
    BY <1>1, <2>1, <2>2 DEF TypeOK
  <2>4. Locked' /\ OneTimer' /\ TimerAlive'
    BY <1>1, <2>1, <2>2 DEF Locked, OneTimer, TimerAlive
  <2>5. NoLostWakeup'
    BY <1>1, <2>1 DEF NoLostWakeup
  <2> QED
    BY <2>3, <2>4, <2>5 DEF IInv
<1>5. ASSUME NEW c \in Callers, Acquire(c) PROVE IInv'
  <2>1. /\ UNCHANGED <<event, timer, armed, sync, unseen, announced, failures>>
        /\ lock = NoCaller /\ lock' = c
    BY <1>5 DEF Acquire
  <2>2. /\ caller[c] = "acquire" /\ caller'[c] = "cancel"
        /\ \A d \in Callers : d # c => caller'[d] = caller[d]
        /\ (caller \in [Callers -> CallerPlaces])'
    BY <1>1, <1>2, <1>5, Moves DEF Acquire
  <2>3. TypeOK'
    BY <1>1, <2>1, <2>2 DEF TypeOK
  <2>4. Locked' /\ OneTimer' /\ TimerAlive'
    <3>1. \A d \in Callers : d # NoCaller
      BY DEF Callers
    <3> QED
      BY <1>1, <2>1, <2>2, <3>1 DEF Locked, OneTimer, TimerAlive
  <2>5. NoLostWakeup'
    BY <1>1, <2>1 DEF NoLostWakeup
  <2> QED
    BY <2>3, <2>4, <2>5 DEF IInv
<1>6. ASSUME NEW c \in Callers, CancelTimer(c) PROVE IInv'
  <2>1. /\ UNCHANGED <<event, lock, timer, sync, unseen, announced, failures>>
        /\ armed' = armed \ {timer}
    BY <1>6 DEF CancelTimer
  <2>2. /\ caller[c] = "cancel" /\ caller'[c] = "start"
        /\ \A d \in Callers : d # c => caller'[d] = caller[d]
        /\ (caller \in [Callers -> CallerPlaces])'
    BY <1>1, <1>2, <1>6, Moves DEF CancelTimer
  <2>3. TypeOK'
    BY <1>1, <2>1, <2>2 DEF TypeOK
  <2>4. Locked' /\ OneTimer' /\ TimerAlive'
    BY <1>1, <2>1, <2>2 DEF Locked, OneTimer, TimerAlive
  <2>5. NoLostWakeup'
    BY <1>1, <2>1 DEF NoLostWakeup
  <2> QED
    BY <2>3, <2>4, <2>5 DEF IInv
<1>7. ASSUME NEW c \in Callers, StartTimer(c) PROVE IInv'
  <2>1. /\ UNCHANGED <<event, sync, unseen, announced, failures>>
        /\ lock' = NoCaller
        /\ timer' \in Timers /\ armed' = armed \cup {timer'}
    BY <1>7 DEF StartTimer
  <2>a. c \in Expired \/ c \notin Timers
    BY <1>7 DEF StartTimer, Move, Expired
  <2>b. timer' \in Timers /\ timer' \notin Expired
    BY <1>7 DEF StartTimer
  <2>c. caller[timer'] = "idle" /\ timer' # c
    BY <2>a, <2>b DEF Expired
  <2>2. /\ caller[c] = "start" /\ caller'[c] = "set"
        /\ \A d \in Callers : d # c => caller'[d] = caller[d]
        /\ (caller \in [Callers -> CallerPlaces])'
    BY <1>1, <1>2, <1>7, Moves DEF StartTimer
  <2>d. \A t \in armed' : caller'[t] = "idle"
    BY <1>1, <2>1, <2>2, <2>c DEF TypeOK
  <2>3. TypeOK'
    BY <1>1, <2>1, <2>2, <2>d DEF TypeOK
  <2>4. lock = c /\ armed = {}
    BY <1>1, <2>2 DEF Locked
  <2>5. Locked' /\ OneTimer' /\ TimerAlive'
    BY <1>1, <2>1, <2>2, <2>4 DEF Locked, OneTimer, TimerAlive
  <2>6. NoLostWakeup'
    BY <1>1, <2>1 DEF NoLostWakeup
  <2> QED
    BY <2>3, <2>5, <2>6 DEF IInv
<1>8. ASSUME NEW c \in Callers, SetEvent(c) PROVE IInv'
  <2>1. /\ UNCHANGED <<lock, timer, armed, sync, unseen, failures>>
        /\ event' = TRUE
        /\ announced' = announced \cup ({c} \cap unseen)
    BY <1>8 DEF SetEvent
  <2>2. /\ caller[c] = "set" /\ caller'[c] = "idle"
        /\ \A d \in Callers : d # c => caller'[d] = caller[d]
        /\ (caller \in [Callers -> CallerPlaces])'
    BY <1>1, <1>2, <1>8, Moves DEF SetEvent
  <2>3. TypeOK'
    BY <1>1, <2>1, <2>2 DEF TypeOK
  <2>4. Locked' /\ OneTimer' /\ TimerAlive'
    BY <1>1, <2>1, <2>2 DEF Locked, OneTimer, TimerAlive
  <2>5. NoLostWakeup'
    BY <2>1 DEF NoLostWakeup
  <2> QED
    BY <2>3, <2>4, <2>5 DEF IInv
<1>9. CASE SyncStep \/ RunFails
  <2>1. UNCHANGED <<lock, timer, armed, caller>>
    BY <1>9 DEF SyncStep, Wait, Clear, SyncPending, SyncProgress, RunFails
  <2>a. (event \in BOOLEAN)'
    BY <1>1, <1>9
    DEF SyncStep, Wait, Clear, SyncPending, SyncProgress, RunFails, TypeOK
  <2>b. (sync \in SyncPlaces)'
    BY <1>9
    DEF SyncStep, Wait, Clear, SyncPending, SyncProgress, RunFails, SyncPlaces
  <2>c. (unseen \subseteq Api /\ announced \subseteq unseen)'
    BY <1>1, <1>9
    DEF SyncStep, Wait, Clear, SyncPending, SyncProgress, RunFails, TypeOK
  <2>d. (failures \in 0 .. MaxFailures)'
    BY <1>1, <1>9
    DEF SyncStep, Wait, Clear, SyncPending, SyncProgress, RunFails, TypeOK
  <2>2. TypeOK'
    BY <1>1, <2>1, <2>a, <2>b, <2>c, <2>d DEF TypeOK
  <2>3. Locked' /\ OneTimer' /\ TimerAlive'
    BY <1>1, <2>1 DEF Locked, OneTimer, TimerAlive
  <2>4. NoLostWakeup'
    BY <1>1, <1>9
    DEF SyncStep, Wait, Clear, SyncPending, SyncProgress, RunFails, NoLostWakeup
  <2> QED
    BY <2>2, <2>3, <2>4 DEF IInv
<1>10. CASE Restart
  <2>1. \A c \in Callers : caller'[c] = "idle"
    BY <1>10 DEF Restart
  <2>2. event' \in BOOLEAN /\ (caller \in [Callers -> CallerPlaces])'
    BY <1>2, <1>10 DEF Restart
  <2>3. TypeOK'
    BY <1>1, <1>10, <2>2 DEF Restart, TypeOK, SyncPlaces
  <2>4. Locked' /\ OneTimer' /\ TimerAlive' /\ NoLostWakeup'
    BY <1>10, <2>1 DEF Restart, Locked, OneTimer, TimerAlive, NoLostWakeup
  <2> QED
    BY <2>3, <2>4 DEF IInv
<1>11. CASE UNCHANGED vars
  BY <1>1, <1>11 DEF vars, IInv, TypeOK, Locked, OneTimer, TimerAlive,
                     NoLostWakeup
<1> QED
  BY <1>3, <1>4, <1>5, <1>6, <1>7, <1>8, <1>9, <1>10, <1>11 DEF Next, CallerStep

LEMMA Invariant == Spec => []IInv
BY InitInvariant, NextInvariant, PTL DEF Spec

\* The event, the lock and the timers are well formed, and no timer is used that
\* is not in the pool.
THEOREM TypeCorrect == Spec => []TypeOK
<1>1. IInv => TypeOK
  BY DEF IInv
<1> QED
  BY <1>1, Invariant, PTL

\* Calls of set_sync_event and expiries of timers, in whatever order, leave one
\* timer at most.
THEOREM OneTimerCorrect == Spec => []OneTimer
<1>1. IInv => OneTimer
  BY DEF IInv
<1> QED
  BY <1>1, Invariant, PTL

\* There is always a timer running or about to be started.
THEOREM TimerAliveCorrect == Spec => []TimerAlive
<1>1. IInv => TimerAlive
  BY DEF IInv
<1> QED
  BY <1>1, Invariant, PTL

\* A row that was announced is never slept through.
THEOREM NoLostWakeupCorrect == Spec => []NoLostWakeup
<1>1. IInv => NoLostWakeup
  BY DEF IInv
<1> QED
  BY <1>1, Invariant, PTL

=============================================================================
