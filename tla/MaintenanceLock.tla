-------------------------- MODULE MaintenanceLock --------------------------
(***************************************************************************)
(* The maintenance threads of the neutron-server processes.                *)
(*                                                                         *)
(* Each runs the registered operations at its own interval, one after the  *)
(* other, while it holds a lock: the single row of sdn_maintenance, which  *)
(* is "processing" while somebody holds it and names the operation that    *)
(* runs.  The row does not say who holds it.                               *)
(***************************************************************************)
EXTENDS Integers

CONSTANTS Servers,       \* neutron-server processes
          NumOps,        \* how many operations are registered
          Faults,        \* the kinds of failure that may happen
          MaxFailures    \* bound on how often each of them happens

FaultKinds == {"naming",      \* the operation cannot be written to the row
               "operation",   \* the operation raises
               "release",     \* a transaction of the finally clause raises
               "crash"}       \* a process dies and is restarted

ASSUME OpsAssumption == NumOps \in Nat \ {0}
ASSUME FailuresAssumption == Faults \subseteq FaultKinds /\ MaxFailures \in Nat

Ops  == 1 .. NumOps   \* in the order of registration
NoOp == 0

VARIABLES
    state,       \* of the row: "pending" is free
    processing,  \* processing_operation of the row
    place,       \* where each server stands in execute_ops
    op,          \* the operation it has come to
    failures     \* how often each kind of failure has happened

vars == <<state, processing, place, op, failures>>

Places == {"idle",     \* between two runs
           "name",     \* update_maintenance_operation(session, operation)
           "execute",  \* operation(session)
           "clear",    \* update_maintenance_operation(session, None)
           "unlock"}   \* unlock_maintenance

TypeOK == /\ state \in {"pending", "processing"}
          /\ processing \in Ops \cup {NoOp}
          /\ place \in [Servers -> Places]
          /\ op \in [Servers -> Ops]
          /\ failures \in [FaultKinds -> 0 .. MaxFailures]

Init == /\ state = "pending"
        /\ processing = NoOp
        /\ place = [s \in Servers |-> "idle"]
        /\ op = [s \in Servers |-> 1]
        /\ failures = [kind \in FaultKinds |-> 0]

-----------------------------------------------------------------------------

Fault(kind) == /\ kind \in Faults
               /\ failures[kind] < MaxFailures
               /\ failures' = [failures EXCEPT ![kind] = @ + 1]

Go(s, from, to) == /\ place[s] = from
                   /\ place' = [place EXCEPT ![s] = to]

\* Mutant of Lock: the row is found whatever its state is.
LockAnyState(s) == /\ state' = "processing"
                   /\ Go(s, "idle", "name")
                   /\ op' = [op EXCEPT ![s] = 1]
                   /\ UNCHANGED <<processing, failures>>

\* lock_maintenance; a server that finds the lock taken, or fails to take it,
\* waits for its next interval.
Lock(s) == /\ state = "pending"
           /\ state' = "processing"
           /\ Go(s, "idle", "name")
           /\ op' = [op EXCEPT ![s] = 1]
           /\ UNCHANGED <<processing, failures>>

Name(s) == /\ Go(s, "name", "execute")
           /\ processing' = op[s]
           /\ UNCHANGED <<state, op, failures>>

\* Mutants of NextOp: the list of operations is overrun; the operation is not
\* cleared before the lock is released.
NextOpOverruns(s, from) ==
    \/ op[s] <= NumOps /\ Go(s, from, "name") /\ op' = [op EXCEPT ![s] = @ + 1]
    \/ op[s] > NumOps /\ Go(s, from, "clear") /\ UNCHANGED op

NextOpUnlocks(s, from) ==
    \/ op[s] < NumOps /\ Go(s, from, "name") /\ op' = [op EXCEPT ![s] = @ + 1]
    \/ op[s] = NumOps /\ Go(s, from, "unlock") /\ UNCHANGED op

NextOp(s, from) ==
    \/ op[s] < NumOps /\ Go(s, from, "name") /\ op' = [op EXCEPT ![s] = @ + 1]
    \/ op[s] = NumOps /\ Go(s, from, "clear") /\ UNCHANGED op

\* Mutant of Skip: the operation runs although the row could not be written.
SkipNaming(s) == /\ Fault("naming")
                 /\ Go(s, "name", "execute")
                 /\ UNCHANGED <<state, processing, op>>

\* Whatever _execute_op raises is logged, and the next operation has its turn;
\* an operation that cannot be named does not run.
Skip(s) == /\ Fault("naming")
           /\ NextOp(s, "name")
           /\ UNCHANGED <<state, processing>>

\* Mutant of Execute: an operation that raises ends the run.
ExecuteAborts(s) == /\ \/ NextOp(s, "execute") /\ UNCHANGED failures
                       \/ /\ Fault("operation")
                          /\ Go(s, "execute", "idle")
                          /\ UNCHANGED op
                    /\ UNCHANGED <<state, processing>>

Execute(s) == /\ NextOp(s, "execute")
              /\ Fault("operation") \/ UNCHANGED failures
              /\ UNCHANGED <<state, processing>>

Clear(s) == /\ Go(s, "clear", "unlock")
            /\ processing' = NoOp
            /\ UNCHANGED <<state, op, failures>>

\* unlock_maintenance releases a lock that is taken, whoever took it.
Unlock(s) == /\ Go(s, "unlock", "idle")
             /\ state' = "pending"
             /\ UNCHANGED <<processing, op, failures>>

\* What the finally clause raises ends the run, and the lock stays taken.
ReleaseFails(s) == /\ Fault("release")
                   /\ place[s] \in {"clear", "unlock"}
                   /\ place' = [place EXCEPT ![s] = "idle"]
                   /\ UNCHANGED <<state, processing, op>>

Crash(s) == /\ Fault("crash")
            /\ place[s] # "idle"
            /\ place' = [place EXCEPT ![s] = "idle"]
            /\ UNCHANGED <<state, processing, op>>

Run(s) == Name(s) \/ Skip(s) \/ Execute(s) \/ Clear(s) \/ Unlock(s)

Next == \E s \in Servers : Lock(s) \/ Run(s) \/ ReleaseFails(s) \/ Crash(s)

Spec == Init /\ [][Next]_vars

(***************************************************************************)
(* Looping calls go on after an exception (stop_on_exception is False), so *)
(* some server tries for the lock again and again, and a run takes its     *)
(* steps.                                                                  *)
(***************************************************************************)
Fairness == /\ WF_vars(\E s \in Servers : Lock(s))
            /\ \A s \in Servers : WF_vars(Run(s))

FairSpec == Spec /\ Fairness

-----------------------------------------------------------------------------
(* Properties.                                                             *)

\* Two servers never run maintenance at the same time, whatever fails: a lock
\* nobody holds any more is never taken over, nor released, by another.
MutualExclusion ==
    \A s, t \in Servers : place[s] # "idle" /\ place[t] # "idle" => s = t

\* The row tells the truth: an operation runs only while the row names it, and
\* a free row names none.
RowIsTrue ==
    /\ \A s \in Servers : place[s] = "execute" => processing = op[s]
    /\ state = "pending" => processing = NoOp

\* Operations that fail do not stop maintenance: each is run again and again,
\* unless the run that holds the lock dies before it has released it.
Released == failures["release"] = 0 /\ failures["crash"] = 0
KeepsRunning ==
    []Released => \A o \in Ops :
        []<>(\E s \in Servers : place[s] = "execute" /\ op[s] = o)

=============================================================================
