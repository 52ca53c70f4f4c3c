----------------------- MODULE MaintenanceLockProofs -----------------------
(***************************************************************************)
(* The maintenance row is a lock, for any number of servers, operations    *)
(* and failures.                                                           *)
(*                                                                         *)
(* The row does not say who holds it, so mutual exclusion rests on a fact  *)
(* about all servers: while any of them is in a run, the row is taken.     *)
(***************************************************************************)
EXTENDS MaintenanceLock, TLAPS

\* While a server is in a run the row is taken, and a server about to release
\* it has cleared its operation.
HeldInv ==
    /\ \A s \in Servers : place[s] # "idle" => state = "processing"
    /\ \A s \in Servers : place[s] = "unlock" => processing = NoOp

LockInv == TypeOK /\ HeldInv /\ MutualExclusion /\ RowIsTrue

\* Before the first run nobody holds the lock and the row names no operation.
LEMMA InitLockInv == Init => LockInv
BY OpsAssumption, FailuresAssumption
   DEF Init, LockInv, TypeOK, HeldInv, MutualExclusion, RowIsTrue, Ops, NoOp,
       Places

\* While a server is in a run no other is
\* (execute_ops): its step moves nobody else, and the row is taken.
LEMMA OthersIdle ==
    ASSUME LockInv, NEW s \in Servers, NEW from, NEW to,
           from \in Places \ {"idle"}, to \in Places, Go(s, from, to)
    PROVE  /\ place' \in [Servers -> Places]
           /\ place'[s] = to
           /\ \A t \in Servers \ {s} : place[t] = "idle" /\ place'[t] = "idle"
           /\ state = "processing"
BY DEF LockInv, TypeOK, HeldInv, MutualExclusion, Go

\* Lock (lock_maintenance) finds nobody in a run.
LEMMA LockStep == ASSUME LockInv, NEW s \in Servers, Lock(s) PROVE LockInv'
<1>1. /\ place' = [place EXCEPT ![s] = "name"]
      /\ op' = [op EXCEPT ![s] = 1]
      /\ place \in [Servers -> Places] /\ op \in [Servers -> Ops]
      /\ state = "pending" /\ state' = "processing"
      /\ processing = NoOp
      /\ UNCHANGED <<processing, failures>>
    BY DEF Lock, Go, LockInv, TypeOK, RowIsTrue
<1>2. \A t \in Servers : place[t] = "idle"
    BY <1>1 DEF LockInv, HeldInv
<1>3. 1 \in Ops
    BY OpsAssumption DEF Ops
<1>4. TypeOK'
    BY <1>1, <1>3 DEF LockInv, TypeOK, Places
<1>5. \A t \in Servers : place'[t] = IF t = s THEN "name" ELSE "idle"
    BY <1>1, <1>2
<1>6. HeldInv' /\ MutualExclusion' /\ RowIsTrue'
    BY <1>1, <1>5 DEF HeldInv, MutualExclusion, RowIsTrue
<1> QED BY <1>4, <1>6 DEF LockInv

\* Name (update_maintenance_operation) writes the operation about to run.
LEMMA NameStep == ASSUME LockInv, NEW s \in Servers, Name(s) PROVE LockInv'
<1>1. /\ Go(s, "name", "execute")
      /\ processing' = op[s] /\ op[s] \in Ops
      /\ UNCHANGED <<state, op, failures>>
    BY DEF Name, LockInv, TypeOK
<1>2. /\ place' \in [Servers -> Places]
      /\ place'[s] = "execute"
      /\ \A t \in Servers \ {s} : place[t] = "idle" /\ place'[t] = "idle"
      /\ state = "processing"
    BY <1>1, OthersIdle DEF Places
<1>3. TypeOK'
    BY <1>1, <1>2 DEF LockInv, TypeOK
<1>4. HeldInv' /\ MutualExclusion' /\ RowIsTrue'
    BY <1>1, <1>2 DEF HeldInv, MutualExclusion, RowIsTrue
<1> QED BY <1>3, <1>4 DEF LockInv

\* NextOp goes on to the next operation, or to the finally clause: the row
\* keeps its holder, and its last operation.
LEMMA NextOpStep ==
    ASSUME LockInv, NEW s \in Servers, NEW from \in {"name", "execute"},
           NextOp(s, from), UNCHANGED <<state, processing>>,
           failures' \in [FaultKinds -> 0 .. MaxFailures]
    PROVE  LockInv'
<1>1. \E to \in {"name", "clear"} : Go(s, from, to)
    BY DEF NextOp
<1>2. /\ place' \in [Servers -> Places]
      /\ place'[s] \in {"name", "clear"}
      /\ \A t \in Servers \ {s} : place[t] = "idle" /\ place'[t] = "idle"
      /\ state = "processing"
    BY <1>1, OthersIdle DEF Places
<1>3. op \in [Servers -> Ops] /\ op[s] \in Ops
    BY DEF LockInv, TypeOK
<1>4. op[s] < NumOps => op[s] + 1 \in Ops
    BY <1>3, OpsAssumption DEF Ops
<1>5. op' \in [Servers -> Ops]
    <2>1. CASE op[s] < NumOps /\ op' = [op EXCEPT ![s] = op[s] + 1]
        BY <2>1, <1>3, <1>4
    <2>2. CASE UNCHANGED op
        BY <2>2, <1>3
    <2> QED BY <2>1, <2>2 DEF NextOp
<1>6. TypeOK'
    BY <1>2, <1>5 DEF LockInv, TypeOK
<1>7. HeldInv' /\ MutualExclusion' /\ RowIsTrue'
    BY <1>2 DEF HeldInv, MutualExclusion, RowIsTrue
<1> QED BY <1>6, <1>7 DEF LockInv

\* A failure counts only up to the bound.
LEMMA FailuresBounded ==
    ASSUME TypeOK, NEW kind, Fault(kind) \/ UNCHANGED failures
    PROVE  failures' \in [FaultKinds -> 0 .. MaxFailures]
BY FailuresAssumption DEF TypeOK, Fault, FaultKinds

\* Clear (the finally clause) empties the row of its operation.
LEMMA ClearStep == ASSUME LockInv, NEW s \in Servers, Clear(s) PROVE LockInv'
<1>1. /\ Go(s, "clear", "unlock")
      /\ processing' = NoOp
      /\ UNCHANGED <<state, op, failures>>
    BY DEF Clear
<1>2. /\ place' \in [Servers -> Places]
      /\ place'[s] = "unlock"
      /\ \A t \in Servers \ {s} : place[t] = "idle" /\ place'[t] = "idle"
      /\ state = "processing"
    BY <1>1, OthersIdle DEF Places
<1>3. TypeOK'
    BY <1>1, <1>2 DEF LockInv, TypeOK
<1>4. HeldInv' /\ MutualExclusion' /\ RowIsTrue'
    BY <1>1, <1>2 DEF HeldInv, MutualExclusion, RowIsTrue
<1> QED BY <1>3, <1>4 DEF LockInv

\* Unlock (unlock_maintenance) leaves a free row, which names no operation,
\* and nobody in a run.
LEMMA UnlockStep == ASSUME LockInv, NEW s \in Servers, Unlock(s) PROVE LockInv'
<1>1. /\ Go(s, "unlock", "idle")
      /\ state' = "pending"
      /\ processing = NoOp
      /\ UNCHANGED <<processing, op, failures>>
    BY DEF Unlock, Go, LockInv, HeldInv
<1>2. /\ place' \in [Servers -> Places]
      /\ \A t \in Servers : place'[t] = "idle"
    BY <1>1, OthersIdle DEF Places
<1>3. TypeOK'
    BY <1>1, <1>2 DEF LockInv, TypeOK
<1>4. HeldInv' /\ MutualExclusion' /\ RowIsTrue'
    BY <1>1, <1>2 DEF HeldInv, MutualExclusion, RowIsTrue
<1> QED BY <1>3, <1>4 DEF LockInv

\* A run that ends without releasing the lock (ReleaseFails, Crash) leaves the
\* row taken, and nobody in a run.
LEMMA EndStep ==
    ASSUME LockInv, NEW s \in Servers, place[s] # "idle",
           place' = [place EXCEPT ![s] = "idle"],
           failures' \in [FaultKinds -> 0 .. MaxFailures],
           UNCHANGED <<state, processing, op>>
    PROVE  LockInv'
<1>1. place \in [Servers -> Places] /\ state = "processing"
    BY DEF LockInv, TypeOK, HeldInv
<1>2. /\ place' \in [Servers -> Places]
      /\ \A t \in Servers : place'[t] = "idle"
    BY <1>1 DEF LockInv, MutualExclusion, Places
<1>3. TypeOK'
    BY <1>1, <1>2 DEF LockInv, TypeOK
<1>4. HeldInv' /\ MutualExclusion' /\ RowIsTrue'
    BY <1>1, <1>2 DEF HeldInv, MutualExclusion, RowIsTrue
<1> QED BY <1>3, <1>4 DEF LockInv

\* Every step of every server keeps the invariant.
LEMMA NextLockInv == LockInv /\ [Next]_vars => LockInv'
<1> SUFFICES ASSUME LockInv, [Next]_vars PROVE LockInv'
    OBVIOUS
<1>1. CASE UNCHANGED vars
    BY <1>1 DEF vars, LockInv, TypeOK, HeldInv, MutualExclusion, RowIsTrue
<1>2. CASE Next
    <2>1. PICK s \in Servers : Lock(s) \/ Run(s) \/ ReleaseFails(s) \/ Crash(s)
        BY <1>2 DEF Next
    <2>2. CASE Lock(s)
        BY <2>2, LockStep
    <2>3. CASE Name(s)
        BY <2>3, NameStep
    <2>4. CASE Skip(s)
        <3>1. failures' \in [FaultKinds -> 0 .. MaxFailures]
            BY <2>4, FailuresBounded DEF Skip, LockInv
        <3> QED BY <2>4, <3>1, NextOpStep DEF Skip
    <2>5. CASE Execute(s)
        <3>1. failures' \in [FaultKinds -> 0 .. MaxFailures]
            BY <2>5, FailuresBounded DEF Execute, LockInv
        <3> QED BY <2>5, <3>1, NextOpStep DEF Execute
    <2>6. CASE Clear(s)
        BY <2>6, ClearStep
    <2>7. CASE Unlock(s)
        BY <2>7, UnlockStep
    <2>8. CASE ReleaseFails(s)
        <3>1. failures' \in [FaultKinds -> 0 .. MaxFailures]
            BY <2>8, FailuresBounded DEF ReleaseFails, LockInv
        <3> QED BY <2>8, <3>1, EndStep DEF ReleaseFails
    <2>9. CASE Crash(s)
        <3>1. failures' \in [FaultKinds -> 0 .. MaxFailures]
            BY <2>9, FailuresBounded DEF Crash, LockInv
        <3> QED BY <2>9, <3>1, EndStep DEF Crash
    <2> QED BY <2>1, <2>2, <2>3, <2>4, <2>5, <2>6, <2>7, <2>8, <2>9 DEF Run
<1> QED BY <1>1, <1>2

\* The invariant holds in every state.
LEMMA AlwaysLockInv == Spec => []LockInv
BY InitLockInv, NextLockInv, PTL DEF Spec

-----------------------------------------------------------------------------

\* No server goes past the last registered operation (execute_ops).
THEOREM TypeCorrect == Spec => []TypeOK
<1>1. LockInv => TypeOK
    BY DEF LockInv
<1> QED BY <1>1, AlwaysLockInv, PTL

\* At most one server is between lock_maintenance and unlock_maintenance,
\* whatever fails and whoever dies.
THEOREM MutualExclusionCorrect == Spec => []MutualExclusion
<1>1. LockInv => MutualExclusion
    BY DEF LockInv
<1> QED BY <1>1, AlwaysLockInv, PTL

\* The row names the operation that runs, and none while it is free
\* (update_maintenance_operation "assumes the lock is held").
THEOREM RowIsTrueCorrect == Spec => []RowIsTrue
<1>1. LockInv => RowIsTrue
    BY DEF LockInv
<1> QED BY <1>1, AlwaysLockInv, PTL

=============================================================================
