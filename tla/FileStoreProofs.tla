-------------------------- MODULE FileStoreProofs --------------------------
(* Proofs about FileStore for any number of processes, any set of updates   *)
(* and any bound on crashes and failing file-system calls.                  *)
EXTENDS FileStore, TLAPS

InCall(p) == pc[p] \notin {"idle", "down"}

TypeInv == /\ TypeOK
           /\ \A p \in Proc : InCall(p) => op[p] # NoUpdate

LEMMA TypeInit == Init => TypeInv
<1> SUFFICES ASSUME Init PROVE TypeInv
  OBVIOUS
<1>1. 0 \in 0 .. MaxAttempts /\ 0 \in 0 .. MaxCrashes
      /\ 0 \in 0 .. MaxIoFaults /\ 0 \in 0 .. MaxTornWrites
  BY AttemptsAssumption, BudgetAssumption
<1>2. TypeOK
  BY <1>1 DEF Init, TypeOK, PC
<1>3. \A p \in Proc : ~InCall(p)
  BY DEF Init, InCall
<1> QED
  BY <1>2, <1>3 DEF TypeInv

LEMMA TypeStep == TypeInv /\ [Next]_vars => TypeInv'
<1> SUFFICES ASSUME TypeInv, [Next]_vars PROVE TypeInv'
  OBVIOUS
<1> USE AttemptsAssumption, BudgetAssumption, NullsAssumption
    DEF TypeInv, TypeOK, PC, Goto, faults, InCall
<1>1. CASE UNCHANGED vars
  BY <1>1 DEF vars
<1>2. ASSUME NEW p \in Proc, NEW u \in Update, Call(p, u) PROVE TypeInv'
  BY <1>2 DEF Call
<1>3. ASSUME NEW p \in Proc, Step(p) PROVE TypeInv'
  <2>1. CASE LockCreated(p)
    BY <2>1 DEF LockCreated, CreatesExclusively, Retrying
  <2>2. CASE LockBusy(p) \/ LockCreateFails(p)
    BY <2>2 DEF LockBusy, LockCreateFails, Retrying
  <2>3. CASE LockTimeout(p)
    BY <2>3 DEF LockTimeout
  <2>4. CASE Load(p)
    BY <2>4 DEF Load, Readable
  <2>5. CASE CallbackThrows(p)
    BY <2>5 DEF CallbackThrows
  <2>6. CASE Truncate(p)
    BY <2>6 DEF Truncate
  <2>7. CASE Write(p)
    BY <2>7 DEF Write
  <2>8. CASE OpenFails(p)
    BY <2>8 DEF OpenFails
  <2>9. CASE WriteFails(p)
    BY <2>9 DEF WriteFails
  <2>10. CASE Release(p)
    <3>1. op[p] \in Update
      BY <2>10 DEF Release
    <3>2. returned' \in SUBSET Update /\ thrown' \in SUBSET Update
      BY <2>10, <3>1 DEF Release, Finish
    <3>3. lock' \in BOOLEAN /\ UNCHANGED <<file, torn, tries, loaded, seen, faults>>
      BY <2>10 DEF Release, Finish
    <3>4. pc' = [pc EXCEPT ![p] = "idle"] /\ op' = [op EXCEPT ![p] = NoUpdate]
      BY <2>10 DEF Release, Finish
    <3> QED
      BY <3>2, <3>3, <3>4
  <2>11. CASE ReleaseFails(p)
    <3>1. op[p] \in Update
      BY <2>11 DEF ReleaseFails
    <3>2. returned' \in SUBSET Update /\ thrown' \in SUBSET Update
      BY <2>11, <3>1 DEF ReleaseFails, Finish
    <3>3. UNCHANGED <<lock, file, torn, tries, loaded, seen, crashes, tornWrites>>
          /\ ioFaults' \in 0 .. MaxIoFaults
      BY <2>11 DEF ReleaseFails, Finish
    <3>4. pc' = [pc EXCEPT ![p] = "idle"] /\ op' = [op EXCEPT ![p] = NoUpdate]
      BY <2>11 DEF ReleaseFails, Finish
    <3> QED
      BY <3>2, <3>3, <3>4
  <2> QED
    BY <1>3, <2>1, <2>2, <2>3, <2>4, <2>5, <2>6, <2>7, <2>8, <2>9, <2>10, <2>11 DEF Step
<1>4. ASSUME NEW p \in Proc, Read(p) PROVE TypeInv'
  BY <1>4 DEF Read, Readable
<1>5. ASSUME NEW p \in Proc, Crash(p) PROVE TypeInv'
  BY <1>5 DEF Crash
<1>6. ASSUME NEW p \in Proc, Restart(p) PROVE TypeInv'
  BY <1>6 DEF Restart
<1> QED
  BY <1>1, <1>2, <1>3, <1>4, <1>5, <1>6 DEF Next

LEMMA TypeInvariant == Spec => []TypeInv
BY TypeInit, TypeStep, PTL DEF Spec

(* The file-store protocol keeps its variables in their types. *)
THEOREM TypeCorrect == Spec => []TypeOK
<1>1. TypeInv => TypeOK
  BY DEF TypeInv
<1> QED
  BY <1>1, TypeInvariant, PTL

-----------------------------------------------------------------------------
LEMMA LockStep == TypeInv /\ MutualExclusion /\ [Next]_vars => MutualExclusion'
<1> SUFFICES ASSUME TypeInv, MutualExclusion, [Next]_vars PROVE MutualExclusion'
  OBVIOUS
<1> USE DEF TypeInv, TypeOK, PC, MutualExclusion, Inside, InSection, Goto
<1>1. CASE UNCHANGED vars
  BY <1>1 DEF vars
<1>2. ASSUME NEW p \in Proc, NEW u \in Update, Call(p, u) PROVE MutualExclusion'
  BY <1>2 DEF Call
<1>3. ASSUME NEW p \in Proc, Step(p) PROVE MutualExclusion'
  <2>1. CASE LockCreated(p)
    BY <2>1 DEF LockCreated, CreatesExclusively, Retrying
  <2>2. CASE LockBusy(p) \/ LockCreateFails(p) \/ LockTimeout(p)
    BY <2>2 DEF LockBusy, LockCreateFails, Retrying, LockTimeout
  <2>3. CASE Load(p) \/ CallbackThrows(p) \/ Truncate(p) \/ Write(p)
    BY <2>3 DEF Load, CallbackThrows, Truncate, Write
  <2>4. CASE OpenFails(p) \/ WriteFails(p)
    BY <2>4 DEF OpenFails, WriteFails
  <2>5. CASE Release(p) \/ ReleaseFails(p)
    <3>1. Inside(p) /\ pc' = [pc EXCEPT ![p] = "idle"]
      BY <2>5 DEF Release, ReleaseFails, Finish
    <3>2. \A q \in Proc : ~Inside(q)'
      BY <3>1
    <3> QED
      BY <3>2
  <2> QED
    BY <1>3, <2>1, <2>2, <2>3, <2>4, <2>5 DEF Step
<1>4. ASSUME NEW p \in Proc, Read(p) \/ Crash(p) \/ Restart(p) PROVE MutualExclusion'
  BY <1>4 DEF Read, Crash, Restart
<1> QED
  BY <1>1, <1>2, <1>3, <1>4 DEF Next

(* At most one process is between creating and removing the lock file, for *)
(* any number of crashes and failing file-system calls.                    *)
THEOREM LockExcludes == Spec => []MutualExclusion
<1>1. Init => MutualExclusion
  BY DEF Init, MutualExclusion, Inside, InSection
<1> QED
  BY <1>1, LockStep, TypeInvariant, PTL DEF Spec

-----------------------------------------------------------------------------
(* What a call in progress means for its update, and for no one else's.    *)
OpInv ==
    /\ \A p \in Proc : InCall(p) => op[p] \notin returned \cup thrown
    /\ \A p \in Proc : pc[p] \in {"acquire", "load", "callback", "truncated", "failed"}
                         => op[p] \notin file
    /\ \A p, q \in Proc : p # q /\ op[p] = op[q] => op[p] = NoUpdate
    /\ \A p \in Proc : pc[p] \in {"callback", "truncated"} => loaded[p] \subseteq file
    /\ ThrownHaveNoEffect

LEMMA OpStep == TypeInv /\ MutualExclusion /\ OpInv /\ [Next]_vars => OpInv'
<1> SUFFICES ASSUME TypeInv, MutualExclusion, OpInv, [Next]_vars PROVE OpInv'
  OBVIOUS
<1> USE NullsAssumption
    DEF TypeInv, TypeOK, PC, OpInv, InCall, ThrownHaveNoEffect, Goto
<1>1. CASE UNCHANGED vars
  BY <1>1 DEF vars
<1>2. ASSUME NEW p \in Proc, NEW u \in Update, Call(p, u) PROVE OpInv'
  BY <1>2 DEF Call, Issued
<1>3. ASSUME NEW p \in Proc, Step(p) PROVE OpInv'
  <2>1. CASE LockCreated(p) \/ LockBusy(p) \/ LockCreateFails(p)
    BY <2>1 DEF LockCreated, CreatesExclusively, Retrying, LockBusy, LockCreateFails
  <2>2. CASE LockTimeout(p)
    BY <2>2 DEF LockTimeout
  <2>3. CASE Load(p)
    BY <2>3 DEF Load, Readable
  <2>4. CASE CallbackThrows(p) \/ Truncate(p) \/ OpenFails(p) \/ WriteFails(p)
    BY <2>4 DEF CallbackThrows, Truncate, OpenFails, WriteFails
  <2>5. CASE Write(p)
    <3>1. \A q \in Proc : q # p => pc[q] \notin {"callback", "truncated"}
      BY <2>5 DEF Write, MutualExclusion, Inside, InSection
    <3>2. file' \subseteq file \cup {op[p]}
      BY <2>5 DEF Write
    <3> QED
      BY <2>5, <3>1, <3>2 DEF Write
  <2>6. CASE Release(p) \/ ReleaseFails(p)
    <3>1. /\ pc' = [pc EXCEPT ![p] = "idle"]
          /\ op' = [op EXCEPT ![p] = NoUpdate]
          /\ UNCHANGED <<file, loaded>>
      BY <2>6 DEF Release, ReleaseFails, Finish
    <3>2. CASE pc[p] = "written"
      <4>1. returned' = returned \cup {op[p]} /\ thrown' = thrown
        BY <2>6, <3>2 DEF Release, ReleaseFails, Finish
      <4> QED
        BY <3>1, <3>2, <4>1
    <3>3. CASE pc[p] = "failed"
      <4>1. returned' = returned /\ thrown' = thrown \cup {op[p]}
        BY <2>6, <3>3 DEF Release, ReleaseFails, Finish
      <4> QED
        BY <3>1, <3>3, <4>1
    <3> QED
      BY <2>6, <3>2, <3>3 DEF Release, ReleaseFails
  <2> QED
    BY <1>3, <2>1, <2>2, <2>3, <2>4, <2>5, <2>6 DEF Step
<1>4. ASSUME NEW p \in Proc, Read(p) \/ Crash(p) \/ Restart(p) PROVE OpInv'
  BY <1>4 DEF Read, Crash, Restart
<1> QED
  BY <1>1, <1>2, <1>3, <1>4 DEF Next

LEMMA OpInit == Init => OpInv /\ MutualExclusion
BY DEF Init, OpInv, InCall, ThrownHaveNoEffect, MutualExclusion, Inside, InSection

LEMMA OpInvariant == Spec => [](TypeInv /\ MutualExclusion /\ OpInv)
BY OpInit, OpStep, LockStep, TypeInvariant, PTL DEF Spec

(* A call that threw left no trace in the file, even when a write of some  *)
(* other call failed half way.                                             *)
THEOREM ThrowsAreClean == Spec => []ThrownHaveNoEffect
<1>1. OpInv => ThrownHaveNoEffect
  BY DEF OpInv
<1> QED
  BY <1>1, OpInvariant, PTL

-----------------------------------------------------------------------------
(* As long as no write has failed half way, only a process that is inside,  *)
(* or died inside, has the file torn, and what it loaded is what the file   *)
(* held.                                                                    *)
Durable ==
    /\ torn => lock
    /\ \A p \in Proc : Inside(p) /\ torn => pc[p] = "truncated"
    /\ \A p \in Proc : pc[p] \in {"callback", "truncated"} => loaded[p] = file
    /\ \A p \in Proc : pc[p] = "written" => op[p] \in file
    /\ returned \subseteq file

DurableInv == NoTornWrite => Durable

(* A failed write is never forgotten. *)
LEMMA NoTornWriteYet ==
    ASSUME TypeInv, [Next]_vars, NoTornWrite'
    PROVE  NoTornWrite /\ \A p \in Proc : ~WriteFails(p)
<1> USE DEF NoTornWrite, TypeInv, TypeOK, faults
<1>1. CASE UNCHANGED vars
  BY <1>1, BudgetAssumption DEF vars, WriteFails
<1>2. ASSUME NEW q \in Proc, NEW u \in Update, Call(q, u) PROVE tornWrites' = tornWrites
  BY <1>2 DEF Call
<1>3. ASSUME NEW q \in Proc, Step(q)
      PROVE  tornWrites' = tornWrites \/ (WriteFails(q) /\ tornWrites' = tornWrites + 1)
  BY <1>3 DEF Step, LockCreated, LockBusy, LockCreateFails, LockTimeout, Load, CallbackThrows,
              Truncate, Write, OpenFails, WriteFails, Finish, Release, ReleaseFails
<1>4. ASSUME NEW q \in Proc, Read(q) \/ Crash(q) \/ Restart(q) PROVE tornWrites' = tornWrites
  BY <1>4 DEF Read, Crash, Restart
<1>5. tornWrites' \in {tornWrites, tornWrites + 1}
  BY <1>1, <1>2, <1>3, <1>4 DEF Next, vars
<1>6. tornWrites = 0 /\ tornWrites' = 0
  BY <1>5, BudgetAssumption
<1> QED
  BY <1>6 DEF WriteFails

LEMMA DurableStep == TypeInv /\ MutualExclusion /\ DurableInv /\ [Next]_vars => DurableInv'
<1> SUFFICES ASSUME TypeInv, MutualExclusion, DurableInv, [Next]_vars, NoTornWrite'
             PROVE  Durable'
  BY DEF DurableInv
<1>0. Durable /\ \A p \in Proc : ~WriteFails(p)
  BY NoTornWriteYet DEF DurableInv
<1> USE <1>0 DEF TypeInv, TypeOK, PC, Durable, MutualExclusion, Inside, InSection, Goto
<1>1. CASE UNCHANGED vars
  BY <1>1 DEF vars
<1>2. ASSUME NEW p \in Proc, NEW u \in Update, Call(p, u) PROVE Durable'
  BY <1>2 DEF Call
<1>3. ASSUME NEW p \in Proc, Step(p) PROVE Durable'
  <2>1. CASE LockCreated(p) \/ LockBusy(p) \/ LockCreateFails(p) \/ LockTimeout(p)
    BY <2>1 DEF LockCreated, CreatesExclusively, Retrying, LockBusy, LockCreateFails, LockTimeout
  <2>2. CASE Load(p)
    BY <2>2 DEF Load, Readable
  <2>3. CASE CallbackThrows(p) \/ Truncate(p) \/ OpenFails(p)
    BY <2>3 DEF CallbackThrows, Truncate, OpenFails
  <2>4. CASE Write(p)
    BY <2>4 DEF Write
  <2>5. CASE Release(p) \/ ReleaseFails(p)
    <3>1. /\ pc' = [pc EXCEPT ![p] = "idle"]
          /\ op' = [op EXCEPT ![p] = NoUpdate]
          /\ UNCHANGED <<file, torn, loaded>>
          /\ pc[p] \in {"written", "failed"}
      BY <2>5 DEF Release, ReleaseFails, Finish
    <3>2. ~torn
      BY <3>1
    <3>3. returned' \subseteq file
      BY <2>5 DEF Release, ReleaseFails, Finish
    <3> QED
      BY <3>1, <3>2, <3>3
  <2> QED
    BY <1>3, <2>1, <2>2, <2>3, <2>4, <2>5, <1>0 DEF Step
<1>4. ASSUME NEW p \in Proc, Read(p) \/ Crash(p) \/ Restart(p) PROVE Durable'
  BY <1>4 DEF Read, Crash, Restart
<1> QED
  BY <1>1, <1>2, <1>3, <1>4 DEF Next

LEMMA DurableInvariant == Spec => [](TypeInv /\ MutualExclusion /\ OpInv /\ DurableInv)
<1>1. Init => DurableInv
  BY DEF Init, DurableInv, Durable, Inside, InSection
<1> QED
  BY <1>1, DurableStep, OpInvariant, PTL DEF Spec

(* No call that returned is ever lost, and no torn file is ever rewritten  *)
(* from the empty state it is read as, until a write fails half way.       *)
THEOREM CallsAreDurable == Spec => [](ReturnedSurvive /\ TornIsLocked)
<1>1. DurableInv => ReturnedSurvive /\ TornIsLocked
  BY DEF DurableInv, Durable, ReturnedSurvive, TornIsLocked
<1> QED
  BY <1>1, DurableInvariant, PTL

(* A read without the lock returns nothing or everything that was durable  *)
(* when it was made (getJob and the other queries of the store).           *)
THEOREM ReadsAreWhole == Spec => ReadsAllOrNothing
<1>1. TypeInv /\ DurableInv /\ [Next]_vars
      => [NoTornWrite => \A p \in Proc : seen'[p] # seen[p] =>
              seen'[p] = {} \/ returned \subseteq seen'[p]]_vars
  <2> SUFFICES ASSUME TypeInv, DurableInv, [Next]_vars, NoTornWrite,
                      NEW p \in Proc, seen'[p] # seen[p]
               PROVE  seen'[p] = {} \/ returned \subseteq seen'[p]
    OBVIOUS
  <2>1. PICK q \in Proc : (\E u \in Update : Call(q, u)) \/ Step(q) \/ Read(q) \/ Crash(q) \/ Restart(q)
    BY DEF Next, vars
  <2>2. ~Step(q) /\ ~Crash(q) /\ \A u \in Update : ~Call(q, u)
    BY DEF Call, Step, LockCreated, LockBusy, LockCreateFails, LockTimeout, Load, CallbackThrows,
           Truncate, Write, OpenFails, WriteFails, Finish, Release, ReleaseFails, Crash
  <2>3. seen'[p] = {} \/ seen'[p] = Readable
    BY <2>1, <2>2 DEF Read, Restart, TypeInv, TypeOK
  <2> QED
    BY <2>3 DEF Readable, DurableInv, Durable
<1> QED
  BY <1>1, DurableInvariant, PTL DEF Spec, ReadsAllOrNothing

(* The lock file a dead process or a failing call left is never removed, no *)
(* call returns and nothing is written from then on (#acquireLock,          *)
(* #releaseLock).                                                           *)
THEOREM LockFileStays == Spec => StaleLockIsForever
<1>1. TypeInv /\ [Next]_vars
      => [StaleLock => StaleLock' /\ returned' = returned /\ file' = file]_vars
  <2> SUFFICES ASSUME TypeInv, Next, StaleLock
               PROVE  StaleLock' /\ returned' = returned /\ file' = file
    OBVIOUS
  <2> USE DEF StaleLock, Inside, InSection, TypeInv, TypeOK, Goto
  <2>1. PICK p \in Proc : (\E u \in Update : Call(p, u)) \/ Step(p) \/ Read(p) \/ Crash(p) \/ Restart(p)
    BY DEF Next
  <2>2. CASE \E u \in Update : Call(p, u)
    BY <2>2 DEF Call
  <2>3. CASE Step(p)
    BY <2>3 DEF Step, LockCreated, CreatesExclusively, Retrying, LockBusy, LockCreateFails, LockTimeout, Load,
                CallbackThrows, Truncate, Write, OpenFails, WriteFails, Release, ReleaseFails
  <2>4. CASE Read(p) \/ Crash(p) \/ Restart(p)
    BY <2>4 DEF Read, Crash, Restart
  <2> QED
    BY <2>1, <2>2, <2>3, <2>4
<1> QED
  BY <1>1, DurableInvariant, PTL DEF Spec, StaleLockIsForever

-----------------------------------------------------------------------------
(* What a call's own steps do to the steps it has left. *)
LEMMA StepCounts ==
    ASSUME TypeInv, NEW p \in Proc, Step(p)
    PROVE  /\ StepsLeft(p)' < StepsLeft(p) /\ StepsLeft(p)' \in Int
           /\ \A q \in Proc : q # p => pc'[q] = pc[q] /\ tries'[q] = tries[q]
<1> USE AttemptsAssumption DEF TypeInv, TypeOK, Goto, StepsLeft
<1>1. CASE LockCreated(p) \/ LockBusy(p) \/ LockCreateFails(p) \/ LockTimeout(p)
  <2>1. tries[p] \in 0 .. MaxAttempts
    OBVIOUS
  <2> QED
    BY <1>1, <2>1 DEF LockCreated, LockBusy, LockCreateFails, LockTimeout, Retrying
<1>2. CASE Load(p) \/ CallbackThrows(p) \/ Truncate(p) \/ OpenFails(p)
  BY <1>2 DEF Load, CallbackThrows, Truncate, OpenFails
<1>3. CASE Write(p) \/ WriteFails(p)
  BY <1>3 DEF Write, WriteFails
<1>4. CASE Release(p) \/ ReleaseFails(p)
  BY <1>4 DEF Release, ReleaseFails, Finish
<1> QED
  BY <1>1, <1>2, <1>3, <1>4 DEF Step

(* A call is over after at most MaxAttempts + 5 steps of its process,       *)
(* whatever the other processes do and wherever they die: what CallsEnd     *)
(* rests on, apart from the process being scheduled (#withLockedState).     *)
THEOREM CallsEndSoon ==
    Spec => /\ [](\A p \in Proc : StepsLeft(p) \in 0 .. MaxAttempts + 5)
            /\ CallsAreShort
<1>1. TypeInv => \A p \in Proc : StepsLeft(p) \in 0 .. MaxAttempts + 5
  <2> SUFFICES ASSUME TypeInv, NEW p \in Proc PROVE StepsLeft(p) \in 0 .. MaxAttempts + 5
    OBVIOUS
  <2>1. tries[p] \in 0 .. MaxAttempts /\ pc[p] \in PC
    BY DEF TypeInv, TypeOK
  <2> QED
    BY <2>1, AttemptsAssumption DEF PC, StepsLeft
<1>2. TypeInv /\ [Next]_vars => [Shortens]_vars
  <2> SUFFICES ASSUME TypeInv, Next, NEW p \in Proc
               PROVE  /\ Step(p) => StepsLeft(p)' < StepsLeft(p)
                      /\ pc[p] \notin {"idle", "down"} => StepsLeft(p)' <= StepsLeft(p)
    BY DEF Shortens
  <2>1. StepsLeft(p) \in Nat
    BY <1>1, AttemptsAssumption
  <2>2. CASE Step(p)
    BY <2>1, <2>2, StepCounts
  <2>3. ASSUME NEW q \in Proc, q # p, pc'[p] = pc[p], tries'[p] = tries[p]
        PROVE  StepsLeft(p)' <= StepsLeft(p)
    <3>1. StepsLeft(p)' = StepsLeft(p)
      BY <2>3 DEF StepsLeft
    <3> QED
      BY <2>1, <3>1
  <2>4. ASSUME NEW q \in Proc, Step(q), q # p PROVE StepsLeft(p)' <= StepsLeft(p)
    BY <2>3, <2>4, StepCounts
  <2>5. ASSUME NEW q \in Proc, NEW u \in Update, Call(q, u), pc[p] \notin {"idle", "down"}
        PROVE  StepsLeft(p)' <= StepsLeft(p)
    <3>1. q # p /\ pc'[p] = pc[p] /\ tries'[p] = tries[p]
      BY <2>5 DEF Call, Goto, TypeInv, TypeOK
    <3> QED
      BY <2>3, <3>1
  <2>6. ASSUME NEW q \in Proc, Read(q) \/ Crash(q) \/ Restart(q), pc[p] \notin {"idle", "down"}
        PROVE  StepsLeft(p)' <= StepsLeft(p)
    <3>1. pc'[p] = "down" \/ (pc'[p] = pc[p] /\ tries'[p] = tries[p])
      BY <2>6 DEF Read, Crash, Restart, Goto, TypeInv, TypeOK
    <3>2. pc'[p] = "down" => StepsLeft(p)' = 0
      BY DEF StepsLeft
    <3>3. pc'[p] = pc[p] /\ tries'[p] = tries[p] => StepsLeft(p)' = StepsLeft(p)
      BY DEF StepsLeft
    <3> QED
      BY <2>1, <3>1, <3>2, <3>3
  <2> QED
    BY <2>2, <2>4, <2>5, <2>6 DEF Next
<1>3. Spec => [](\A p \in Proc : StepsLeft(p) \in 0 .. MaxAttempts + 5)
  BY <1>1, TypeInvariant, PTL
<1>4. Spec => CallsAreShort
  BY <1>2, TypeInvariant, PTL DEF Spec, CallsAreShort
<1> QED
  BY <1>3, <1>4

-----------------------------------------------------------------------------
LEMMA StepRefines ==
    ASSUME TypeInv, MutualExclusion, OpInv, DurableInv, [Next]_vars, NoTornWrite'
    PROVE  [Store!Next]_(Store!vars)
<1>0. Durable
  BY NoTornWriteYet DEF DurableInv
<1> USE DEF TypeInv, OpInv, InCall, Goto
<1>1. CASE UNCHANGED vars
  BY <1>1 DEF vars, Store!vars
<1>2. ASSUME NEW p \in Proc, NEW u \in Update, Call(p, u) PROVE UNCHANGED Store!vars
  BY <1>2 DEF Call, Store!vars
<1>3. ASSUME NEW p \in Proc, Step(p) PROVE [Store!Next]_(Store!vars)
  <2>1. CASE LockCreated(p) \/ LockBusy(p) \/ LockCreateFails(p)
    BY <2>1 DEF LockCreated, CreatesExclusively, Retrying, LockBusy, LockCreateFails, Store!vars
  <2>2. CASE LockTimeout(p)
    <3>1. op[p] \in Update /\ Store!Throw(op[p])
      BY <2>2, NullsAssumption DEF LockTimeout, Store!Throw, TypeOK
    <3> QED
      BY <3>1 DEF Store!Next
  <2>3. CASE Load(p) \/ CallbackThrows(p) \/ Truncate(p) \/ OpenFails(p) \/ WriteFails(p)
    BY <2>3 DEF Load, CallbackThrows, Truncate, OpenFails, WriteFails, Store!vars
  <2>4. CASE Write(p)
    <3>1. op[p] \in Update /\ Store!TakeEffect(op[p])
      BY <1>0, <2>4, NullsAssumption DEF Write, Store!TakeEffect, TypeOK, Durable
    <3> QED
      BY <3>1 DEF Store!Next
  <2>5. CASE (Release(p) \/ ReleaseFails(p)) /\ pc[p] = "written"
    <3>1. op[p] \in Update /\ Store!Return(op[p])
      BY <1>0, <2>5, NullsAssumption
      DEF Release, ReleaseFails, Finish, Store!Return, TypeOK, Durable
    <3> QED
      BY <3>1 DEF Store!Next
  <2>6. CASE (Release(p) \/ ReleaseFails(p)) /\ pc[p] = "failed"
    <3>1. op[p] \in Update /\ Store!Throw(op[p])
      BY <2>6, NullsAssumption DEF Release, ReleaseFails, Finish, Store!Throw, TypeOK
    <3> QED
      BY <3>1 DEF Store!Next
  <2> QED
    BY <1>3, <2>1, <2>2, <2>3, <2>4, <2>5, <2>6 DEF Step, Release, ReleaseFails
<1>4. ASSUME NEW p \in Proc, Read(p) \/ Crash(p) \/ Restart(p) PROVE UNCHANGED Store!vars
  BY <1>4 DEF Read, Crash, Restart, Store!vars
<1> QED
  BY <1>1, <1>2, <1>3, <1>4 DEF Next

(* Seen through the last complete document, the lock-file protocol is a    *)
(* store whose calls take effect atomically, once and for good, until a    *)
(* write fails half way.                                                   *)
THEOREM Refinement == Spec => ImplementsAtomicStore
<1>1. Init => Store!Init
  BY DEF Init, Store!Init
<1>2. TypeInv /\ MutualExclusion /\ OpInv /\ DurableInv /\ [Next]_vars
      => [NoTornWrite' => Store!Next]_<<file, returned, thrown>>
  BY StepRefines DEF Store!vars
<1> QED
  BY <1>1, <1>2, DurableInvariant, PTL DEF Spec, ImplementsAtomicStore
=============================================================================
