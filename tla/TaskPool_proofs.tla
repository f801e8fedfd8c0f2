--------------------------- MODULE TaskPool_proofs ---------------------------
(***************************************************************************)
(* Proofs about TaskPool, for any number of callers, targets and slots,    *)
(* and about the schedule engine that feeds it (Scheduler). The inductive  *)
(* invariant of the pool says who holds what (LockInv, SlotInv) and how a  *)
(* target's backoff window and the time since its last failure add up      *)
(* (WindowInv); the properties follow from it.                             *)
(***************************************************************************)
EXTENDS TaskPool, Scheduler, FiniteSetTheorems, TLAPS

\* The mutex of t is held by p exactly while p is past Lock and not yet past
\* Unlock in a call on t.
LockInv ==
  \A p \in Proc, t \in Target :
    lock[t] = p <=> HoldsLock(p) /\ target[p] = t

SlotInv == sem = Cardinality({p \in Proc : HoldsSlot(p)})

\* An open window and the time since the failure add up to the delay; a target
\* over the threshold without an open window has been left alone longer.
WindowInv ==
  \A t \in Target :
    /\ t \in blocked => fails[t] >= RetryThreshold
    /\ InBackoff(t) => idleFor[t] + left[t] = Delay(fails[t])
    /\ ~InBackoff(t) /\ fails[t] >= RetryThreshold
         => idleFor[t] > Delay(fails[t])

IInv == TypeOK /\ LockInv /\ SlotInv /\ NoRunInBackoff /\ WindowInv

-----------------------------------------------------------------------------
\* The delay that recordResult computes is positive and within BackoffMax,
\* however many failures there were.
LEMMA DelayBounded == \A n : Delay(n) \in 1..BackoffMax
BY PoolAssumption DEF Delay

\* NewPool leaves every variable in its range.
LEMMA InitTypeOK == Init => TypeOK
BY PoolAssumption DEF Init, TypeOK, Step

Slots == {p \in Proc : HoldsSlot(p)}

\* The callers past the semaphore are finitely many, so they can be counted.
LEMMA SlotsFinite == IsFiniteSet(Slots) /\ Cardinality(Slots) \in Nat
<1>1. IsFiniteSet(Slots)
  BY PoolAssumption, FS_Subset DEF Slots
<1>2. QED
  BY <1>1, FS_CardinalityType

\* A caller that holds a slot is counted by sem.
LEMMA SlotTaken ==
  ASSUME TypeOK, SlotInv, NEW p \in Proc, HoldsSlot(p)
  PROVE  sem >= 1
<1>1. Cardinality(Slots) # 0
  BY SlotsFinite, FS_EmptySet DEF Slots
<1>2. QED
  BY <1>1, SlotsFinite DEF SlotInv, Slots

\* Every step keeps every variable in its range; Release needs the count.
LEMMA StepTypeOK == TypeOK /\ SlotInv /\ [Next]_poolVars => TypeOK'
<1> SUFFICES ASSUME TypeOK, SlotInv, [Next]_poolVars PROVE TypeOK'
  OBVIOUS
<1> USE PoolAssumption DEF TypeOK, Step, Goto, PassBackoff
<1>1. ASSUME NEW p \in Proc, NEW t \in Target, Call(p, t) PROVE TypeOK'
  BY <1>1 DEF Call
<1>2. ASSUME NEW p \in Proc, Acquire(p) PROVE TypeOK'
  BY <1>2 DEF Acquire, SlotFree
<1>3. ASSUME NEW p \in Proc, Cancel(p) PROVE TypeOK'
  BY <1>3 DEF Cancel
<1>4. ASSUME NEW p \in Proc, Lock(p) PROVE TypeOK'
  BY <1>4 DEF Lock
<1>5. ASSUME NEW p \in Proc, Admit(p) PROVE TypeOK'
  BY <1>5 DEF Admit
<1>6. ASSUME NEW p \in Proc, Refuse(p) PROVE TypeOK'
  BY <1>6 DEF Refuse
<1>7. ASSUME NEW p \in Proc, Finish(p) PROVE TypeOK'
  BY <1>7, DelayBounded DEF Finish, RecordSuccess, RecordFailure
<1>8. ASSUME NEW p \in Proc, Unlock(p) PROVE TypeOK'
  BY <1>8 DEF Unlock
<1>9. ASSUME NEW p \in Proc, Release(p) PROVE TypeOK'
  <2>1. sem >= 1
    BY <1>9, SlotTaken DEF Release, HoldsSlot
  <2>2. QED
    BY <1>9, <2>1 DEF Release
<1>10. CASE Tick
  BY <1>10 DEF Tick
<1>11. CASE UNCHANGED poolVars
  BY <1>11 DEF poolVars
<1>12. QED
  BY <1>1, <1>2, <1>3, <1>4, <1>5, <1>6, <1>7, <1>8, <1>9, <1>10, <1>11
  DEF Next, Do

-----------------------------------------------------------------------------
\* Only the holder of a mutex unlocks it, and it is taken only when free.
LEMMA StepLockInv == TypeOK /\ LockInv /\ [Next]_poolVars => LockInv'
<1> SUFFICES ASSUME TypeOK, LockInv, [Next]_poolVars PROVE LockInv'
  OBVIOUS
<1> USE PoolAssumption DEF TypeOK, LockInv, HoldsLock, Goto
<1>1. ASSUME NEW p \in Proc, NEW t \in Target, Call(p, t) PROVE LockInv'
  BY <1>1 DEF Call
<1>2. ASSUME NEW p \in Proc, Acquire(p) PROVE LockInv'
  BY <1>2 DEF Acquire
<1>3. ASSUME NEW p \in Proc, Cancel(p) PROVE LockInv'
  BY <1>3 DEF Cancel
<1>4. ASSUME NEW p \in Proc, Lock(p) PROVE LockInv'
  BY <1>4 DEF Lock, LockFree
<1>5. ASSUME NEW p \in Proc, Admit(p) PROVE LockInv'
  BY <1>5 DEF Admit
<1>6. ASSUME NEW p \in Proc, Refuse(p) PROVE LockInv'
  BY <1>6 DEF Refuse
<1>7. ASSUME NEW p \in Proc, Finish(p) PROVE LockInv'
  BY <1>7 DEF Finish
<1>8. ASSUME NEW p \in Proc, Unlock(p) PROVE LockInv'
  BY <1>8 DEF Unlock
<1>9. ASSUME NEW p \in Proc, Release(p) PROVE LockInv'
  BY <1>9 DEF Release
<1>10. CASE Tick
  BY <1>10 DEF Tick
<1>11. CASE UNCHANGED poolVars
  BY <1>11 DEF poolVars
<1>12. QED
  BY <1>1, <1>2, <1>3, <1>4, <1>5, <1>6, <1>7, <1>8, <1>9, <1>10, <1>11
  DEF Next, Do

\* Acquire adds its caller to the holders of a slot and Release takes it out;
\* the other steps leave the set as it is.
LEMMA StepSlotInv == TypeOK /\ SlotInv /\ [Next]_poolVars => SlotInv'
<1> SUFFICES ASSUME TypeOK, SlotInv, [Next]_poolVars PROVE SlotInv'
  OBVIOUS
<1> USE DEF TypeOK, HoldsSlot, Goto
<1>1. ASSUME NEW p \in Proc, Acquire(p) PROVE SlotInv'
  <2>1. Slots' = Slots \cup {p} /\ p \notin Slots
    BY <1>1 DEF Acquire, Slots
  <2>2. Cardinality(Slots') = Cardinality(Slots) + 1
    BY <2>1, SlotsFinite, FS_AddElement
  <2>3. QED
    BY <1>1, <2>2 DEF SlotInv, Slots, Acquire
<1>2. ASSUME NEW p \in Proc, Release(p) PROVE SlotInv'
  <2>1. Slots' = Slots \ {p} /\ p \in Slots
    BY <1>2 DEF Release, Slots
  <2>2. Cardinality(Slots') = Cardinality(Slots) - 1
    BY <2>1, SlotsFinite, FS_RemoveElement
  <2>3. QED
    BY <1>2, <2>2 DEF SlotInv, Slots, Release
<1>3. ASSUME NEW p \in Proc,
             \/ \E t \in Target : Call(p, t)
             \/ Cancel(p) \/ Lock(p) \/ Admit(p) \/ Refuse(p) \/ Finish(p) \/ Unlock(p)
      PROVE  SlotInv'
  <2>1. Slots' = Slots /\ sem' = sem
    BY <1>3 DEF Call, Cancel, Lock, Admit, Refuse, Finish, Unlock, Slots
  <2>2. QED
    BY <2>1 DEF SlotInv, Slots
<1>4. CASE Tick \/ UNCHANGED poolVars
  <2>1. Slots' = Slots /\ sem' = sem
    BY <1>4 DEF Tick, poolVars, Slots
  <2>2. QED
    BY <2>1 DEF SlotInv, Slots
<1>5. QED
  BY <1>1, <1>2, <1>3, <1>4 DEF Next, Do

-----------------------------------------------------------------------------
\* Only Finish opens a window, and it leaves the running state; its target's
\* lock keeps every other caller on that target out of "run".
LEMMA StepNoRunInBackoff ==
  TypeOK /\ LockInv /\ NoRunInBackoff /\ [Next]_poolVars => NoRunInBackoff'
<1> SUFFICES ASSUME TypeOK, LockInv, NoRunInBackoff, [Next]_poolVars
             PROVE  NoRunInBackoff'
  OBVIOUS
<1> USE DEF TypeOK, NoRunInBackoff, Goto, PassBackoff
<1>1. ASSUME NEW p \in Proc, NEW t \in Target, Call(p, t) PROVE NoRunInBackoff'
  BY <1>1 DEF Call
<1>2. ASSUME NEW p \in Proc, Admit(p) PROVE NoRunInBackoff'
  BY <1>2 DEF Admit
<1>3. ASSUME NEW p \in Proc, Finish(p) PROVE NoRunInBackoff'
  <2>1. ASSUME NEW q \in Proc, pc'[q] = "run"
        PROVE  pc[q] = "run" /\ target'[q] = target[q] /\ target[q] # target[p]
    BY <1>3, <2>1 DEF Finish, LockInv, HoldsLock
  <2>2. blocked' \subseteq blocked \cup {target[p]}
    BY <1>3 DEF Finish, RecordSuccess, RecordFailure
  <2>3. QED
    BY <2>1, <2>2
<1>4. ASSUME NEW p \in Proc,
             \/ Acquire(p) \/ Cancel(p) \/ Lock(p) \/ Refuse(p)
             \/ Unlock(p) \/ Release(p)
      PROVE  NoRunInBackoff'
  BY <1>4 DEF Acquire, Cancel, Lock, Refuse, Unlock, Release
<1>5. CASE Tick \/ UNCHANGED poolVars
  BY <1>5 DEF Tick, poolVars
<1>6. QED
  BY <1>1, <1>2, <1>3, <1>4, <1>5 DEF Next, Do

\* WindowInv for one target, so that a step is looked at target by target.
WindowOf(t) ==
  /\ t \in blocked => fails[t] >= RetryThreshold
  /\ InBackoff(t) => idleFor[t] + left[t] = Delay(fails[t])
  /\ ~InBackoff(t) /\ fails[t] >= RetryThreshold => idleFor[t] > Delay(fails[t])

\* Deleting the entry of a window that has passed forgets nothing.
LEMMA PassKeepsWindow ==
  ASSUME TypeOK, WindowInv, NEW u \in Target, PassBackoff(u),
         UNCHANGED <<fails, left, idleFor>>
  PROVE  WindowInv'
BY DEF WindowInv, PassBackoff, InBackoff, TypeOK

\* A failure restarts both the window and the clock of its target, or stays
\* under the threshold, where the target had no window to begin with.
LEMMA FinishKeepsWindow ==
  ASSUME TypeOK, NoRunInBackoff, WindowInv, NEW p \in Proc, Finish(p)
  PROVE  WindowInv'
<1> DEFINE u == target[p]
<1>1. u \in Target /\ u \notin blocked
  BY DEF Finish, Goto, NoRunInBackoff, TypeOK
<1>2. SUFFICES ASSUME NEW t \in Target PROVE WindowOf(t)'
  BY DEF WindowOf, WindowInv, InBackoff
<1>3. WindowOf(t)
  BY DEF WindowOf, WindowInv
<1>4. CASE t # u
  <2>1. /\ t \in blocked' <=> t \in blocked
        /\ fails'[t] = fails[t] /\ left'[t] = left[t] /\ idleFor'[t] = idleFor[t]
    BY <1>4 DEF Finish, RecordSuccess, RecordFailure, TypeOK
  <2>2. QED
    BY <1>3, <2>1 DEF WindowOf, InBackoff
<1>5. CASE t = u /\ RecordSuccess(u)
  BY <1>1, <1>5, PoolAssumption DEF RecordSuccess, WindowOf, InBackoff, TypeOK
<1>6. CASE t = u /\ RecordFailure(u)
  <2> DEFINE n == IF fails[u] < MaxFails THEN fails[u] + 1 ELSE MaxFails
  <2> HIDE DEF u
  <2>1. /\ n \in 1..MaxFails \/ n = MaxFails
        /\ fails'[u] = n /\ idleFor'[u] = 0
    BY <1>1, <1>6, PoolAssumption DEF RecordFailure, TypeOK
  <2>2. CASE OpensWindow(n)
    <3>1. u \in blocked' /\ left'[u] = Delay(n)
      BY <1>1, <1>6, <2>2 DEF RecordFailure, TypeOK
    <3>2. left'[u] >= 0
      BY <3>1, DelayBounded
    <3>3. idleFor'[u] + left'[u] = Delay(fails'[u])
      BY <2>1, <3>1, DelayBounded
    <3>4. QED
      BY <1>6, <2>1, <2>2, <3>1, <3>2, <3>3 DEF WindowOf, InBackoff, OpensWindow
  <2>3. CASE ~OpensWindow(n)
    <3>1. u \notin blocked' /\ ~(n >= RetryThreshold)
      BY <1>1, <1>6, <2>3 DEF RecordFailure, OpensWindow
    <3>2. QED
      BY <1>6, <2>1, <3>1 DEF WindowOf, InBackoff
  <2>4. QED
    BY <2>2, <2>3
<1>7. QED
  BY <1>4, <1>5, <1>6 DEF Finish

\* A tick moves one unit from what is left of a window to what has passed.
LEMMA TickKeepsWindow ==
  ASSUME TypeOK, WindowInv, Tick
  PROVE  WindowInv'
<1> SUFFICES ASSUME NEW t \in Target PROVE WindowOf(t)'
  BY DEF WindowOf, WindowInv, InBackoff
<1>1. WindowOf(t)
  BY DEF WindowOf, WindowInv
<1>2. Delay(fails[t]) \in 1..BackoffMax /\ Delay(fails'[t]) = Delay(fails[t])
  BY DelayBounded DEF Tick
<1>3. /\ fails'[t] = fails[t] /\ blocked' = blocked
      /\ left'[t] = IF left[t] >= 0 THEN left[t] - 1 ELSE -1
      /\ idleFor'[t] = IF idleFor[t] <= BackoffMax THEN idleFor[t] + 1 ELSE idleFor[t]
  BY DEF Tick
<1>4. left[t] \in -1..BackoffMax /\ idleFor[t] \in 0..(BackoffMax + 1)
  BY DEF TypeOK
<1>5. QED
  BY <1>1, <1>2, <1>3, <1>4, PoolAssumption DEF WindowOf, InBackoff

\* Every step keeps the account of windows and times: only PassBackoff, Finish
\* and Tick touch it.
LEMMA StepWindowInv ==
  TypeOK /\ NoRunInBackoff /\ WindowInv /\ [Next]_poolVars => WindowInv'
<1> SUFFICES ASSUME TypeOK, NoRunInBackoff, WindowInv, [Next]_poolVars
             PROVE  WindowInv'
  OBVIOUS
<1>1. ASSUME NEW p \in Proc, NEW t \in Target, Call(p, t) PROVE WindowInv'
  BY <1>1, PassKeepsWindow DEF Call
<1>2. ASSUME NEW p \in Proc, Admit(p) PROVE WindowInv'
  <2>1. target[p] \in Target
    BY DEF TypeOK
  <2>2. QED
    BY <1>2, <2>1, PassKeepsWindow DEF Admit
<1>3. ASSUME NEW p \in Proc, Finish(p) PROVE WindowInv'
  BY <1>3, FinishKeepsWindow
<1>4. ASSUME UNCHANGED <<fails, blocked, left, idleFor>> PROVE WindowInv'
  BY <1>4 DEF WindowInv, InBackoff
<1>5. ASSUME NEW p \in Proc,
             \/ Acquire(p) \/ Cancel(p) \/ Lock(p) \/ Refuse(p)
             \/ Unlock(p) \/ Release(p)
      PROVE  WindowInv'
  BY <1>4, <1>5 DEF Acquire, Cancel, Lock, Refuse, Unlock, Release
<1>6. CASE Tick
  BY <1>6, TickKeepsWindow
<1>7. CASE UNCHANGED poolVars
  BY <1>4, <1>7 DEF poolVars
<1>8. QED
  BY <1>1, <1>2, <1>3, <1>5, <1>6, <1>7 DEF Next, Do

-----------------------------------------------------------------------------
\* A new pool satisfies the inductive invariant.
LEMMA InitIInv == Init => IInv
<1> SUFFICES ASSUME Init PROVE IInv
  OBVIOUS
<1>1. TypeOK
  BY InitTypeOK
<1>2. LockInv
  BY PoolAssumption DEF Init, LockInv, HoldsLock
<1>3. SlotInv
  <2>1. Slots = {}
    BY DEF Init, Slots, HoldsSlot
  <2>2. QED
    BY <2>1, FS_EmptySet DEF Init, SlotInv, Slots
<1>4. NoRunInBackoff
  BY DEF Init, NoRunInBackoff
<1>5. WindowInv
  BY PoolAssumption DEF Init, WindowInv, InBackoff
<1>6. QED
  BY <1>1, <1>2, <1>3, <1>4, <1>5 DEF IInv

\* The inductive invariant of the pool: types, who holds which lock and slot,
\* that no task runs in a backoff window, and the account of the windows.
THEOREM PoolInvariant == Spec => []IInv
<1>1. IInv /\ [Next]_poolVars => IInv'
  BY StepTypeOK, StepLockInv, StepSlotInv, StepNoRunInBackoff, StepWindowInv DEF IInv
<1>2. QED
  BY InitIInv, <1>1, PTL DEF Spec

\* Every variable of the pool stays in its range.
THEOREM PoolTypeCorrect == Spec => []TypeOK
<1>1. IInv => TypeOK
  BY DEF IInv
<1>2. QED
  BY <1>1, PoolInvariant, PTL

\* A target's mutex has one holder, so two tasks that run on the same target
\* are one.
LEMMA SerialFromLocks == TypeOK /\ LockInv => PerTargetSerial
BY PoolAssumption DEF TypeOK, LockInv, PerTargetSerial, HoldsLock

\* For any number of callers and BMCs, no BMC is accessed by two tasks at once.
THEOREM PoolIsSerial == Spec => []PerTargetSerial
<1>1. IInv => PerTargetSerial
  BY SerialFromLocks DEF IInv
<1>2. QED
  BY <1>1, PoolInvariant, PTL

\* The semaphore's tokens are the calls past it, and never exceed Concurrency.
THEOREM PoolIsBounded == Spec => []ConcurrencyBound
<1>1. IInv => ConcurrencyBound
  BY DEF IInv, SlotInv, ConcurrencyBound, TypeOK
<1>2. QED
  BY <1>1, PoolInvariant, PTL

\* No task runs on a target that is in its backoff window.
THEOREM PoolRespectsBackoff == Spec => []NoRunInBackoff
<1>1. IInv => NoRunInBackoff
  BY DEF IInv
<1>2. QED
  BY <1>1, PoolInvariant, PTL

\* A target past the threshold is left alone for longer than its delay, for
\* every threshold, base and limit of the delay.
THEOREM PoolSpacesRetries == Spec => []SpacedRetries
<1>1. IInv => SpacedRetries
  <2> SUFFICES ASSUME IInv, NEW p \in Proc, pc[p] = "run",
                      fails[target[p]] >= RetryThreshold
               PROVE  idleFor[target[p]] > Delay(fails[target[p]])
    BY DEF SpacedRetries
  <2>1. target[p] \in Target /\ target[p] \notin blocked
    BY DEF IInv, TypeOK, NoRunInBackoff
  <2>2. QED
    BY <2>1 DEF IInv, WindowInv, InBackoff
<1>2. QED
  BY <1>1, PoolInvariant, PTL

-----------------------------------------------------------------------------
(* The pool implements PollAccess. *)

\* The goroutine whose task runs on t, as the refinement mapping has it.
Active == [t \in Target |->
             IF \E p \in Proc : pc[p] = "run" /\ target[p] = t
             THEN lock[t] ELSE NoProc]

\* The holder of the lock of a target with a running task is that task's
\* goroutine: what the refinement mapping shows of a target.
LEMMA ActiveIs ==
  ASSUME TypeOK, LockInv, NEW t \in Target, NEW p \in Proc
  PROVE  Active[t] = p <=> pc[p] = "run" /\ target[p] = t
BY PoolAssumption DEF Active, TypeOK, LockInv, HoldsLock

\* PollAccess counts with the Cardinality this module has.
LEMMA SameCount == \A S : Access!Cardinality(S) = Cardinality(S)
BY DEF Access!Cardinality, Cardinality

\* The targets with a running task, each with the holder of its lock, are at
\* most the calls past the semaphore; a call about to run is one more.
LEMMA RoomToStart ==
  ASSUME TypeOK, LockInv, SlotInv, NEW p \in Proc, pc[p] = "recheck"
  PROVE  Cardinality({t \in Target : Active[t] # NoProc}) < Concurrency
<1> DEFINE B == {t \in Target : Active[t] # NoProc}
           R == Slots \ {p}
           f == [t \in B |-> Active[t]]
<1>1. p \in Slots /\ IsFiniteSet(R) /\ Cardinality(R) = Cardinality(Slots) - 1
  BY SlotsFinite, FS_RemoveElement DEF Slots, HoldsSlot
<1>2. \A t \in B : /\ Active[t] \in Proc
                   /\ pc[Active[t]] = "run" /\ target[Active[t]] = t
  BY PoolAssumption DEF Active, TypeOK, LockInv, HoldsLock
<1>3. f \in Injection(B, R)
  BY <1>2 DEF Injection, IsInjective, Slots, HoldsSlot
<1>4. Cardinality(B) <= Cardinality(R) /\ IsFiniteSet(B)
  BY <1>1, <1>3, FS_Injection
<1>5. QED
  BY <1>1, <1>4, SlotsFinite, FS_CardinalityType, PoolAssumption
  DEF SlotInv, Slots, TypeOK

\* Every step of the pool is a Start, a Stop or a stutter of PollAccess: Admit
\* starts a task, Finish stops it, the rest is invisible.
LEMMA StepImplements ==
  TypeOK /\ LockInv /\ SlotInv /\ LockInv' /\ TypeOK' /\ [Next]_poolVars
    => [Access!AccessNext]_Active
<1> SUFFICES ASSUME TypeOK, LockInv, SlotInv, LockInv', TypeOK', [Next]_poolVars
             PROVE  Access!AccessNext \/ Active' = Active
  OBVIOUS
<1>1. ASSUME NEW p \in Proc, Admit(p) PROVE Access!Start(p, target[p])
  <2>1. pc[p] = "recheck" /\ target[p] \in Target
    BY <1>1 DEF Admit, Goto, TypeOK
  <2>2. Active[target[p]] = NoProc
    BY <2>1, PoolAssumption DEF Active, TypeOK, LockInv, HoldsLock
  <2>3. Active' = [Active EXCEPT ![target[p]] = p]
    <3>1. /\ pc' = [pc EXCEPT ![p] = "run"] /\ pc \in [Proc -> Step]
          /\ target' = target /\ lock' = lock /\ lock[target[p]] = p
      BY <1>1, <2>1 DEF Admit, Goto, TypeOK, LockInv, HoldsLock
    <3>2. \A t \in Target \ {target[p]} : Active'[t] = Active[t]
      BY <3>1 DEF Active
    <3>3. Active'[target[p]] = p
      BY <2>1, <3>1 DEF Active
    <3>4. /\ DOMAIN Active = Target /\ DOMAIN Active' = Target
          /\ Active = [t \in DOMAIN Active |-> Active[t]]
          /\ Active' = [t \in DOMAIN Active' |-> Active'[t]]
      BY DEF Active
    <3>5. QED
      <4> HIDE DEF Active
      <4>1. QED
        BY <2>1, <3>2, <3>3, <3>4
  <2>4. QED
    BY <2>1, <2>2, <2>3, RoomToStart, SameCount DEF Access!Start, Access!Busy, Active
<1>2. ASSUME NEW p \in Proc, Finish(p) PROVE Access!Stop(p, target[p])
  <2>1. pc[p] = "run" /\ target[p] \in Target /\ lock[target[p]] = p
    BY <1>2 DEF Finish, Goto, TypeOK, LockInv, HoldsLock
  <2>2. Active' = [Active EXCEPT ![target[p]] = NoProc]
    <3>1. /\ pc' = [pc EXCEPT ![p] = "unlock"] /\ pc \in [Proc -> Step]
          /\ target' = target /\ lock' = lock
      BY <1>2 DEF Finish, Goto, TypeOK
    <3>2. \A t \in Target \ {target[p]} : Active'[t] = Active[t]
      BY <3>1 DEF Active
    <3>3. \A q \in Proc : pc[q] = "run" /\ target[q] = target[p] => q = p
      BY <2>1 DEF LockInv, HoldsLock
    <3>4. Active'[target[p]] = NoProc
      BY <2>1, <3>1, <3>3 DEF Active
    <3>5. QED
      BY <3>2, <3>4 DEF Active
  <2>3. Active[target[p]] = p
    BY <2>1 DEF Active, TypeOK
  <2>4. QED
    BY <2>2, <2>3 DEF Access!Stop, Active
<1>3. ASSUME NEW p \in Proc,
             \/ \E t \in Target : Call(p, t)
             \/ Acquire(p) \/ Cancel(p) \/ Lock(p) \/ Refuse(p)
             \/ Unlock(p) \/ Release(p)
      PROVE  Active' = Active
  <2>1. \A q \in Proc : /\ pc'[q] = "run" <=> pc[q] = "run"
                        /\ pc[q] = "run" => target'[q] = target[q]
    BY <1>3 DEF Call, Acquire, Cancel, Lock, Refuse, Unlock, Release, Goto, TypeOK
  <2>2. \A t \in Target :
          (\E q \in Proc : pc[q] = "run" /\ target[q] = t) => lock'[t] = lock[t]
    <3> SUFFICES ASSUME NEW t \in Target, NEW q \in Proc, pc[q] = "run", target[q] = t
                 PROVE  lock'[t] = lock[t]
      OBVIOUS
    <3>1. lock[t] = q
      BY DEF LockInv, HoldsLock
    <3>2. lock'[t] = q
      BY <2>1 DEF LockInv, HoldsLock
    <3>3. QED
      BY <3>1, <3>2
  <2>3. QED
    BY <2>1, <2>2 DEF Active
<1>4. CASE Tick \/ UNCHANGED poolVars
  BY <1>4 DEF Tick, poolVars, Active
<1>5. ASSUME NEW p \in Proc, Admit(p) \/ Finish(p) PROVE Access!AccessNext
  <2>1. target[p] \in Target
    BY DEF TypeOK
  <2>2. Access!Start(p, target[p]) \/ Access!Stop(p, target[p])
    BY <1>1, <1>2, <1>5
  <2>3. QED
    BY <2>1, <2>2 DEF Access!AccessNext, Access!Start, Access!Stop
<1>6. QED
  BY <1>3, <1>4, <1>5 DEF Next, Do

\* The pool gives every BMC exclusive access and keeps to the global limit,
\* step by step as PollAccess describes it.
THEOREM PoolImplementsAccess == Spec => ImplementsAccess
<1>1. Init => Access!AccessInit
  BY DEF Init, Access!AccessInit
<1>2. IInv /\ IInv' /\ [Next]_poolVars => [Access!AccessNext]_Active
  BY StepImplements DEF IInv
<1>3. QED
  BY <1>1, <1>2, PoolInvariant, PTL
  DEF Spec, ImplementsAccess, Access!AccessSpec, Active

-----------------------------------------------------------------------------
(* The schedule engine *)

SchedSpec == SchedInit /\ [][SchedNext]_schedVars

\* Every variable of the registry and of the syncs stays in its range.
SchedType ==
  /\ ipmi \subseteq BMCHost
  /\ stateOf \in [BMCHost -> Nat] /\ made \in [BMCHost -> Nat]
  /\ sync \in [Syncer -> {"idle", "list", "add", "remove"}]
  /\ want \in [Syncer -> SUBSET BMCHost] /\ visit \in [Syncer -> SUBSET BMCHost]
  /\ settled \in BOOLEAN

\* What a sync that has read the hosts still has to do, when it is the only one.
Adding(s) ==
  sync[s] = "add" /\ visit[s] \subseteq ipmi /\ ipmi \ visit[s] \subseteq Registered
Removing(s) ==
  /\ sync[s] = "remove" /\ ipmi \subseteq Registered
  /\ Registered \ ipmi \subseteq visit[s] /\ visit[s] \cap ipmi = {}
Converging(s) ==
  /\ \A t \in Syncer \ {s} : Idle(t)
  /\ want[s] = ipmi
  /\ Adding(s) \/ Removing(s)

SettledOrConverging ==
  settled =>
    \/ (\A s \in Syncer : Idle(s)) /\ Registered = ipmi
    \/ \E s \in Syncer : Converging(s)

SchedInv == SchedType /\ SettledOrConverging

-----------------------------------------------------------------------------
LEMMA SchedInitInv == SchedInit => SchedInv
<1> SUFFICES ASSUME SchedInit PROVE SchedInv
  OBVIOUS
<1>1. SchedType
  BY DEF SchedInit, SchedType
<1>2. Registered = ipmi /\ \A s \in Syncer : Idle(s)
  BY DEF SchedInit, Registered, Idle
<1>3. QED
  BY <1>1, <1>2 DEF SchedInv, SettledOrConverging

\* A step of the loop or of a poll.
LEMMA SchedFrame ==
  ASSUME SchedInv, UNCHANGED <<ipmi, stateOf, made, syncing, settled>>
  PROVE  SchedInv'
<1>1. SchedType'
  BY DEF SchedInv, SchedType, syncing
<1>2. Registered' = Registered /\ \A s \in Syncer : Idle(s)' = Idle(s) /\ Converging(s)' = Converging(s)
  BY DEF Registered, Idle, Converging, Adding, Removing, syncing
<1>3. QED
  BY <1>1, <1>2 DEF SchedInv, SettledOrConverging

\* A change of the hosts, with or without a sync of its own, settles nothing.
LEMMA Unsettled ==
  ASSUME SchedInv, ipmi' \subseteq BMCHost, UNCHANGED <<stateOf, made, want, visit>>,
         settled' = FALSE,
         UNCHANGED sync \/ \E s \in Syncer : sync' = [sync EXCEPT ![s] = "list"]
  PROVE  SchedInv'
<1>1. sync' \in [Syncer -> {"idle", "list", "add", "remove"}]
  BY DEF SchedInv, SchedType
<1>2. SchedType'
  BY <1>1 DEF SchedInv, SchedType
<1>3. QED
  BY <1>2 DEF SchedInv, SettledOrConverging

LEMMA ListInv ==
  ASSUME SchedInv, NEW s \in Syncer, List(s)
  PROVE  SchedInv'
<1>1. /\ sync[s] = "list" /\ UNCHANGED <<ipmi, stateOf, made>>
      /\ ipmi \subseteq BMCHost
  BY DEF List, hostRows, registry, SchedInv, SchedType
<1>2. CASE /\ sync' = [sync EXCEPT ![s] = "add"]
           /\ want' = [want EXCEPT ![s] = ipmi] /\ visit' = [visit EXCEPT ![s] = ipmi]
           /\ settled' = \A t \in Syncer \ {s} : Idle(t)
  <2>1. /\ sync' \in [Syncer -> {"idle", "list", "add", "remove"}]
        /\ sync'[s] = "add" /\ \A t \in Syncer \ {s} : sync'[t] = sync[t]
    BY <1>2 DEF SchedInv, SchedType
  <2>2. /\ want' \in [Syncer -> SUBSET BMCHost] /\ visit' \in [Syncer -> SUBSET BMCHost]
        /\ want'[s] = ipmi /\ visit'[s] = ipmi
    BY <1>1, <1>2 DEF SchedInv, SchedType
  <2>3. settled' \in BOOLEAN
    BY <1>2
  <2>4. SchedType'
    BY <1>1, <2>1, <2>2, <2>3 DEF SchedInv, SchedType
  <2>5. settled' => Converging(s)'
    BY <1>1, <1>2, <2>1, <2>2 DEF Converging, Adding, Idle
  <2>6. QED
    BY <2>4, <2>5 DEF SchedInv, SettledOrConverging
<1>3. CASE sync' = [sync EXCEPT ![s] = "idle"] /\ UNCHANGED <<want, visit, settled>>
  <2>1. sync' \in [Syncer -> {"idle", "list", "add", "remove"}]
    BY <1>3 DEF SchedInv, SchedType
  <2>2. SchedType'
    BY <1>1, <1>3, <2>1 DEF SchedInv, SchedType
  <2>3. ~settled
    BY <1>1 DEF SchedInv, SettledOrConverging, Converging, Adding, Removing, Idle
  <2>4. QED
    BY <1>3, <2>2, <2>3 DEF SchedInv, SettledOrConverging
<1>4. QED
  BY <1>2, <1>3 DEF List, Listed

\* A sync that does not rest is the one that converges.
LEMMA TheOneAtWork ==
  ASSUME SchedInv, NEW s \in Syncer, settled, ~Idle(s)
  PROVE  Converging(s)
  BY DEF SchedInv, SettledOrConverging, Converging

LEMMA AddInv ==
  ASSUME SchedInv, NEW s \in Syncer, NEW h \in BMCHost, Add(s, h)
  PROVE  SchedInv'
<1>1. /\ sync[s] = "add" /\ h \in visit[s]
      /\ visit' = [visit EXCEPT ![s] = @ \ {h}]
      /\ UNCHANGED <<ipmi, sync, want, settled>>
  BY DEF Add, hostRows
<1>2. /\ visit' \in [Syncer -> SUBSET BMCHost] /\ visit'[s] = visit[s] \ {h}
      /\ \A t \in Syncer \ {s} : visit'[t] = visit[t]
  BY <1>1 DEF SchedInv, SchedType
<1>3. /\ stateOf' \in [BMCHost -> Nat] /\ made' \in [BMCHost -> Nat]
      /\ stateOf'[h] # 0 /\ \A g \in BMCHost \ {h} : stateOf'[g] = stateOf[g]
  <2>1. CASE h \in Registered
    BY <2>1 DEF Add, registry, Registered, SchedInv, SchedType
  <2>2. CASE h \notin Registered
    <3>1. made' = [made EXCEPT ![h] = @ + 1] /\ stateOf' = [stateOf EXCEPT ![h] = made[h] + 1]
      BY <2>2 DEF Add
    <3>2. made[h] \in Nat
      BY DEF SchedInv, SchedType
    <3>3. QED
      BY <3>1, <3>2 DEF SchedInv, SchedType
  <2>3. QED
    BY <2>1, <2>2
<1>4. SchedType'
  BY <1>1, <1>2, <1>3 DEF SchedInv, SchedType
<1>5. Registered' = Registered \cup {h}
  BY <1>3 DEF Registered
<1>6. ASSUME settled' PROVE Converging(s)'
  <2>1. Converging(s) /\ Adding(s)
    BY <1>1, <1>6, TheOneAtWork DEF Converging, Removing, Idle
  <2>2. Adding(s)'
    BY <1>1, <1>2, <1>5, <2>1 DEF Adding
  <2>3. QED
    BY <1>1, <2>1, <2>2 DEF Converging, Idle
<1>7. QED
  BY <1>4, <1>6 DEF SchedInv, SettledOrConverging

LEMMA IDsInv ==
  ASSUME SchedInv, NEW s \in Syncer, IDs(s)
  PROVE  SchedInv'
<1>1. /\ sync[s] = "add" /\ visit[s] = {}
      /\ sync' = [sync EXCEPT ![s] = "remove"]
      /\ visit' = [visit EXCEPT ![s] = Registered \ want[s]]
      /\ UNCHANGED <<ipmi, stateOf, made, want, settled>>
  BY DEF IDs, hostRows, registry
<1>2. /\ visit' \in [Syncer -> SUBSET BMCHost] /\ visit'[s] = Registered \ want[s]
  BY <1>1 DEF SchedInv, SchedType, Registered
<1>3. /\ sync' \in [Syncer -> {"idle", "list", "add", "remove"}]
      /\ sync'[s] = "remove" /\ \A t \in Syncer \ {s} : sync'[t] = sync[t]
  BY <1>1 DEF SchedInv, SchedType
<1>4. SchedType'
  BY <1>1, <1>2, <1>3 DEF SchedInv, SchedType
<1>5. ASSUME settled' PROVE Converging(s)'
  <2>1. Converging(s) /\ Adding(s)
    BY <1>1, <1>5, TheOneAtWork DEF Converging, Removing, Idle
  <2>2. Registered' = Registered
    BY <1>1 DEF Registered
  <2>3. Removing(s)'
    BY <1>1, <1>2, <1>3, <2>1, <2>2 DEF Adding, Removing, Converging
  <2>4. QED
    BY <1>1, <1>3, <2>1, <2>3 DEF Converging, Idle
<1>6. QED
  BY <1>4, <1>5 DEF SchedInv, SettledOrConverging

LEMMA RemoveTargetInv ==
  ASSUME SchedInv, NEW s \in Syncer, NEW h \in BMCHost, RemoveTarget(s, h)
  PROVE  SchedInv'
<1>1. /\ sync[s] = "remove" /\ h \in visit[s]
      /\ visit' = [visit EXCEPT ![s] = @ \ {h}]
      /\ stateOf' = [stateOf EXCEPT ![h] = 0]
      /\ UNCHANGED <<ipmi, made, sync, want, settled>>
  BY DEF RemoveTarget, hostRows
<1>2. visit' \in [Syncer -> SUBSET BMCHost] /\ visit'[s] = visit[s] \ {h}
  BY <1>1 DEF SchedInv, SchedType
<1>3. /\ stateOf' \in [BMCHost -> Nat]
      /\ stateOf'[h] = 0 /\ \A g \in BMCHost \ {h} : stateOf'[g] = stateOf[g]
  BY <1>1 DEF SchedInv, SchedType
<1>4. SchedType'
  BY <1>1, <1>2, <1>3 DEF SchedInv, SchedType
<1>5. Registered' = Registered \ {h}
  BY <1>3 DEF Registered
<1>6. ASSUME settled' PROVE Converging(s)'
  <2>1. Converging(s) /\ Removing(s)
    BY <1>1, <1>6, TheOneAtWork DEF Converging, Adding, Idle
  <2>2. Removing(s)'
    BY <1>1, <1>2, <1>5, <2>1 DEF Removing
  <2>3. QED
    BY <1>1, <2>1, <2>2 DEF Converging, Idle
<1>7. QED
  BY <1>4, <1>6 DEF SchedInv, SettledOrConverging

LEMMA ReturnInv ==
  ASSUME SchedInv, NEW s \in Syncer, Return(s)
  PROVE  SchedInv'
<1>1. /\ sync[s] = "remove" /\ visit[s] = {}
      /\ sync' = [sync EXCEPT ![s] = "idle"]
      /\ UNCHANGED <<ipmi, stateOf, made, want, visit, settled>>
  BY DEF Return, hostRows, registry
<1>2. /\ sync' \in [Syncer -> {"idle", "list", "add", "remove"}]
      /\ sync'[s] = "idle" /\ \A t \in Syncer \ {s} : sync'[t] = sync[t]
  BY <1>1 DEF SchedInv, SchedType
<1>3. SchedType'
  BY <1>1, <1>2 DEF SchedInv, SchedType
<1>4. ASSUME settled' PROVE (\A t \in Syncer : Idle(t)') /\ Registered' = ipmi'
  <2>1. Converging(s) /\ Removing(s)
    BY <1>1, <1>4, TheOneAtWork DEF Converging, Adding, Idle
  <2>2. Registered = ipmi
    BY <1>1, <2>1 DEF Removing
  <2>3. QED
    BY <1>1, <1>2, <2>1, <2>2 DEF Converging, Idle, Registered
<1>5. QED
  BY <1>3, <1>4 DEF SchedInv, SettledOrConverging

\* Every step of the requests, the syncs, the loop and the polls keeps the invariant.
LEMMA SchedStepInv == SchedInv /\ [SchedNext]_schedVars => SchedInv'
<1> SUFFICES ASSUME SchedInv, [SchedNext]_schedVars PROVE SchedInv'
  OBVIOUS
<1>1. ASSUME NEW h \in BMCHost, CreateOrDelete(h) PROVE SchedInv'
  <2>1. ipmi' \subseteq BMCHost
    BY <1>1 DEF CreateOrDelete, SchedInv, SchedType
  <2>2. QED
    BY <1>1, <2>1, Unsettled DEF CreateOrDelete, registry, syncing
<1>2. ASSUME NEW h \in BMCHost, NEW s \in Syncer, SetCredential(h, s) \/ RemoveCredential(h, s)
      PROVE  SchedInv'
  <2>1. UNCHANGED <<stateOf, made, want, visit>>
    BY <1>2 DEF SetCredential, RemoveCredential, registry
  <2>2. CASE Begin(s) /\ ipmi' \in {ipmi \cup {h}, ipmi \ {h}}
    BY <2>1, <2>2, Unsettled DEF Begin, SchedInv, SchedType
  <2>3. CASE UNCHANGED <<ipmi, sync, settled>>
    BY <2>1, <2>3, SchedFrame DEF syncing
  <2>4. QED
    BY <1>2, <2>2, <2>3 DEF SetCredential, RemoveCredential
<1>3. ASSUME NEW s \in Syncer, Sync(s) PROVE SchedInv'
  BY <1>3, ListInv, IDsInv, ReturnInv, AddInv, RemoveTargetInv DEF Sync
<1>4. CASE Plan \/ Collect \/ Dispatched \/ Elapse \/ \E h \in BMCHost : Expire(h)
  BY <1>4, SchedFrame DEF Plan, Collect, Dispatched, Elapse, Expire, hostRows, registry
<1>5. ASSUME NEW st \in batch \cup flights, Advance(st) PROVE SchedInv'
  BY <1>5, SchedFrame DEF Advance, Dispatch, Refused, Polled, hostRows
<1>6. CASE UNCHANGED schedVars
  BY <1>6, SchedFrame DEF schedVars, hostRows, registry
<1>7. QED
  BY <1>1, <1>2, <1>3, <1>4, <1>5, <1>6 DEF SchedNext

\* However many hosts and syncs there are, a sync that has read the hosts after
\* the last change and runs alone leaves exactly their targets registered,
\* whatever earlier syncs have left behind.
THEOREM SchedFollowsHosts == SchedSpec => []TargetsFollowHosts
<1>1. SchedInv => TargetsFollowHosts
  BY DEF SchedInv, SettledOrConverging, TargetsFollowHosts, Converging, Adding, Removing, Idle
<1>2. QED
  BY <1>1, SchedInitInv, SchedStepInv, PTL DEF SchedSpec
=============================================================================
