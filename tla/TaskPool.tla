------------------------------ MODULE TaskPool ------------------------------
(***************************************************************************)
(* The poll task pool of the server (backend/internal/task/pool.go):       *)
(* a global semaphore, one mutex per target, and per-target exponential    *)
(* backoff after repeated failures.  Each member of Proc is a goroutine    *)
(* that calls Pool.Do again and again; pc follows it through the call.     *)
(*                                                                         *)
(* Time is counted in ticks.  blocked is the key set of the map            *)
(* Pool.blocked and left[t] the time until blocked[t] expires: a window    *)
(* has passed when left[t] = -1 (now.After(until) is strict).              *)
(***************************************************************************)
EXTENDS Integers, FiniteSets

CONSTANTS
  Proc,            \* goroutines that call Do
  Target,          \* BMC addresses: the serialisation and backoff key
  NoProc,          \* an unlocked mutex: not a member of Proc
  Concurrency,     \* Options.Concurrency
  RetryThreshold,  \* Options.RetryThreshold
  BackoffBase,     \* Options.BackoffBase, in ticks
  BackoffMax,      \* Options.BackoffMax, in ticks
  MaxFails         \* bound: failures are counted up to here, where the delay
                   \* has reached BackoffMax and further ones change nothing

ASSUME PoolAssumption ==
  /\ IsFiniteSet(Proc)
  /\ NoProc \notin Proc
  /\ Concurrency \in Nat \ {0}
  /\ RetryThreshold \in Nat \ {0}
  /\ BackoffMax \in Nat \ {0}
  /\ BackoffBase \in 1..BackoffMax
  /\ MaxFails \in Nat
  /\ RetryThreshold <= MaxFails
  /\ BackoffBase * 2^(MaxFails - RetryThreshold) >= BackoffMax

VARIABLES
  pc,       \* pc[p]: the step of Do that p takes next
  target,   \* target[p]: the argument of p's call
  sem,      \* tokens in the channel Pool.sem
  lock,     \* lock[t]: the holder of the mutex Pool.locks[t]
  fails,    \* fails[t]: consecutive failures, 0 when the map has no entry
  blocked,  \* keys of Pool.blocked
  left,     \* ticks left of t's backoff window, -1 when it has passed
  idleFor   \* history: ticks since t's last failure, at most BackoffMax + 1

poolVars == <<pc, target, sem, lock, fails, blocked, left, idleFor>>

Step == {"idle", "acquire", "lock", "recheck", "run", "unlock", "release"}

TypeOK ==
  /\ pc \in [Proc -> Step]
  /\ target \in [Proc -> Target]
  /\ sem \in 0..Concurrency
  /\ lock \in [Target -> Proc \cup {NoProc}]
  /\ fails \in [Target -> 0..MaxFails]
  /\ blocked \in SUBSET Target
  /\ left \in [Target -> -1..BackoffMax]
  /\ idleFor \in [Target -> 0..(BackoffMax + 1)]

-----------------------------------------------------------------------------
(* Backoff: checkBackoff and recordResult, each under Pool.mu.             *)
(* A definition whose name ends in _<Fault> is a faulty variant of the one *)
(* it precedes; nothing uses it but the mutation tests of PROJECT.json.    *)

\* base * 2^(n - threshold), at most BackoffMax.
Delay(n) ==
  LET grown == BackoffBase * 2^(n - RetryThreshold)
  IN  IF grown \in 1..BackoffMax THEN grown ELSE BackoffMax

\* checkBackoff answers ErrBackoff: t's window is still open.
InBackoff(t) == t \in blocked /\ left[t] >= 0

OpensWindow_Late(n) == n > RetryThreshold

\* From RetryThreshold consecutive failures on, a failure opens a window.
OpensWindow(n) == n >= RetryThreshold

\* checkBackoff passes; an entry whose window has passed is deleted.
PassBackoff(t) == ~InBackoff(t) /\ blocked' = blocked \ {t}

RecordSuccess(t) ==
  /\ fails' = [fails EXCEPT ![t] = 0]
  /\ blocked' = blocked \ {t}
  /\ UNCHANGED <<left, idleFor>>

RecordFailure(t) ==
  LET n == IF fails[t] < MaxFails THEN fails[t] + 1 ELSE MaxFails IN
  /\ fails' = [fails EXCEPT ![t] = n]
  /\ idleFor' = [idleFor EXCEPT ![t] = 0]
  /\ IF OpensWindow(n)
     THEN /\ blocked' = blocked \cup {t}
          /\ left' = [left EXCEPT ![t] = Delay(n)]
     ELSE UNCHANGED <<blocked, left>>

-----------------------------------------------------------------------------
(* Pool.Do, one action per step another goroutine can come between. *)

Goto(p, from, to) == pc[p] = from /\ pc' = [pc EXCEPT ![p] = to]

\* Do(t): the first backoff check passes.  (When it does not, Do returns
\* ErrBackoff and nothing has changed.)
Call(p, t) ==
  /\ Goto(p, "idle", "acquire")
  /\ PassBackoff(t)
  /\ target' = [target EXCEPT ![p] = t]
  /\ UNCHANGED <<sem, lock, fails, left, idleFor>>

SlotFree == sem < Concurrency

\* p.sem <- struct{}{}
Acquire(p) ==
  /\ Goto(p, "acquire", "lock")
  /\ SlotFree
  /\ sem' = sem + 1
  /\ UNCHANGED <<target, lock, fails, blocked, left, idleFor>>

\* ctx.Done() while waiting for a slot; the deferred release is not yet set.
Cancel(p) ==
  /\ Goto(p, "acquire", "idle")
  /\ UNCHANGED <<target, sem, lock, fails, blocked, left, idleFor>>

LockFree_Shared(t) == TRUE

LockFree(t) == lock[t] = NoProc

\* lockFor(target).Lock(): waits with the slot held, deaf to ctx.
Lock(p) ==
  /\ Goto(p, "lock", "recheck")
  /\ LockFree(target[p])
  /\ lock' = [lock EXCEPT ![target[p]] = p]
  /\ UNCHANGED <<target, sem, fails, blocked, left, idleFor>>

Admit_Unchecked(p) ==
  /\ Goto(p, "recheck", "run")
  /\ UNCHANGED <<target, sem, lock, fails, blocked, left, idleFor>>

\* The second check, under the target's lock, passes: the task runs.
Admit(p) ==
  /\ Goto(p, "recheck", "run")
  /\ PassBackoff(target[p])
  /\ UNCHANGED <<target, sem, lock, fails, left, idleFor>>

Refuse_KeepLock(p) ==
  /\ Goto(p, "recheck", "release")
  /\ InBackoff(target[p])
  /\ UNCHANGED <<target, sem, lock, fails, blocked, left, idleFor>>

\* It does not: Do returns ErrBackoff and the deferred calls run.
Refuse(p) ==
  /\ Goto(p, "recheck", "unlock")
  /\ InBackoff(target[p])
  /\ UNCHANGED <<target, sem, lock, fails, blocked, left, idleFor>>

\* The task returns.  A timeout and a cancelled ctx are failures.
Finish(p) ==
  /\ Goto(p, "run", "unlock")
  /\ RecordSuccess(target[p]) \/ RecordFailure(target[p])
  /\ UNCHANGED <<target, sem, lock>>

\* Deferred calls run last in, first out: the lock, then the slot.
Unlock(p) ==
  /\ Goto(p, "unlock", "release")
  /\ lock' = [lock EXCEPT ![target[p]] = NoProc]
  /\ UNCHANGED <<target, sem, fails, blocked, left, idleFor>>

Release(p) ==
  /\ Goto(p, "release", "idle")
  /\ sem' = sem - 1
  /\ UNCHANGED <<target, lock, fails, blocked, left, idleFor>>

\* The clock advances by one tick.
Tick ==
  /\ left' = [t \in Target |-> IF left[t] >= 0 THEN left[t] - 1 ELSE -1]
  /\ idleFor' = [t \in Target |->
                   IF idleFor[t] <= BackoffMax THEN idleFor[t] + 1 ELSE idleFor[t]]
  /\ UNCHANGED <<pc, target, sem, lock, fails, blocked>>

-----------------------------------------------------------------------------
Init ==
  /\ pc = [p \in Proc |-> "idle"]
  /\ target \in [Proc -> Target]
  /\ sem = 0
  /\ lock = [t \in Target |-> NoProc]
  /\ fails = [t \in Target |-> 0]
  /\ blocked = {}
  /\ left = [t \in Target |-> -1]
  /\ idleFor = [t \in Target |-> BackoffMax + 1]

Do(p) ==
  \/ \E t \in Target : Call(p, t)
  \/ Acquire(p) \/ Cancel(p) \/ Lock(p) \/ Admit(p) \/ Refuse(p)
  \/ Finish(p) \/ Unlock(p) \/ Release(p)

Next == (\E p \in Proc : Do(p)) \/ Tick

Spec == Init /\ [][Next]_poolVars

(***************************************************************************)
(* A goroutine that is inside Do keeps running; tasks return because they  *)
(* honour their timeout.  A channel send and a Mutex.Lock are served in    *)
(* arrival order by the Go runtime, so a waiter that keeps getting its     *)
(* chance is eventually served: strong fairness.                           *)
(***************************************************************************)
Fairness ==
  \A p \in Proc :
    /\ SF_poolVars(Acquire(p)) /\ SF_poolVars(Lock(p))
    /\ WF_poolVars(Admit(p) \/ Refuse(p))
    /\ WF_poolVars(Finish(p)) /\ WF_poolVars(Unlock(p)) /\ WF_poolVars(Release(p))

FairSpec == Spec /\ Fairness

-----------------------------------------------------------------------------
(* Properties *)

HoldsSlot(p) == pc[p] \notin {"idle", "acquire"}
HoldsLock(p) == pc[p] \in {"recheck", "run", "unlock"}

\* One BMC is never accessed by two tasks at a time: "同一台 BMC 必须串行访问".
PerTargetSerial ==
  \A p, q \in Proc :
    pc[p] = "run" /\ pc[q] = "run" /\ target[p] = target[q] => p = q

\* Tasks of different BMCs together stay within the global limit, whatever
\* the number of callers: the tokens in the channel account for every call
\* that is past the semaphore, those that wait for a BMC included.
ConcurrencyBound ==
  /\ sem = Cardinality({p \in Proc : HoldsSlot(p)})
  /\ sem <= Concurrency

\* While a task runs, its target has no backoff window, although the check
\* that let it in is behind it and other calls have failed since the first
\* one: only the holder of the target's lock can open a window.
NoRunInBackoff == \A p \in Proc : pc[p] = "run" => target[p] \notin blocked

\* A BMC that has failed RetryThreshold times in a row is not contacted again
\* before its delay is over: more than Delay ticks lie between the failure and
\* the next task.
SpacedRetries ==
  \A p \in Proc :
    LET t == target[p] IN
    pc[p] = "run" /\ fails[t] >= RetryThreshold => idleFor[t] > Delay(fails[t])

\* Every call of Do returns: no path out of it leaves the lock or the slot
\* taken, and no set of waiters blocks itself.
CallReturns == \A p \in Proc : pc[p] # "idle" ~> pc[p] = "idle"

\* The pool gives each BMC what PollAccess promises.
Access == INSTANCE PollAccess WITH
  active <- [t \in Target |->
               IF \E p \in Proc : pc[p] = "run" /\ target[p] = t
               THEN lock[t] ELSE NoProc]

\* Do, with its semaphore, its locks and its backoff, is a way to keep that
\* promise: a task starts and ends as PollAccess allows.
ImplementsAccess == Access!AccessSpec
=============================================================================
