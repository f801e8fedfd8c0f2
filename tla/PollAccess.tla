----------------------------- MODULE PollAccess -----------------------------
(***************************************************************************)
(* What the poll task pool promises the BMCs it polls (docs/01 D10): a BMC *)
(* is accessed by one task at a time, and no more than Concurrency tasks   *)
(* run at once.  How a call gets there (semaphore, lock, backoff) is left  *)
(* to TaskPool, which implements this specification.                       *)
(***************************************************************************)
EXTENDS Naturals, FiniteSets

CONSTANTS Proc,         \* the goroutines that poll
          Target,       \* the BMCs
          NoProc,       \* "nobody": not a member of Proc
          Concurrency   \* how many tasks may run at once

VARIABLE active         \* active[t]: the goroutine whose task runs on t

AccessTypeOK == active \in [Target -> Proc \cup {NoProc}]

Busy == {t \in Target : active[t] # NoProc}

AccessInit == active = [t \in Target |-> NoProc]

\* A task may start on an idle target while fewer than Concurrency run.
Start(p, t) ==
  /\ active[t] = NoProc
  /\ Cardinality(Busy) < Concurrency
  /\ active' = [active EXCEPT ![t] = p]

Stop(p, t) ==
  /\ active[t] = p
  /\ active' = [active EXCEPT ![t] = NoProc]

AccessNext == \E p \in Proc, t \in Target : Start(p, t) \/ Stop(p, t)

AccessSpec == AccessInit /\ [][AccessNext]_active
=============================================================================
