----------------------------- MODULE MCPolling ------------------------------
(* What the polling of BMCs must come to in the end: calls of the task pool *)
(* return, and the scheduler polls again.  focus picks the one that runs,   *)
(* the other rests.  Two callers and two BMCs; one host, whose target two   *)
(* syncs may change at a time.                                              *)
EXTENDS TaskPool, Scheduler

CONSTANTS p1, p2, t1, t2, h1, s1, s2

MCProc == {p1, p2}
MCTarget == {t1, t2}
MCHosts == {h1}
MCSyncers == {s1, s2}

VARIABLE focus

PollInit ==
  /\ focus \in {"pool", "scheduler"} /\ Init /\ SchedInit
  /\ focus = "pool" => ipmi = {} /\ credential = {}  \* one initial state of what rests

InPool == focus = "pool" /\ Next /\ UNCHANGED <<focus, schedVars>>
Polling == focus = "scheduler" /\ SchedNext /\ UNCHANGED <<focus, poolVars>>

\* The goroutines of the scheduler, its polls and its syncs go on; the pool's
\* backoff ends; requests need not come.
InFocus(A) == focus = "scheduler" /\ A
StepAt(h) == \E st \in batch \cup flights : st[1] = h /\ Advance(st)
PollingGoesOn ==
  /\ WF_schedVars(InFocus(Plan)) /\ WF_schedVars(InFocus(Collect))
  /\ WF_schedVars(InFocus(Dispatched)) /\ WF_schedVars(InFocus(Elapse))
  /\ \A h \in BMCHost : WF_schedVars(InFocus(Expire(h))) /\ WF_schedVars(InFocus(StepAt(h)))
  /\ \A s \in Syncer : WF_schedVars(InFocus(Sync(s)))

PollSpec == PollInit /\ [][InPool \/ Polling]_<<focus, poolVars, schedVars>> /\ Fairness /\ PollingGoesOn
=============================================================================
