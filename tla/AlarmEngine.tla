---------------------------- MODULE AlarmEngine ----------------------------
(***************************************************************************)
(* The alarm state machine of the server                                   *)
(* (backend/internal/engine/alarm_engine.go): for one object of one host   *)
(* and one metric, the rules on that metric and the samples that arrive.   *)
(* The state of another host, object or metric is independent of this one. *)
(*                                                                         *)
(* The engine's clock is the sampling time, and batches are replayed after *)
(* an outage while others arrive live: the samples come in any order of    *)
(* their times.                                                            *)
(***************************************************************************)
EXTENDS Integers

CONSTANTS
  Rule,            \* the rules on this metric
  NoRule,          \* AlarmRule.Parent = "": not a member of Rule
  Parent,          \* Parent[r]: the rule that suppresses r, or NoRule
  Op,              \* Op[r]: AlarmRule.Comparator
  Threshold,       \* Threshold[r]
  ForDuration,     \* ForDuration[r]: how long the condition must hold
  RecoverN,        \* clear samples until recovery
  SuppressWindow,  \* time between two notifications of one alarm
  Windows,         \* maintenance windows: records [start, end]
  Value,           \* sample values
  MaxTime          \* bound: sampling times are 0..MaxTime

Time == 0..MaxTime
NoTime == -1       \* the zero time.Time

\* buildRuleSet makes pairs: a critical rule without a parent and a warning
\* rule with the critical one as its parent, whose ID sorts after it.
ASSUME EngineAssumption ==
  /\ NoRule \notin Rule
  /\ Parent \in [Rule -> Rule \cup {NoRule}]
  /\ \A r \in Rule : Parent[r] # NoRule => Parent[Parent[r]] = NoRule
  /\ ForDuration \in [Rule -> Nat]
  /\ RecoverN \in Nat \ {0}
  /\ SuppressWindow \in Nat
  /\ MaxTime \in Nat

VARIABLES
  now,        \* the time of the last sample
  firing,     \* alarmState.firing, per rule
  breach,     \* alarmState.breachStart
  lastFired,  \* alarmState.lastFiredAt
  below,      \* alarmState.consecutiveBelow, counted up to RecoverN
  event,      \* the state of the event Process returned for the rule, or "none"
  trueSince,  \* history: time of the first sample of the current run of breaches
  clears,     \* history: clear samples since the alarm fired, up to RecoverN
  clearRun    \* history: clear samples in a row, up to RecoverN

history == <<trueSince, clears, clearRun>>
engVars == <<now, firing, breach, lastFired, below, event, history>>

EventState == {"none", "firing", "recovered", "suppressed", "muted"}

TypeOK ==
  /\ now \in Time
  /\ firing \in [Rule -> BOOLEAN]
  /\ breach \in [Rule -> Time \cup {NoTime}]
  /\ lastFired \in [Rule -> Time \cup {NoTime}]
  /\ below \in [Rule -> 0..RecoverN]
  /\ event \in [Rule -> EventState]
  /\ trueSince \in [Rule -> Time \cup {NoTime}]
  /\ clears \in [Rule -> 0..RecoverN]
  /\ clearRun \in [Rule -> 0..RecoverN]
  \* A firing alarm has been notified, and is not yet due to recover.
  /\ \A r \in Rule : firing[r] => lastFired[r] # NoTime /\ below[r] < RecoverN

-----------------------------------------------------------------------------
(* evalRule for rule r and a sample of value v at time t.  As elsewhere, a  *)
(* name that ends in _<Fault> is a faulty variant for the mutation tests.   *)

\* Comparator.Match
Match(op, v, threshold) ==
  \/ op = ">" /\ v > threshold
  \/ op = ">=" /\ v >= threshold
  \/ op = "<" /\ v < threshold
  \/ op = "<=" /\ v <= threshold
  \/ op = "==" /\ v = threshold
  \/ op = "!=" /\ v # threshold

Cond(r, v) == Match(Op[r], v, Threshold[r])

\* breachStart once a sample at t has breached the threshold.
BreachStart(r, t) == IF breach[r] = NoTime THEN t ELSE breach[r]

Ripe_AnyBreach(r, t) == TRUE

\* The condition has held long enough.
Ripe(r, t) == ForDuration[r] = 0 \/ t - BreachStart(r, t) >= ForDuration[r]

Recovers(r, v) == firing[r] /\ ~Cond(r, v) /\ below[r] + 1 >= RecoverN

\* The rule would fire if no parent held it back.
Triggers(r, v, t) == ~firing[r] /\ Cond(r, v) /\ Ripe(r, t)

ParentFiring_OldState(r, v, t) ==
  Parent[r] # NoRule /\ firing[Parent[r]]

\* The parent comes first in the order of rule IDs, so its state is the one
\* this sample leaves it in.
ParentFiring(r, v, t) ==
  /\ Parent[r] # NoRule
  /\ LET q == Parent[r]
     IN  (firing[q] /\ ~Recovers(q, v)) \/ Triggers(q, v, t)

Fires(r, v, t) == Triggers(r, v, t) /\ ~ParentFiring(r, v, t)

\* A firing alarm is notified again once the suppression window is over.
Renews(r, v, t) ==
  firing[r] /\ Cond(r, v) /\ t - lastFired[r] >= SuppressWindow

FiringAfter_Quick(r, v, t) == Fires(r, v, t) \/ (firing[r] /\ Cond(r, v))

FiringAfter(r, v, t) == Fires(r, v, t) \/ (firing[r] /\ ~Recovers(r, v))

BreachAfter_Sticky(r, v, t) ==
  IF Fires(r, v, t) THEN NoTime
  ELSE IF Cond(r, v) /\ ~firing[r] THEN BreachStart(r, t) ELSE breach[r]

BreachAfter(r, v, t) ==
  IF ~Cond(r, v) \/ Fires(r, v, t) THEN NoTime
  ELSE IF firing[r] THEN breach[r] ELSE BreachStart(r, t)

UpTo(n, limit) == IF n > limit THEN limit ELSE n

BelowAfter_KeptOnFire(r, v, t) ==
  IF Recovers(r, v) THEN 0
  ELSE IF Cond(r, v) THEN below[r] ELSE UpTo(below[r] + 1, RecoverN)

\* consecutiveBelow: cleared when the alarm fires and when it recovers.
BelowAfter(r, v, t) ==
  IF Fires(r, v, t) \/ Recovers(r, v) THEN 0
  ELSE IF Cond(r, v) THEN below[r] ELSE UpTo(below[r] + 1, RecoverN)

\* MaintenanceWindow.Covers: the start belongs to the window, the end does not.
InMaintenance(t) == \E w \in Windows : w.start <= t /\ t < w.end

EventOf(r, v, t) ==
  CASE Fires(r, v, t) \/ Renews(r, v, t) ->
         IF InMaintenance(t) THEN "muted" ELSE "firing"
    [] Recovers(r, v) -> "recovered"
    [] \/ Triggers(r, v, t) /\ ParentFiring(r, v, t)
       \/ firing[r] /\ Cond(r, v) /\ ~Renews(r, v, t) -> "suppressed"
    [] OTHER -> "none"

-----------------------------------------------------------------------------
Init ==
  /\ now = 0
  /\ firing = [r \in Rule |-> FALSE]
  /\ breach = [r \in Rule |-> NoTime]
  /\ lastFired = [r \in Rule |-> NoTime]
  /\ below = [r \in Rule |-> 0]
  /\ event = [r \in Rule |-> "none"]
  /\ trueSince = [r \in Rule |-> NoTime]
  /\ clears = [r \in Rule |-> 0]
  /\ clearRun = [r \in Rule |-> 0]

\* Process: one sample goes through every rule, under AlarmEngine.mu.
Process(v, t) ==
  /\ now' = t
  /\ firing' = [r \in Rule |-> FiringAfter(r, v, t)]
  /\ breach' = [r \in Rule |-> BreachAfter(r, v, t)]
  /\ lastFired' = [r \in Rule |->
       IF Fires(r, v, t) \/ Renews(r, v, t) THEN t ELSE lastFired[r]]
  /\ below' = [r \in Rule |-> BelowAfter(r, v, t)]
  /\ event' = [r \in Rule |-> EventOf(r, v, t)]

\* What the properties remember of the samples.
Remember(v, t) ==
  /\ trueSince' = [r \in Rule |->
       IF ~Cond(r, v) THEN NoTime
       ELSE IF trueSince[r] = NoTime THEN t ELSE trueSince[r]]
  /\ clears' = [r \in Rule |->
       IF ~firing[r] /\ firing'[r] THEN 0
       ELSE IF Cond(r, v) THEN clears[r] ELSE UpTo(clears[r] + 1, RecoverN)]
  /\ clearRun' = [r \in Rule |->
       IF Cond(r, v) THEN 0 ELSE UpTo(clearRun[r] + 1, RecoverN)]

Next == \E v \in Value, t \in Time : Process(v, t) /\ Remember(v, t)

Spec == Init /\ [][Next]_engVars

-----------------------------------------------------------------------------
(* Properties *)

Raised(r) == ~firing[r] /\ firing'[r]
Recovered(r) == firing[r] /\ ~firing'[r]

\* A spike never raises an alarm: when a rule starts firing, every sample
\* since one that is ForDuration older has breached its threshold.
RaisedAfterDuration ==
  [][\A r \in Rule : Raised(r) /\ ForDuration[r] > 0 =>
        /\ trueSince'[r] # NoTime
        /\ now' - trueSince'[r] >= ForDuration[r]]_engVars

\* Nor is one missed: a rule whose condition has held for ForDuration is
\* firing, or its parent is, whatever fired, recovered or was held back before.
NoMissedAlarm ==
  \A r \in Rule :
    /\ trueSince[r] # NoTime
    /\ now - trueSince[r] >= ForDuration[r]
    => firing[r] \/ (Parent[r] # NoRule /\ firing[Parent[r]])

\* A fault is reported once: a rule does not start firing while its parent is
\* firing, even if the parent starts with the very same sample.
RaisedWithoutParent ==
  [][\A r \in Rule :
       Raised(r) /\ Parent[r] # NoRule => ~firing'[Parent[r]]]_engVars

\* An alarm recovers only after RecoverN clear samples since it fired.
RecoveryDebounced ==
  [][\A r \in Rule : Recovered(r) => clears'[r] >= RecoverN]_engVars

\* Whatever the samples, the events that Process returns are those of a life:
\* none ends an alarm that has not fired, and none fires it in silence.
Alarms == INSTANCE AlarmLife WITH Alarm <- Rule
ImplementsLife == Alarms!LifeSpec

\* What the comments say of recovery: the clear samples are consecutive
\* ("恢复需连续 3 个周期低于阈值").
ConsecutiveRecovery ==
  [][\A r \in Rule : Recovered(r) => clearRun'[r] >= RecoverN]_engVars
=============================================================================
