-------------------------- MODULE AlarmEngine_proofs --------------------------
(***************************************************************************)
(* Proofs about AlarmEngine, for any rules on the metric, any thresholds   *)
(* and durations and any order of the sampling times.  Nothing is assumed  *)
(* of Match: the arguments hold for every comparator.                      *)
(***************************************************************************)
EXTENDS AlarmEngine, TLAPS

\* An idle rule has been counting since the breach began; a firing one has
\* forgotten when that was.
BreachInv ==
  \A r \in Rule : IF firing[r] THEN breach[r] = NoTime ELSE breach[r] = trueSince[r]

\* While a rule fires, consecutiveBelow counts the clear samples since it fired.
ClearInv == \A r \in Rule : firing[r] => below[r] = clears[r]

IInv == TypeOK /\ BreachInv /\ ClearInv /\ NoMissedAlarm

-----------------------------------------------------------------------------
\* A time is not the zero time, so the two are never confused.
LEMMA TimeFacts ==
  /\ Time \subseteq Nat
  /\ NoTime \in Int /\ NoTime \notin Time
  /\ 0 \in Time
BY EngineAssumption DEF Time, NoTime

\* A counter that stops at RecoverN stays in its range.
LEMMA UpToRange ==
  ASSUME NEW n \in 0..RecoverN
  PROVE  /\ UpTo(n + 1, RecoverN) \in 0..RecoverN
         /\ n + 1 >= RecoverN => UpTo(n + 1, RecoverN) = RecoverN
         /\ ~(n + 1 >= RecoverN) => UpTo(n + 1, RecoverN) = n + 1
BY EngineAssumption DEF UpTo

\* NewAlarmEngine has no state for any rule.
LEMMA InitIInv == Init => IInv
<1>1. SUFFICES ASSUME Init PROVE IInv
  OBVIOUS
<1>2. TypeOK
  BY <1>1, TimeFacts, EngineAssumption DEF Init, TypeOK, EventState
<1>3. BreachInv /\ ClearInv /\ NoMissedAlarm
  BY <1>1 DEF Init, BreachInv, ClearInv, NoMissedAlarm
<1>4. QED
  BY <1>2, <1>3 DEF IInv

\* The parent's state after the sample is the one ParentFiring looks at.
LEMMA ParentAfter ==
  ASSUME NEW v, NEW t, NEW r \in Rule, Parent[r] # NoRule
  PROVE  ParentFiring(r, v, t) <=> FiringAfter(Parent[r], v, t)
<1> DEFINE q == Parent[r]
<1>1. q \in Rule /\ Parent[q] = NoRule
  BY EngineAssumption
<1>2. ~ParentFiring(q, v, t)
  BY <1>1 DEF ParentFiring
<1>3. QED
  BY <1>2 DEF ParentFiring, FiringAfter, Fires

-----------------------------------------------------------------------------
\* Every variable stays in its range.
LEMMA StepType ==
  ASSUME IInv, NEW v \in Value, NEW t \in Time, Process(v, t), Remember(v, t)
  PROVE  TypeOK'
<1>1. firing' \in [Rule -> BOOLEAN]
  <2>1. \A r \in Rule : FiringAfter(r, v, t) \in BOOLEAN
    BY DEF FiringAfter
  <2>2. QED
    BY <2>1 DEF Process
<1>2. breach' \in [Rule -> Time \cup {NoTime}]
  BY DEF IInv, TypeOK, Process, BreachAfter, BreachStart
<1>3. lastFired' \in [Rule -> Time \cup {NoTime}]
  BY DEF IInv, TypeOK, Process
<1>4. \A r \in Rule : BelowAfter(r, v, t) \in 0..RecoverN
  <2>1. SUFFICES ASSUME NEW r \in Rule PROVE BelowAfter(r, v, t) \in 0..RecoverN
    OBVIOUS
  <2>2. below[r] \in 0..RecoverN /\ 0 \in 0..RecoverN
    BY EngineAssumption DEF IInv, TypeOK
  <2>3. UpTo(below[r] + 1, RecoverN) \in 0..RecoverN
    BY <2>2, UpToRange
  <2>4. QED
    BY <2>2, <2>3 DEF BelowAfter
<1>5. below' \in [Rule -> 0..RecoverN]
  BY <1>4 DEF Process
<1>6. event' \in [Rule -> EventState]
  <2>1. \A r \in Rule : EventOf(r, v, t) \in EventState
    BY DEF EventOf, EventState
  <2>2. QED
    BY <2>1 DEF Process
<1>7. trueSince' \in [Rule -> Time \cup {NoTime}]
  BY DEF IInv, TypeOK, Remember
<1>8. clears' \in [Rule -> 0..RecoverN] /\ clearRun' \in [Rule -> 0..RecoverN]
  BY UpToRange, EngineAssumption DEF IInv, TypeOK, Remember
<1>9. ASSUME NEW r \in Rule, firing'[r]
      PROVE  lastFired'[r] # NoTime /\ below'[r] < RecoverN
  <2>1. FiringAfter(r, v, t)
    BY <1>9 DEF Process
  <2>2. CASE Fires(r, v, t)
    <3>1. BelowAfter(r, v, t) = 0
      BY <2>2 DEF BelowAfter
    <3>2. QED
      BY <2>2, <3>1, TimeFacts, EngineAssumption DEF Process
  <2>3. CASE ~Fires(r, v, t) /\ firing[r] /\ ~Recovers(r, v)
    <3>1. lastFired'[r] # NoTime
      BY <2>3, TimeFacts DEF IInv, TypeOK, Process
    <3>2. below[r] \in 0..RecoverN /\ below[r] < RecoverN
      BY <2>3 DEF IInv, TypeOK
    <3>3. ~Cond(r, v) => ~(below[r] + 1 >= RecoverN)
      BY <2>3 DEF Recovers
    <3>4. BelowAfter(r, v, t) < RecoverN
      BY <2>3, <3>2, <3>3, UpToRange, EngineAssumption DEF BelowAfter
    <3>5. QED
      BY <3>1, <3>4 DEF Process
  <2>4. QED
    BY <2>1, <2>2, <2>3 DEF FiringAfter
<1>10. now' \in Time
  BY DEF Process
<1>11. QED
  BY <1>1, <1>2, <1>3, <1>5, <1>6, <1>7, <1>8, <1>9, <1>10 DEF TypeOK

\* An idle rule's breach begins where the run of breaching samples began.
LEMMA StartIsTrueSince ==
  ASSUME IInv, NEW v \in Value, NEW t \in Time, Process(v, t), Remember(v, t),
         NEW r \in Rule, ~firing[r], Cond(r, v)
  PROVE  BreachStart(r, t) = trueSince'[r] /\ trueSince'[r] \in Time
BY TimeFacts DEF IInv, TypeOK, BreachInv, BreachStart, Remember

\* The breach begins with the first sample of a run and is forgotten when the
\* rule fires or the sample is clear.
LEMMA StepBreach ==
  ASSUME IInv, NEW v \in Value, NEW t \in Time, Process(v, t), Remember(v, t)
  PROVE  BreachInv'
<1>1. SUFFICES ASSUME NEW r \in Rule
               PROVE  IF firing'[r] THEN breach'[r] = NoTime
                                    ELSE breach'[r] = trueSince'[r]
  BY DEF BreachInv
<1>2. firing'[r] = FiringAfter(r, v, t) /\ breach'[r] = BreachAfter(r, v, t)
  BY DEF Process
<1>3. CASE Fires(r, v, t)
  BY <1>2, <1>3 DEF FiringAfter, BreachAfter
<1>4. CASE ~Fires(r, v, t) /\ ~Cond(r, v)
  BY <1>2, <1>4 DEF BreachAfter, Remember
<1>5. CASE ~Fires(r, v, t) /\ Cond(r, v) /\ firing[r]
  BY <1>2, <1>5 DEF IInv, BreachInv, FiringAfter, BreachAfter, Recovers
<1>6. CASE ~Fires(r, v, t) /\ Cond(r, v) /\ ~firing[r]
  BY <1>2, <1>6, StartIsTrueSince DEF FiringAfter, BreachAfter
<1>7. QED
  BY <1>3, <1>4, <1>5, <1>6

\* Both counts are cleared when the rule fires and grow with a clear sample.
LEMMA StepClear ==
  ASSUME IInv, NEW v \in Value, NEW t \in Time, Process(v, t), Remember(v, t)
  PROVE  ClearInv'
<1>1. SUFFICES ASSUME NEW r \in Rule, firing'[r] PROVE below'[r] = clears'[r]
  BY DEF ClearInv
<1>2. FiringAfter(r, v, t) /\ below'[r] = BelowAfter(r, v, t)
  BY <1>1 DEF Process
<1>3. CASE Fires(r, v, t)
  <2>1. ~firing[r]
    BY <1>3 DEF Fires, Triggers
  <2>2. BelowAfter(r, v, t) = 0
    BY <1>3 DEF BelowAfter
  <2>3. clears'[r] = 0
    BY <1>1, <2>1 DEF Remember
  <2>4. QED
    BY <1>2, <2>2, <2>3
<1>4. CASE ~Fires(r, v, t) /\ firing[r] /\ ~Recovers(r, v)
  BY <1>2, <1>4 DEF IInv, ClearInv, BelowAfter, Remember
<1>5. QED
  BY <1>2, <1>3, <1>4 DEF FiringAfter

\* A run of breaches that is long enough makes the rule or its parent fire.
LEMMA StepNoMissed ==
  ASSUME IInv, NEW v \in Value, NEW t \in Time, Process(v, t), Remember(v, t)
  PROVE  NoMissedAlarm'
<1>1. SUFFICES ASSUME NEW r \in Rule, trueSince'[r] # NoTime,
                      now' - trueSince'[r] >= ForDuration[r]
               PROVE  firing'[r] \/ (Parent[r] # NoRule /\ firing'[Parent[r]])
  BY DEF NoMissedAlarm
<1>2. Cond(r, v)
  BY <1>1 DEF Remember
<1>3. CASE firing[r]
  BY <1>2, <1>3 DEF Process, FiringAfter, Recovers
<1>4. CASE ~firing[r]
  <2>1. Triggers(r, v, t)
    BY <1>1, <1>2, <1>4, StartIsTrueSince DEF Process, Ripe, Triggers
  <2>2. CASE ~ParentFiring(r, v, t)
    BY <2>1, <2>2 DEF Process, FiringAfter, Fires
  <2>3. CASE ParentFiring(r, v, t)
    <3>1. Parent[r] # NoRule /\ Parent[r] \in Rule
      BY <2>3, EngineAssumption DEF ParentFiring
    <3>2. QED
      BY <2>3, <3>1, ParentAfter DEF Process
  <2>4. QED
    BY <2>2, <2>3
<1>5. QED
  BY <1>3, <1>4

\* Every sample keeps the inductive invariant.
LEMMA StepIInv == IInv /\ [Next]_engVars => IInv'
<1>1. SUFFICES ASSUME IInv, [Next]_engVars PROVE IInv'
  OBVIOUS
<1>2. ASSUME NEW v \in Value, NEW t \in Time, Process(v, t), Remember(v, t)
      PROVE  IInv'
  BY <1>1, <1>2, StepType, StepBreach, StepClear, StepNoMissed DEF IInv
<1>3. CASE UNCHANGED engVars
  BY <1>1, <1>3 DEF IInv, TypeOK, BreachInv, ClearInv, NoMissedAlarm, engVars, history
<1>4. QED
  BY <1>1, <1>2, <1>3 DEF Next

\* The inductive invariant of the engine: the breach time and the clear count
\* agree with the samples that came, and no alarm is missed.
THEOREM EngineInvariant == Spec => []IInv
BY InitIInv, StepIInv, PTL DEF Spec

\* Every variable of the engine stays in its range.
THEOREM EngineTypeCorrect == Spec => []TypeOK
<1>1. IInv => TypeOK
  BY DEF IInv
<1>2. QED
  BY <1>1, EngineInvariant, PTL

\* A rule whose condition has held for its duration is firing, or its parent.
THEOREM EngineMissesNoAlarm == Spec => []NoMissedAlarm
<1>1. IInv => NoMissedAlarm
  BY DEF IInv
<1>2. QED
  BY <1>1, EngineInvariant, PTL

\* A rule starts firing only after ForDuration of nothing but breaches.
THEOREM EngineRaisesAfterDuration == Spec => RaisedAfterDuration
<1> DEFINE Late(r) == /\ trueSince'[r] # NoTime
                      /\ now' - trueSince'[r] >= ForDuration[r]
<1>1. ASSUME IInv, [Next]_engVars, NEW r \in Rule, Raised(r), ForDuration[r] > 0
      PROVE  Late(r)
  <2>1. PICK v \in Value, t \in Time : Process(v, t) /\ Remember(v, t)
    BY <1>1 DEF Next, Raised, engVars
  <2>2. Triggers(r, v, t)
    BY <1>1, <2>1 DEF Raised, Process, FiringAfter, Fires
  <2>3. QED
    BY <1>1, <2>1, <2>2, StartIsTrueSince, TimeFacts, EngineAssumption
    DEF Triggers, Ripe, Process
<1>2. IInv /\ [Next]_engVars
      => (\A r \in Rule : Raised(r) /\ ForDuration[r] > 0 => Late(r))
  BY <1>1
<1>3. QED
  BY <1>2, EngineInvariant, PTL DEF Spec, RaisedAfterDuration

\* A rule does not start firing while its parent is firing.
THEOREM EngineRaisesWithoutParent == Spec => RaisedWithoutParent
<1> DEFINE Alone(r) == Parent[r] # NoRule => ~firing'[Parent[r]]
<1>1. ASSUME IInv, [Next]_engVars, NEW r \in Rule, Raised(r), Parent[r] # NoRule
      PROVE  ~firing'[Parent[r]]
  <2>1. PICK v \in Value, t \in Time : Process(v, t) /\ Remember(v, t)
    BY <1>1 DEF Next, Raised, engVars
  <2>2. ~ParentFiring(r, v, t)
    BY <1>1, <2>1 DEF Raised, Process, FiringAfter, Fires
  <2>3. Parent[r] \in Rule
    BY <1>1, EngineAssumption
  <2>4. QED
    BY <1>1, <2>1, <2>2, <2>3, ParentAfter DEF Process
<1>2. IInv /\ [Next]_engVars
      => (\A r \in Rule : Raised(r) /\ Parent[r] # NoRule => ~firing'[Parent[r]])
  BY <1>1
<1>3. QED
  BY <1>2, EngineInvariant, PTL DEF Spec, RaisedWithoutParent

\* An alarm recovers only after RecoverN clear samples since it fired.
THEOREM EngineDebouncesRecovery == Spec => RecoveryDebounced
<1>1. ASSUME IInv, [Next]_engVars, NEW r \in Rule, Recovered(r)
      PROVE  clears'[r] >= RecoverN
  <2>1. PICK v \in Value, t \in Time : Process(v, t) /\ Remember(v, t)
    BY <1>1 DEF Next, Recovered, engVars
  <2>2. ~Cond(r, v) /\ firing[r] /\ below[r] + 1 >= RecoverN
    BY <1>1, <2>1 DEF Recovered, Process, FiringAfter, Recovers
  <2>3. clears[r] \in 0..RecoverN /\ clears[r] + 1 >= RecoverN
    BY <1>1, <2>2 DEF IInv, TypeOK, ClearInv
  <2>4. clears'[r] = UpTo(clears[r] + 1, RecoverN)
    BY <2>1, <2>2 DEF Remember
  <2>5. QED
    BY <2>3, <2>4, UpToRange, EngineAssumption
<1>2. IInv /\ [Next]_engVars => (\A r \in Rule : Recovered(r) => clears'[r] >= RecoverN)
  BY <1>1
<1>3. QED
  BY <1>2, EngineInvariant, PTL DEF Spec, RecoveryDebounced

\* Whatever the sample does to a rule is a step of an alarm's life.
LEMMA StepOfLife ==
  ASSUME NEW r \in Rule, NEW v, NEW t, firing[r] \in BOOLEAN
  PROVE  [before |-> firing[r], event |-> EventOf(r, v, t), after |-> FiringAfter(r, v, t)]
           \in Alarms!Life
<1>1. FiringAfter(r, v, t) \in BOOLEAN
  BY DEF FiringAfter
<1>2. CASE Fires(r, v, t) \/ Renews(r, v, t)
  <2>1. EventOf(r, v, t) \in {"firing", "muted"}
    BY <1>2 DEF EventOf, Fires, Triggers, Renews, Recovers
  <2>2. FiringAfter(r, v, t)
    BY <1>2 DEF FiringAfter, Renews, Recovers
  <2>3. QED
    BY <1>1, <2>1, <2>2 DEF Alarms!Life
<1>3. CASE ~(Fires(r, v, t) \/ Renews(r, v, t)) /\ Recovers(r, v)
  <2>1. EventOf(r, v, t) = "recovered"
    BY <1>3 DEF EventOf, Recovers, Triggers
  <2>2. firing[r] /\ ~FiringAfter(r, v, t)
    BY <1>3 DEF FiringAfter, Recovers
  <2>3. QED
    BY <1>1, <2>1, <2>2 DEF Alarms!Life
<1>4. CASE ~(Fires(r, v, t) \/ Renews(r, v, t)) /\ ~Recovers(r, v)
  <2>1. EventOf(r, v, t) \in {"none", "suppressed"}
    BY <1>4 DEF EventOf
  <2>2. FiringAfter(r, v, t) = firing[r]
    BY <1>4 DEF FiringAfter
  <2>3. QED
    BY <1>1, <2>1, <2>2 DEF Alarms!Life
<1>5. QED
  BY <1>2, <1>3, <1>4

\* The events that Process returns, for any samples in any order, are those of
\* the life of an alarm: the engine implements AlarmLife.
THEOREM EngineImplementsLife == Spec => ImplementsLife
<1>1. Init => Alarms!LifeInit
  BY DEF Init, Alarms!LifeInit
<1>2. ASSUME TypeOK, [Next]_engVars
      PROVE  [Alarms!LifeNext]_(Alarms!lifeVars)
  <2>1. CASE UNCHANGED engVars
    BY <2>1 DEF engVars, Alarms!lifeVars
  <2>2. CASE Next
    <3>1. PICK v \in Value, t \in Time : Process(v, t)
      BY <2>2 DEF Next
    <3>2. ASSUME NEW r \in Rule
          PROVE  [before |-> firing[r], event |-> event'[r], after |-> firing'[r]]
                   \in Alarms!Life
      <4>1. event'[r] = EventOf(r, v, t) /\ firing'[r] = FiringAfter(r, v, t)
        BY <3>1 DEF Process
      <4>2. QED
        BY <1>2, <4>1, StepOfLife DEF TypeOK
    <3>3. QED
      BY <3>2 DEF Alarms!LifeNext
  <2>3. QED
    BY <1>2, <2>1, <2>2
<1>3. QED
  BY <1>1, <1>2, EngineTypeCorrect, PTL DEF Spec, ImplementsLife, Alarms!LifeSpec
=============================================================================
