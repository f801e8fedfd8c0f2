----------------------------- MODULE FanControl -----------------------------
(***************************************************************************)
(* The fan controller (engine/control_engine.go) in closed loop with a BMC *)
(* whose fans it drives: a curve from temperature to speed, the hysteresis *)
(* on the size and on the distance in time of two commands, and the        *)
(* handoff to the automatic mode of the BMC.                               *)
(***************************************************************************)
EXTENDS Integers, Sequences, FiniteSetsExt

CONSTANTS
  Curve,        \* segments [max, speed], by rising max
  MinInterval, MinDelta, MinSpeed, MaxSpeed,
  Speed,        \* the speeds the BMC may report
  Temp,         \* the temperatures there may be
  MaxFanSteps,  \* bound: the controller's steps
  MaxLostFans   \* bound: commands that do not take effect

ASSUME FanAssumption ==
  /\ Curve \in Seq([max : Int, speed : Nat]) /\ Curve # <<>>
  /\ {MinInterval, MinDelta, MinSpeed, MaxFanSteps, MaxLostFans} \subseteq Nat
  /\ MaxSpeed \in 1..100 /\ MinSpeed <= MaxSpeed
  \* A speed below MinDelta is never commanded from rest.
  /\ MinDelta <= MinSpeed
  /\ Speed \subseteq 0..100 /\ Temp \subseteq Int

VARIABLES
  lastSpeed,  \* the speed of the last command; 0 after a handoff
  since,      \* time since the last command, up to MinInterval
  fanSpeed,    \* the speed the BMC reports
  auto,       \* the BMC drives the fans itself
  answer,     \* what the last step did
  wanted,     \* history: the target of that step
  fanSteps, lostFans

fanVars == <<lastSpeed, since, fanSpeed, auto, answer, wanted, fanSteps, lostFans>>

Abs(n) == IF n < 0 THEN -n ELSE n

\* The first segment that reaches the temperature, or the last, clamped.
TargetSpeed(temp) ==
  LET above == {i \in DOMAIN Curve : temp <= Curve[i].max}
      t == Curve[IF above = {} THEN Len(Curve) ELSE Min(above)].speed
  IN Min({MaxSpeed, Max({MinSpeed, t})})

FanInit ==
  /\ lastSpeed = 0 /\ since = MinInterval
  /\ fanSpeed \in Speed /\ auto = TRUE
  /\ answer = "handoff" /\ wanted = 0 /\ fanSteps = 0 /\ lostFans = 0

\* The loop asks the controller; fanSteps bounds the behaviour.
Asked == fanSteps < MaxFanSteps /\ fanSteps' = fanSteps + 1

Handoff ==
  /\ Asked
  /\ lastSpeed' = 0 /\ since' = 0
  /\ auto' = TRUE /\ answer' = "handoff"
  /\ UNCHANGED <<fanSpeed, wanted, lostFans>>

Jumps(target) == target # fanSpeed /\ Abs(target - lastSpeed) >= MinDelta
Due(target) == Jumps(target) /\ since >= MinInterval

Suppressed_Remembered(target) ==
  lastSpeed' = (IF Jumps(target) THEN target ELSE lastSpeed) /\ UNCHANGED since
\* A step whose command the hysteresis suppresses leaves the controller as it
\* was: the same target is considered again at the next step.
Suppressed(target) == UNCHANGED <<lastSpeed, since>>

HoldSpeed(temp) ==
  /\ Asked /\ ~Due(TargetSpeed(temp))
  /\ Suppressed(TargetSpeed(temp))
  /\ answer' = (IF since >= MinInterval THEN "settled" ELSE "none") /\ wanted' = TargetSpeed(temp)
  /\ UNCHANGED <<fanSpeed, auto, lostFans>>

\* A command takes effect at the BMC, or is lost on the way.
SetSpeed(temp) ==
  /\ Asked /\ Due(TargetSpeed(temp))
  /\ lastSpeed' = TargetSpeed(temp) /\ since' = 0
  /\ answer' = "set" /\ wanted' = TargetSpeed(temp)
  /\ \/ fanSpeed' = TargetSpeed(temp) /\ auto' = FALSE /\ UNCHANGED lostFans
     \/ lostFans < MaxLostFans /\ lostFans' = lostFans + 1 /\ UNCHANGED <<fanSpeed, auto>>

FanTime == since < MinInterval /\ since' = since + 1 /\ UNCHANGED <<lastSpeed, fanSpeed, auto, answer, wanted, fanSteps, lostFans>>

\* In its automatic mode the BMC chooses the speed.
AutoSpeed(s) == auto /\ s # fanSpeed /\ fanSpeed' = s /\ answer' = "none" /\ UNCHANGED <<lastSpeed, since, auto, wanted, fanSteps, lostFans>>

FanNext ==
  \/ Handoff \/ FanTime
  \/ \E t \in Temp : HoldSpeed(t) \/ SetSpeed(t)
  \/ \E s \in Speed : AutoSpeed(s)

-----------------------------------------------------------------------------
\* When the controller lets a step pass without a command although the
\* interval is over, the fans have the speed the curve asks for or are within
\* MinDelta of it: hysteresis never leaves them elsewhere, however often the loop
\* was handed off and taken back.  It holds as long as no command was lost;
\* after one the controller takes the speed for reached and does not repeat it.
FansInPlace ==
  answer = "settled" /\ lostFans = 0 =>
    wanted = fanSpeed \/ Abs(wanted - fanSpeed) < MinDelta
=============================================================================
