------------------------------ MODULE AlarmLife ------------------------------
(***************************************************************************)
(* What the alarm engine promises to its caller: the life of an alarm as   *)
(* the events that AlarmEngine.Process returns.  AlarmEngine implements    *)
(* it; Alerting, which writes the events to the database, builds on it     *)
(* and needs to know neither samples nor rules.                            *)
(***************************************************************************)

CONSTANT Alarm

VARIABLES
  firing,  \* the alarm has fired and not recovered
  event    \* the event returned last

lifeVars == <<firing, event>>

\* An idle alarm may be held back by its parent, and then stays idle; one that
\* fires, or fires again, reports it, openly or muted; only recovery ends it.
Life ==
  { step \in [before : BOOLEAN, after : BOOLEAN,
             event : {"none", "suppressed", "firing", "muted", "recovered"}] :
      \/ step.event \in {"none", "suppressed"} /\ step.after = step.before
      \/ step.event \in {"firing", "muted"} /\ step.after
      \/ step.event = "recovered" /\ step.before /\ ~step.after }

LifeInit ==
  firing = [a \in Alarm |-> FALSE] /\ event = [a \in Alarm |-> "none"]

\* One call of Process moves every alarm by a step of its life.
LifeNext ==
  \A a \in Alarm :
    [before |-> firing[a], event |-> event'[a], after |-> firing'[a]] \in Life

LifeSpec == LifeInit /\ [][LifeNext]_lifeVars
=============================================================================
