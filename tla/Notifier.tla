------------------------------ MODULE Notifier ------------------------------
(***************************************************************************)
(* Outgoing notifications: the dispatch queue and its workers              *)
(* (backend/internal/service/alerting.go), the webhook channels with their *)
(* retries (backend/internal/notify/webhook.go) and alert_event.           *)
(* notify_state (adapter/threshold.go, adapter/notify.go).  The WebSocket  *)
(* side of a dispatch is module Hub.                                       *)
(***************************************************************************)
EXTENDS Naturals, Sequences, SequencesExt

CONSTANTS
  Alert,       \* rows of alert_event
  Critical,    \* those of the highest severity
  Channels,    \* enabled webhook channels, in the order of their IDs
  Strict,      \* channels with the highest min_severity
  Worker,      \* goroutines of StartDispatch
  QueueLimit,  \* capacity of dispatchWorker.ch
  Retries      \* len(defaultRetries)

ASSUME NotifierAssumption ==
  /\ Channels \in Seq(Range(Channels))
  /\ Critical \subseteq Alert /\ Strict \subseteq Range(Channels)
  /\ QueueLimit \in Nat \ {0} /\ Retries \in Nat \ {0}

VARIABLES
  life,        \* how far an alert is: "new", "firing" or "resolved"
  queue,       \* dispatchWorker.ch
  job,         \* what a worker does
  notifyState, \* alert_event.notify_state
  outcome,     \* history: what became of an alert's first notification
  stopping     \* ctx is cancelled

notifierVars == <<life, queue, job, notifyState, outcome, stopping>>

\* A recovery carries no ID: markEvent skips it.
Item == [alert : Alert, kind : {"firing", "recovered"}]
Resting == [step |-> "idle"]

SeverityAtLeast(a, c) == c \notin Strict \/ a \in Critical

Rank(state) == CASE state = "failed" -> 2 [] state = "sent" -> 1 [] OTHER -> 0

WorseState_Last(a, b) == b

WorseState(a, b) == IF Rank(b) > Rank(a) THEN b ELSE a

-----------------------------------------------------------------------------
\* dispatch: a full queue drops the item, which is only logged.
Enqueue(a, kind) ==
  queue' = IF Len(queue) < QueueLimit THEN Append(queue, [alert |-> a, kind |-> kind]) ELSE queue

\* Each row is announced once, when it is inserted (module Alerting).
Raise(a) ==
  /\ life[a] = "new"
  /\ life' = [life EXCEPT ![a] = "firing"]
  /\ Enqueue(a, "firing")
  /\ UNCHANGED <<job, notifyState, outcome, stopping>>

Clear(a) ==
  /\ life[a] = "firing"
  /\ life' = [life EXCEPT ![a] = "resolved"]
  /\ Enqueue(a, "recovered")
  /\ UNCHANGED <<job, notifyState, outcome, stopping>>

Become(w, j) == job' = [job EXCEPT ![w] = j]

\* select may take an item even when ctx is done.
TakeItem(w) ==
  /\ job[w].step = "idle" /\ queue # <<>>
  /\ queue' = Tail(queue)
  /\ Become(w, [step |-> "list", item |-> Head(queue)])
  /\ UNCHANGED <<life, notifyState, outcome, stopping>>

Quit(w) ==
  /\ job[w].step = "idle" /\ stopping
  /\ Become(w, [step |-> "gone"])
  /\ UNCHANGED <<life, queue, notifyState, outcome, stopping>>

\* ListWebhook; an error ends the notification, with nothing marked.
ListChannels(w) ==
  /\ job[w].step = "list"
  /\ \/ /\ ~stopping
        /\ Become(w, [step |-> "send", item |-> job[w].item, left |-> Channels,
                      attempt |-> 1, overall |-> "skipped"])
     \/ Become(w, Resting)
  /\ UNCHANGED <<life, queue, notifyState, outcome, stopping>>

\* The result for one channel is in: on to the next.
NextChannel(w, state) ==
  LET j == job[w]
  IN  /\ Become(w, [j EXCEPT !.left = Tail(@), !.attempt = 1,
                             !.overall = WorseState(@, state)])
      /\ outcome' = IF j.item.kind = "recovered" THEN outcome
                    ELSE [outcome EXCEPT ![j.item.alert] = @ \cup {state}]

\* One POST, or none: below min_severity, or a configuration that cannot be used.
Send(w) ==
  /\ job[w].step = "send" /\ job[w].left # <<>>
  /\ IF ~SeverityAtLeast(job[w].item.alert, Head(job[w].left))
     THEN NextChannel(w, "skipped")
     ELSE \/ ~stopping /\ NextChannel(w, "sent")
          \/ NextChannel(w, "failed") /\ (stopping \/ job[w].attempt \in {1, Retries})
          \/ /\ job[w].attempt < Retries
             /\ job' = [job EXCEPT ![w].attempt = @ + 1]
             /\ UNCHANGED outcome
  /\ UNCHANGED <<life, queue, notifyState, stopping>>

\* markEvent; an UPDATE that fails is only logged.
Mark(w) ==
  /\ job[w].step = "send" /\ job[w].left = <<>>
  /\ Become(w, Resting)
  /\ \/ /\ ~stopping /\ job[w].item.kind = "firing"
        /\ notifyState' = [notifyState EXCEPT ![job[w].item.alert] = job[w].overall]
     \/ UNCHANGED notifyState
  /\ UNCHANGED <<life, queue, outcome, stopping>>

Cancel ==
  /\ ~stopping /\ stopping' = TRUE
  /\ UNCHANGED <<life, queue, job, notifyState, outcome>>

NotifierInit ==
  /\ life = [a \in Alert |-> "new"]
  /\ queue = <<>>
  /\ job = [w \in Worker |-> Resting]
  /\ notifyState = [a \in Alert |-> "pending"]
  /\ outcome = [a \in Alert |-> {}]
  /\ stopping = FALSE

Work(w) == TakeItem(w) \/ Quit(w) \/ ListChannels(w) \/ Send(w) \/ Mark(w)

NotifierNext ==
  \/ \E a \in Alert : Raise(a) \/ Clear(a)
  \/ \E w \in Worker : Work(w)
  \/ Cancel

-----------------------------------------------------------------------------
(* Properties *)

\* What a row says of its notification is the worst that happened on any
\* channel: "sent" hides no failure, and nothing sent is "skipped".
NotifyStateTruthful ==
  \A a \in Alert :
    CASE notifyState[a] = "failed"  -> "failed" \in outcome[a]
      [] notifyState[a] = "sent"    -> "sent" \in outcome[a] /\ "failed" \notin outcome[a]
      [] notifyState[a] = "skipped" -> outcome[a] \subseteq {"skipped"}
      [] OTHER                      -> TRUE
=============================================================================
