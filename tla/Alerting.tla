------------------------------ MODULE Alerting ------------------------------
(***************************************************************************)
(* Alert rows of one host: AlertService.Evaluate of concurrent reports     *)
(* (backend/internal/service/alerting.go), the statements on alert_event   *)
(* (backend/internal/adapter/threshold.go), the offline monitor            *)
(* (service/offline.go), the deletion of the host (service/host.go) and    *)
(* restarts of the server.                                                 *)
(*                                                                         *)
(* A report passes the alarm engine under the engine's lock, which is one  *)
(* step of AlarmLife, and writes the events afterwards, one statement at a *)
(* time.  SQLite has one connection: a statement is atomic, and statements *)
(* of different goroutines interleave.  What happens to a notification     *)
(* after it was dispatched is in module Notifier.                          *)
(***************************************************************************)
EXTENDS Integers, Sequences, FiniteSets

CONSTANTS
  NumAlarms,    \* alarms of the host (rule and object), in the order of rule IDs
  Report,       \* goroutines that handle reports of the host
  Monitor,      \* the goroutine of OfflineMonitor.Run
  MaxRaises,    \* bound: reports with an event that fires
  MaxTroubles   \* bound: how many of Trouble befall the host

ASSUME AlertingAssumption ==
  /\ NumAlarms \in Nat /\ MaxRaises \in Nat /\ MaxTroubles \in Nat
  /\ Monitor \notin Report

Alarm == 1..NumAlarms
Offline == 0                 \* agentOfflineKey
Key == Alarm \cup {Offline}
Writer == Report \cup {Monitor}

\* A statement fails, the server restarts, the agent dies, the host is deleted.
Trouble == {"failure", "restart", "death", "deletion"}

VARIABLES
  firing,     \* the engine: alarmState.firing, per alarm
  rows,       \* the rows of alert_event with a key, in the order of their IDs
  pc,         \* the step a writer is at
  todo,       \* events a writer still has to write, in the order of keys
  id,         \* AlertEvent.ID: which row of the key a writer has created
  host,       \* host.status; "stale" is online with an old last_seen_at
  alive,      \* the agent's reports and heartbeats arrive
  deletion,   \* where HostService.Delete is
  newest,     \* history: who holds the engine's last event of an alarm
  disturbed,  \* history: alarms whose last event was not the last one written
  raises,     \* reports with an event that fired, up to MaxRaises
  troubles    \* what has befallen the host, each at most once

server == <<firing, pc, todo, id>>
histories == <<newest, disturbed>>
counts == <<raises, troubles>>
vars == <<server, rows, host, alive, deletion, histories, counts>>

\* The engine's promise.  Events are never muted: no production code calls
\* AlarmEngine.SetMaintenance.
Engine == INSTANCE AlarmLife WITH event <- firing
Life == {step \in Engine!Life : step.event # "muted"}

\* Touch, for suppressed events, changes only the time and value of a row.
Written == {"firing", "recovered"}

Event == [key : Key, event : Written]
Keys(events) == {e.key : e \in events}

\* host_id is the host's for every row until the host is deleted, when it is
\* set to NULL in all of them.  announced counts the dispatches of the row, late
\* remembers that it was inserted while the host was being deleted.
Row == [state : {"firing", "resolved"}, announced : Nat, late : BOOLEAN]

TypeOK ==
  /\ firing \in [Alarm -> BOOLEAN]
  /\ rows \in [Key -> Seq(Row)]
  /\ pc \in [Writer -> {"idle", "write", "insert", "refresh", "dispatch",
                        "status", "offline", "recheck"}]
  /\ todo \in [Writer -> SUBSET Event]
  /\ id \in [Writer -> Nat]
  /\ host \in {"unknown", "online", "stale", "offline", "gone"}
  /\ alive \in BOOLEAN
  /\ deletion \in {"no", "found", "closed"}
  /\ newest \subseteq Report \X Alarm
  /\ disturbed \subseteq Alarm
  /\ raises \in 0..MaxRaises
  /\ troubles \subseteq Trouble

-----------------------------------------------------------------------------
Suffer(what) ==
  /\ what \notin troubles /\ Cardinality(troubles) < MaxTroubles
  /\ troubles' = troubles \cup {what}

Go(w, to) == pc' = [pc EXCEPT ![w] = to]

\* The event a writer is at.
Current(w, e) == e \in todo[w] /\ \A f \in todo[w] : e.key <= f.key

\* The writers that are about to change the row of an alarm.
Pending(k) == {w \in Writer : k \in Keys(todo[w])}

\* The writer is done with an event and goes on to the next; after the last
\* one a report updates the status, and the monitor ends its loop or its tick.
Finish(w, e) ==
  /\ todo' = [todo EXCEPT ![w] = @ \ {e}]
  /\ Go(w, IF todo[w] # {e} THEN "write"
           ELSE IF w # Monitor THEN "status"
           ELSE IF e.event = "firing" THEN "recheck" ELSE "idle")

\* The engine's last event of an alarm, written while no other is pending,
\* sets the row right, whatever happened before.
Settle(w, e) ==
  disturbed' = IF Pending(e.key) = {w} /\ <<w, e.key>> \in newest
               THEN disturbed \ {e.key} ELSE disturbed

Disturb(keys) == disturbed' = disturbed \cup (keys \cap Alarm)

Matching_AnyState(k) == DOMAIN rows[k]

\* WHERE active_key = ? AND state = 'firing'
Matching(k) == {i \in DOMAIN rows[k] : rows[k][i].state = "firing"}

Closed(keys) ==
  [k \in Key |-> [i \in DOMAIN rows[k] |->
     IF k \in keys THEN [rows[k][i] EXCEPT !.state = "resolved"] ELSE rows[k][i]]]

-----------------------------------------------------------------------------
(* Evaluate, RaiseAgentOffline and ResolveAgentOffline *)

\* Evaluate: the rules, then AlarmEngine.Process.
Process(r) ==
  /\ alive /\ pc[r] = "idle"
  /\ \E step \in [Alarm -> Life] :
       /\ \A a \in Alarm : step[a].before = firing[a]
       /\ firing' = [a \in Alarm |-> step[a].after]
       /\ LET events == {[key |-> a, event |-> step[a].event] :
                            a \in {b \in Alarm : step[b].event \in Written}}
          IN  /\ IF \E e \in events : e.event = "firing"
                 THEN raises < MaxRaises /\ raises' = raises + 1 ELSE UNCHANGED raises
              /\ todo' = [todo EXCEPT ![r] = events]
              /\ Go(r, IF events = {} THEN "status" ELSE "write")
              /\ newest' = {x \in newest : x[2] \notin Keys(events)} \cup ({r} \X Keys(events))
              /\ Disturb({a \in Keys(events) : Pending(a) # {}})
  /\ UNCHANGED <<rows, id, host, alive, deletion, troubles>>

\* UpsertFiring, the first UPDATE: a row that fires is refreshed.
Update(w, e) ==
  /\ pc[w] = "write" /\ Current(w, e) /\ e.event = "firing"
  /\ IF Matching(e.key) = {}
     THEN Go(w, "insert") /\ UNCHANGED <<todo, disturbed>>
     ELSE Finish(w, e) /\ Settle(w, e)
  /\ UNCHANGED <<firing, rows, id, host, alive, deletion, newest, counts>>

\* The INSERT: active_key is unique, and the host must exist.
Insert(w, e) ==
  /\ pc[w] = "insert" /\ Current(w, e) /\ Matching(e.key) = {} /\ host # "gone"
  /\ rows' = [rows EXCEPT ![e.key] = Append(@,
       [state |-> "firing", announced |-> 0, late |-> deletion = "closed"])]
  /\ id' = [id EXCEPT ![w] = Len(rows[e.key]) + 1]
  /\ Go(w, "dispatch")
  /\ Settle(w, e)
  /\ UNCHANGED <<firing, todo, host, alive, deletion, newest, counts>>

Collide_Created(w, e) ==
  /\ pc[w] = "insert" /\ Current(w, e) /\ Matching(e.key) # {}
  /\ id' = [id EXCEPT ![w] = CHOOSE i \in Matching(e.key) : TRUE]
  /\ Go(w, "dispatch")
  /\ UNCHANGED <<firing, rows, todo, host, alive, deletion, histories, counts>>

\* The INSERT meets the row that another writer has inserted meanwhile.
Collide(w, e) ==
  /\ pc[w] = "insert" /\ Current(w, e) /\ Matching(e.key) # {}
  /\ Go(w, "refresh")
  /\ UNCHANGED <<firing, rows, todo, id, host, alive, deletion, histories, counts>>

\* The second UPDATE, of a row that may have been resolved meanwhile.
Refresh(w, e) ==
  /\ pc[w] = "refresh" /\ Current(w, e)
  /\ Finish(w, e)
  /\ IF Matching(e.key) = {} THEN UNCHANGED disturbed ELSE Settle(w, e)
  /\ UNCHANGED <<firing, rows, id, host, alive, deletion, newest, counts>>

\* dispatch of a row that was created.
Dispatch(w, e) ==
  /\ pc[w] = "dispatch" /\ Current(w, e)
  /\ rows' = [rows EXCEPT ![e.key][id[w]].announced = @ + 1]
  /\ id' = [id EXCEPT ![w] = 0]
  /\ Finish(w, e)
  /\ UNCHANGED <<firing, host, alive, deletion, histories, counts>>

\* Resolve; the dispatch of the recovery changes nothing here.
Resolve(w, e) ==
  /\ pc[w] = "write" /\ Current(w, e) /\ e.event = "recovered"
  /\ rows' = Closed({e.key})
  /\ Finish(w, e) /\ Settle(w, e)
  /\ UNCHANGED <<firing, id, host, alive, deletion, newest, counts>>

\* A statement fails, or the host is gone: the event is logged and skipped.
Skip(w, e) ==
  /\ pc[w] \in {"write", "insert", "refresh"} /\ Current(w, e)
  /\ \/ Suffer("failure")
     \/ pc[w] = "insert" /\ host = "gone" /\ Matching(e.key) = {} /\ UNCHANGED troubles
  /\ Finish(w, e) /\ Disturb({e.key})
  /\ UNCHANGED <<firing, rows, id, host, alive, deletion, newest, raises>>

Write(w) ==
  \E e \in todo[w] :
    \/ Update(w, e) \/ Insert(w, e) \/ Collide(w, e) \/ Refresh(w, e)
    \/ Dispatch(w, e) \/ Resolve(w, e) \/ Skip(w, e)

-----------------------------------------------------------------------------
(* Host status and the offline monitor *)

\* UpdateStatus(online): a row that is gone stays gone.
Seen == IF host = "gone" THEN "gone" ELSE "online"

\* handleMetrics, after Evaluate; an UPDATE that fails is only logged.
Status(r) ==
  /\ pc[r] = "status"
  /\ host' \in {Seen, host}
  /\ Go(r, "idle")
  /\ UNCHANGED <<firing, rows, todo, id, alive, deletion, histories, counts>>

Heartbeat_KeepOffline ==
  /\ alive /\ host # "offline"
  /\ host' = Seen
  /\ UNCHANGED <<server, rows, alive, deletion, histories, counts>>

\* StreamServer.touch
Heartbeat ==
  /\ alive
  /\ host' = Seen
  /\ UNCHANGED <<server, rows, alive, deletion, histories, counts>>

\* Twice the interval without a sign of life.  An agent that lives is faster.
Age ==
  /\ ~alive /\ host = "online"
  /\ host' = "stale"
  /\ UNCHANGED <<server, rows, alive, deletion, histories, counts>>

\* Tick: the hosts are listed once; the status is read here and not again.
Tick ==
  /\ pc[Monitor] = "idle" /\ host = "stale"
  /\ Go(Monitor, "offline")
  /\ UNCHANGED <<firing, rows, todo, id, host, alive, deletion, histories, counts>>

\* The monitor opens or closes its alert by the statements of an alarm.
MonitorWrites(event) ==
  /\ todo' = [todo EXCEPT ![Monitor] = {[key |-> Offline, event |-> event]}]
  /\ Go(Monitor, "write")
RaiseAgentOffline == MonitorWrites("firing")
ResolveAgentOffline == MonitorWrites("recovered")

\* UpdateStatus(offline), which is only logged when it fails, then
\* RaiseAgentOffline.
MarkOffline ==
  /\ pc[Monitor] = "offline"
  /\ \/ host' = (IF host = "gone" THEN "gone" ELSE "offline") /\ UNCHANGED troubles
     \/ Suffer("failure") /\ UNCHANGED host
  /\ RaiseAgentOffline
  /\ UNCHANGED <<firing, rows, id, alive, deletion, histories, raises>>

Recheck_AnyHost ==
  /\ pc[Monitor] = "recheck" \/ (pc[Monitor] = "idle" /\ host # "stale")
  /\ Matching(Offline) # {} /\ host # "gone"
  /\ ResolveAgentOffline
  /\ UNCHANGED <<firing, rows, id, host, alive, deletion, histories, counts>>

\* The end of a tick, or a tick that found no stale host: the firing
\* agent_offline rows are listed, and resolved if their host is back online.  A
\* query that fails, or finds nothing to do, ends the tick.
Recheck ==
  /\ \/ pc[Monitor] = "recheck"
     \/ pc[Monitor] = "idle" /\ host # "stale"
  /\ \/ /\ Matching(Offline) # {} /\ host \in {"online", "stale"}
        /\ ResolveAgentOffline
        /\ UNCHANGED troubles
     \/ /\ \/ Suffer("failure")
           \/ UNCHANGED troubles /\ (Matching(Offline) = {} \/ host \notin {"online", "stale"})
        /\ Go(Monitor, "idle")
        /\ UNCHANGED todo
  /\ UNCHANGED <<firing, rows, id, host, alive, deletion, histories, raises>>

-----------------------------------------------------------------------------
(* HostService.Delete *)

FindHost ==
  /\ deletion = "no" /\ host # "gone" /\ Suffer("deletion")
  /\ deletion' = "found"
  /\ UNCHANGED <<server, rows, host, alive, histories, raises>>

CloseRows_AlarmsOnly ==
  /\ deletion = "found"
  /\ rows' = Closed(Alarm)
  /\ deletion' = "closed"
  /\ Disturb({a \in Alarm : firing[a]})
  /\ UNCHANGED <<server, host, alive, newest, counts>>

\* ResolveByHost; if it fails, nothing is deleted.
CloseRows ==
  /\ deletion = "found"
  /\ \/ /\ rows' = Closed(Key)
        /\ deletion' = "closed"
        /\ Disturb({a \in Alarm : firing[a]})
        /\ UNCHANGED troubles
     \/ Suffer("failure") /\ deletion' = "no" /\ UNCHANGED <<rows, disturbed>>
  /\ UNCHANGED <<server, host, alive, newest, raises>>

\* DELETE: alert_event.host_id is ON DELETE SET NULL.
DeleteHost ==
  /\ deletion = "closed"
  /\ \/ host' = "gone" /\ UNCHANGED troubles
     \/ Suffer("failure") /\ UNCHANGED host
  /\ deletion' = "no"
  /\ UNCHANGED <<server, rows, alive, histories, raises>>

-----------------------------------------------------------------------------
(* The environment *)

\* The server stops and starts: the engine and all goroutines start anew.
Restart ==
  /\ Suffer("restart")
  /\ firing' = [a \in Alarm |-> FALSE]
  /\ pc' = [w \in Writer |-> "idle"]
  /\ todo' = [w \in Writer |-> {}]
  /\ id' = [w \in Writer |-> 0]
  /\ deletion' = "no"
  /\ disturbed' = {a \in Alarm : Matching(a) # {}}
  /\ newest' = {}
  /\ UNCHANGED <<rows, host, alive, raises>>

Die ==
  /\ alive /\ Suffer("death")
  /\ alive' = FALSE
  /\ UNCHANGED <<server, rows, host, deletion, histories, raises>>

Revive ==
  /\ ~alive
  /\ alive' = TRUE
  /\ UNCHANGED <<server, rows, host, deletion, histories, counts>>

Init ==
  /\ firing = [a \in Alarm |-> FALSE]
  /\ rows = [k \in Key |-> <<>>]
  /\ pc = [w \in Writer |-> "idle"]
  /\ todo = [w \in Writer |-> {}]
  /\ id = [w \in Writer |-> 0]
  /\ host = "unknown"
  /\ alive = TRUE
  /\ deletion = "no"
  /\ newest = {}
  /\ disturbed = {}
  /\ raises = 0
  /\ troubles = {}

Next ==
  \/ \E r \in Report : Process(r) \/ Status(r)
  \/ \E w \in Writer : Write(w)
  \/ Heartbeat \/ Age \/ Tick \/ MarkOffline \/ Recheck
  \/ FindHost \/ CloseRows \/ DeleteHost
  \/ Restart \/ Die \/ Revive

\* Goroutines keep running, the ticker of the monitor ticks, an agent that
\* lives sends reports and heartbeats, and time passes.
Fairness ==
  /\ \A w \in Writer : WF_vars(Write(w))
  /\ \A r \in Report : WF_vars(Process(r)) /\ WF_vars(Status(r))
  /\ WF_vars(Tick) /\ WF_vars(MarkOffline) /\ WF_vars(Recheck)
  /\ WF_vars(Heartbeat) /\ WF_vars(Age)

Spec == Init /\ [][Next]_vars /\ Fairness

-----------------------------------------------------------------------------
(* Properties *)

RowFires(k) == \E i \in DOMAIN rows[k] : rows[k][i].state = "firing"

\* However reports overlap, a row is announced once: by the writer that
\* created it and no other; not at all only if the server stopped in between.
AnnouncedOnce ==
  \A k \in Key : \A i \in DOMAIN rows[k] :
    \/ rows[k][i].announced = 1
    \/ /\ rows[k][i].announced = 0
       /\ \/ "restart" \in troubles
          \/ \E w \in Writer : pc[w] = "dispatch" /\ id[w] = i /\ k \in Keys(todo[w])

\* The row of an alarm fires just when the engine says so, whenever nobody
\* writes its events and the last one was written alone and without failure:
\* one good event makes up for all that went wrong before.
RowFollowsEngine ==
  \A a \in Alarm : a \notin disturbed /\ Pending(a) = {} => (RowFires(a) <=> firing[a])

\* A row that fires and has lost its host was inserted while the host was
\* being deleted: deletion leaves no other behind.
OrphanOnlyByRace ==
  host = "gone" => \A k \in Key : \A i \in DOMAIN rows[k] :
                     rows[k][i].state = "firing" => rows[k][i].late

\* A host whose agent lives on does not stay offline, whatever the monitor
\* read before; and its offline alert is resolved.
OfflineSettles ==
  <>[](alive /\ host # "gone") => <>[](host = "online" /\ ~RowFires(Offline))

\* The death of an agent is noticed: the host goes offline and an alert fires.
\* (Not if the server fails or restarts between the two: nothing repeats the
\* second for a host that is already offline.)
OfflineNoticed ==
  /\ <>(host = "online") /\ <>[](~alive /\ host # "gone")
  /\ [](troubles \subseteq {"death"})
  => <>[](host = "offline" /\ RowFires(Offline))

\* What the docs say of recovery ("恢复后 1 个周期内自动 resolved"): while
\* reports keep coming and none of them fires the alarm, its row is resolved,
\* even if the server has been restarted.
ResolvedAfterRecovery ==
  \A a \in Alarm :
    []<>alive /\ <>[]~firing[a] /\ [](troubles \subseteq {"restart"}) => <>[]~RowFires(a)
=============================================================================
