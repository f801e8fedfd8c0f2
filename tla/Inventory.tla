----------------------------- MODULE Inventory -----------------------------
(***************************************************************************)
(* Hardware changes of one host: InventoryService                          *)
(* (backend/internal/service/inventory.go) with its tables                 *)
(* hardware_snapshot, change_event (adapter/asset.go) and host_component   *)
(* (adapter/component.go).  No transaction holds a round together: each    *)
(* store call may fail and end it there.                                   *)
(*                                                                         *)
(* Rounds follow each other: one stream serves a host, and it handles its  *)
(* messages in turn.  Times are round numbers.                             *)
(***************************************************************************)
EXTENDS Naturals, FiniteSets

CONSTANTS
  Part,      \* identities (category and slot)
  Serial,     \* what the white-listed fields of a part can be
  NoPart,    \* in place of a value: the part is absent, or has no row
  MaxRounds  \* bound: snapshots

ASSUME InventoryAssumption == NoPart \notin Serial /\ MaxRounds \in Nat

VARIABLES
  round,     \* rounds so far
  phase,     \* the step the round is at
  snapshot,  \* what it reports
  component, \* host_component: the value, last_seen_at and removed_at
  prev,      \* the rows as they were before the round
  changed,   \* the fingerprint has changed; "baseline" when there was none
  latest,    \* fingerprint of the last row of hardware_snapshot, or {}
  visiting,  \* rows a loop of the round has not come to yet
  events,    \* change_event
  alertRows, \* asset_change rows in alert_event
  pushed,    \* history: change.detected messages
  absences,  \* history: upserted rounds since a part was last in one
  told       \* history: removals recorded since then

inventoryVars == <<round, phase, snapshot, component, prev, changed, latest, visiting,
                   events, alertRows, pushed, absences, told>>

Present == {p \in Part : snapshot[p] # NoPart}

\* fingerprint: a hash of identities and white-listed fields; here, those.
Fingerprint(s) == {<<p, s[p]>> : p \in {q \in Part : s[q] # NoPart}}

Enter(step, rows) == phase' = step /\ visiting' = rows

-----------------------------------------------------------------------------
\* LatestFingerprint, then ListAll, before the rows are overwritten.
Snapshot ==
  /\ phase = "idle" /\ round < MaxRounds
  /\ round' = round + 1
  /\ snapshot' \in [Part -> Serial \cup {NoPart}]
  /\ prev' = component
  /\ changed' = CASE latest = {} -> "baseline"
                  [] latest = {Fingerprint(snapshot')} -> "no"
                  [] OTHER -> "yes"
  /\ Enter("upsert", {p \in Part : snapshot'[p] # NoPart})
  /\ UNCHANGED <<component, latest, events, alertRows, pushed, absences, told>>

Upserted_KeepMark(p) == [component[p] EXCEPT !.value = snapshot[p], !.seen = round]

\* A part that returns loses its removal mark.
Upserted(p) == [value |-> snapshot[p], seen |-> round, removed |-> 0]

\* UpsertBatch, row by row.
Upsert(p) ==
  /\ phase = "upsert" /\ p \in visiting
  /\ component' = [component EXCEPT ![p] = Upserted(p)]
  /\ visiting' = visiting \ {p}
  /\ absences' = [absences EXCEPT ![p] = 0]
  /\ told' = [told EXCEPT ![p] = 0]
  /\ UNCHANGED <<round, phase, snapshot, prev, changed, latest, events, alertRows, pushed>>

\* CreateSnapshot, which makes this the reference of the next round, whatever
\* becomes of the rest of this one.
RecordSnapshot ==
  /\ phase = "upsert" /\ visiting = {}
  /\ latest' = {Fingerprint(snapshot)}
  /\ absences' = [p \in Part |-> IF p \in Present THEN 0 ELSE absences[p] + 1]
  /\ CASE changed = "baseline" -> Enter("idle", {})
       [] changed = "no"       -> Enter("missing", {p \in Part : component[p].seen \in 1..(round - 1)})
       [] changed = "yes"      -> Enter("added", {p \in Present : prev[p].value = NoPart})
  /\ UNCHANGED <<round, snapshot, component, prev, changed, events, alertRows, pushed, told>>

\* recordChange: the alert row, the change row, and the message when the alert is
\* new.  When the change row fails, a new alert is never announced.
RecordChange(p, type) ==
  /\ alertRows' = alertRows \cup {<<p, type>>}
  /\ events' = events \cup {<<p, type, round>>}
  /\ pushed' = IF <<p, type>> \in alertRows THEN pushed ELSE pushed \cup {<<p, type>>}

ReportAdded(p) ==
  /\ phase = "added" /\ p \in visiting
  /\ RecordChange(p, "added") /\ visiting' = visiting \ {p}
  /\ UNCHANGED <<round, phase, snapshot, component, prev, changed, latest, absences, told>>

\* ListMissingSince.
ListMissing ==
  /\ phase = "added" /\ visiting = {}
  /\ Enter("missing", {p \in Part : component[p].seen \in 1..(round - 1)})
  /\ UNCHANGED <<round, snapshot, component, prev, changed, latest, events, alertRows, pushed, absences, told>>

\* HasChangeSince the row's removed_at.
Reported(p) == \E t \in component[p].removed..round : <<p, "removed", t>> \in events

\* confirmRemovals: the first absence is a mark, the second an event.
ConfirmRemoval(p) ==
  /\ phase = "missing" /\ p \in visiting
  /\ visiting' = visiting \ {p}
  /\ \/ /\ component[p].removed = 0
        /\ component' = [component EXCEPT ![p].removed = round]
        /\ UNCHANGED <<events, alertRows, pushed, told>>
     \/ /\ component[p].removed # 0 /\ Reported(p)
        /\ UNCHANGED <<component, events, alertRows, pushed, told>>
     \/ /\ component[p].removed # 0 /\ ~Reported(p)
        /\ RecordChange(p, "removed")
        /\ told' = [told EXCEPT ![p] = @ + 1]
        /\ UNCHANGED component
  /\ UNCHANGED <<round, phase, snapshot, prev, changed, latest, absences>>

\* Only parts that were there, without a mark, can be modified.
Modified == {p \in Present : prev[p].value \notin {NoPart, snapshot[p]} /\ prev[p].removed = 0}

AfterRemovals ==
  /\ phase = "missing" /\ visiting = {}
  /\ IF changed = "yes" THEN Enter("modified", Modified) ELSE Enter("idle", {})
  /\ UNCHANGED <<round, snapshot, component, prev, changed, latest, events, alertRows, pushed, absences, told>>

ReportModified(p) ==
  /\ phase = "modified" /\ p \in visiting
  /\ RecordChange(p, "modified") /\ visiting' = visiting \ {p}
  /\ UNCHANGED <<round, phase, snapshot, component, prev, changed, latest, absences, told>>

RoundDone ==
  /\ phase = "modified" /\ visiting = {}
  /\ Enter("idle", {})
  /\ UNCHANGED <<round, snapshot, component, prev, changed, latest, events, alertRows, pushed, absences, told>>

\* A store call fails, or the server dies: what has been written stays.
Abort ==
  /\ phase # "idle" /\ Enter("idle", {})
  /\ \/ UNCHANGED alertRows
     \/ \E p \in visiting : phase \in {"added", "modified"} /\ alertRows' = alertRows \cup {<<p, phase>>}
     \/ \E p \in visiting : /\ phase = "missing" /\ component[p].removed # 0 /\ ~Reported(p)
                            /\ alertRows' = alertRows \cup {<<p, "removed">>}
  /\ UNCHANGED <<round, snapshot, component, prev, changed, latest, events, pushed, absences, told>>

InventoryInit ==
  /\ round = 0 /\ phase = "idle" /\ visiting = {}
  /\ snapshot = [p \in Part |-> NoPart]
  /\ component = [p \in Part |-> [value |-> NoPart, seen |-> 0, removed |-> 0]]
  /\ prev = component /\ changed = "no" /\ latest = {}
  /\ events = {} /\ alertRows = {} /\ pushed = {}
  /\ absences = [p \in Part |-> 0] /\ told = [p \in Part |-> 0]

InventoryNext ==
  \/ Snapshot \/ RecordSnapshot \/ ListMissing \/ AfterRemovals \/ RoundDone \/ Abort
  \/ \E p \in Part : Upsert(p) \/ ReportAdded(p) \/ ConfirmRemoval(p) \/ ReportModified(p)

-----------------------------------------------------------------------------
(* Properties *)

\* D11: a part is reported as removed only when two rounds in a row have been
\* without it, and once until it returns, whichever rounds fail halfway.
RemovalDebounced == \A p \in Part : told[p] <= 1 /\ (told[p] = 1 => absences[p] >= 2)
=============================================================================
