----------------------------- MODULE Scheduler -----------------------------
(***************************************************************************)
(* Out-of-band polling: the loop of ScheduleEngine                         *)
(* (backend/internal/engine/schedule_engine.go), the targets that          *)
(* IPMIPoller.SyncTargets registers (service/ipmipoll.go), and the         *)
(* requests that change the hosts it reads (api/web/handler/bmc.go,        *)
(* service/host.go).  task.Pool is module TaskPool; here it only refuses a *)
(* poll whose host is in backoff.                                          *)
(*                                                                         *)
(* Times are countdowns: nextDue and the loop's timer as what is left.     *)
(***************************************************************************)
EXTENDS Naturals, FiniteSets, FiniteSetsExt

CONSTANTS
  BMCHost,     \* rows of host
  Syncer,      \* goroutines that may run SyncTargets at a time
  Interval,    \* SensorInterval
  IdleSleep,   \* the hour the loop sleeps without targets
  MaxRequests  \* bound: requests that change a host

ASSUME SchedulerAssumption ==
  /\ Interval \in Nat \ {0} /\ IdleSleep \in Nat /\ MaxRequests \in Nat
  /\ Interval <= IdleSleep

VARIABLES
  ipmi,       \* hosts with collect_ipmi and a bmc_ip
  credential, \* hosts with a row in bmc_credential
  stateOf,    \* targets: which state of the host is registered, 0 is none
  made,       \* states made for a host so far: a state is <<host, number>>
  due,        \* nextDue of the registered state
  inFlight,   \* inFlight of the registered state
  flights,    \* states whose goroutine is in Pool.Do
  backoff,    \* hosts that the pool refuses
  loop,       \* the step the loop is at
  timer,      \* what is left of its sleep
  batch,      \* due states that dispatchDue has collected
  sync,       \* the step a syncer is at
  want,       \* the hosts a syncer has read
  visit,      \* the hosts a syncer still has to look at
  settled,    \* history: the last sync read the hosts after every change, alone
  requests    \* requests made, up to MaxRequests

hostRows == <<ipmi, credential, requests>>
registry == <<stateOf, made, due, inFlight>>
looping == <<loop, timer, batch>>
syncing == <<sync, want, visit>>
schedVars == <<hostRows, registry, flights, backoff, looping, syncing, settled>>

Registered == {h \in BMCHost : stateOf[h] # 0}
Idle(s) == sync[s] = "idle"

-----------------------------------------------------------------------------
(* Requests.  syncTargetsAsync starts a goroutine: here, an idle syncer. *)

Request == requests < MaxRequests /\ requests' = requests + 1

Begin(s) ==
  /\ Idle(s)
  /\ sync' = [sync EXCEPT ![s] = "list"]
  /\ settled' = FALSE

\* Upsert, then SetBMC; when that fails (the address is another host's) the
\* credential stays and nothing is synchronised.
SetCredential(h, s) ==
  /\ Request
  /\ credential' = credential \cup {h}
  /\ \/ ipmi' = ipmi \cup {h} /\ Begin(s)
     \/ UNCHANGED <<ipmi, sync, settled>>
  /\ UNCHANGED <<registry, flights, backoff, looping, want, visit>>

RemoveCredential(h, s) ==
  /\ Request
  /\ credential' = credential \ {h}
  /\ \/ ipmi' = ipmi \ {h} /\ Begin(s)
     \/ UNCHANGED <<ipmi, sync, settled>>
  /\ UNCHANGED <<registry, flights, backoff, looping, want, visit>>

\* HostService.Create with collect_ipmi, and Delete: nobody calls SyncTargets.
CreateOrDelete(h) ==
  /\ Request
  /\ \/ h \notin ipmi /\ ipmi' = ipmi \cup {h} /\ UNCHANGED credential
     \/ ipmi' = ipmi \ {h} /\ credential' = credential \ {h}
  /\ settled' = FALSE
  /\ UNCHANGED <<registry, flights, backoff, looping, syncing>>

-----------------------------------------------------------------------------
(* SyncTargets *)

Listed_AllHosts == BMCHost

\* The filter IPMIOnly.
Listed == ipmi

List(s) ==
  /\ sync[s] = "list"
  /\ \/ /\ sync' = [sync EXCEPT ![s] = "add"]
        /\ want' = [want EXCEPT ![s] = Listed]
        /\ visit' = [visit EXCEPT ![s] = Listed]
        /\ settled' = \A t \in Syncer \ {s} : Idle(t)
     \/ sync' = [sync EXCEPT ![s] = "idle"] /\ UNCHANGED <<want, visit, settled>>
  /\ UNCHANGED <<hostRows, registry, flights, backoff, looping>>

\* hasTarget and AddTarget, which leaves the phase of a state that is there.
Add(s, h) ==
  /\ sync[s] = "add" /\ h \in visit[s]
  /\ visit' = [visit EXCEPT ![s] = @ \ {h}]
  /\ IF h \in Registered THEN UNCHANGED registry
     ELSE /\ made' = [made EXCEPT ![h] = @ + 1]
          /\ stateOf' = [stateOf EXCEPT ![h] = made[h] + 1]
          /\ due' = [due EXCEPT ![h] = 0]
          /\ inFlight' = [inFlight EXCEPT ![h] = FALSE]
  /\ UNCHANGED <<hostRows, flights, backoff, looping, sync, want, settled>>

\* TargetIDs, once all hosts have been visited.
IDs(s) ==
  /\ sync[s] = "add" /\ visit[s] = {}
  /\ sync' = [sync EXCEPT ![s] = "remove"]
  /\ visit' = [visit EXCEPT ![s] = Registered \ want[s]]
  /\ UNCHANGED <<hostRows, registry, flights, backoff, looping, want, settled>>

\* RemoveTarget: a poll in flight goes on with the state that was removed.
RemoveTarget(s, h) ==
  /\ sync[s] = "remove" /\ h \in visit[s]
  /\ visit' = [visit EXCEPT ![s] = @ \ {h}]
  /\ stateOf' = [stateOf EXCEPT ![h] = 0]
  /\ UNCHANGED <<hostRows, made, due, inFlight, flights, backoff, looping, sync, want, settled>>

Return(s) ==
  /\ sync[s] = "remove" /\ visit[s] = {}
  /\ sync' = [sync EXCEPT ![s] = "idle"]
  /\ UNCHANGED <<hostRows, registry, flights, backoff, looping, want, visit, settled>>

Sync(s) == List(s) \/ IDs(s) \/ Return(s) \/ \E h \in BMCHost : Add(s, h) \/ RemoveTarget(s, h)

-----------------------------------------------------------------------------
(* Run *)

\* sleepUntil: the nearest due time, 0 when it has passed.
Plan ==
  /\ loop = "plan"
  /\ timer' = IF Registered = {} THEN IdleSleep ELSE Min({due[h] : h \in Registered})
  /\ loop' = "sleep"
  /\ UNCHANGED <<hostRows, registry, flights, backoff, batch, syncing, settled>>

\* dispatchDue, under the lock.
Collect ==
  /\ loop = "sleep" /\ timer = 0
  /\ batch' = {<<h, stateOf[h]>> : h \in {g \in Registered : ~inFlight[g] /\ due[g] = 0}}
  /\ loop' = "dispatch"
  /\ UNCHANGED <<hostRows, registry, flights, backoff, timer, syncing, settled>>

\* The lock again, for each state, which may have been removed meanwhile.
Dispatch(st) ==
  /\ loop = "dispatch" /\ st \in batch
  /\ batch' = batch \ {st}
  /\ flights' = flights \cup {st}
  /\ inFlight' = [inFlight EXCEPT ![st[1]] = @ \/ stateOf[st[1]] = st[2]]
  /\ UNCHANGED <<hostRows, stateOf, made, due, backoff, loop, timer, syncing, settled>>

Dispatched ==
  /\ loop = "dispatch" /\ batch = {}
  /\ loop' = "plan"
  /\ UNCHANGED <<hostRows, registry, flights, backoff, timer, batch, syncing, settled>>

Refused_KeepFlag(st) ==
  /\ st \in flights /\ st[1] \in backoff
  /\ flights' = flights \ {st}
  /\ UNCHANGED <<hostRows, registry, backoff, looping, syncing, settled>>

\* ErrBackoff: the phase stays, so the state is due again at once.
Refused(st) ==
  /\ st \in flights /\ st[1] \in backoff
  /\ flights' = flights \ {st}
  /\ inFlight' = [inFlight EXCEPT ![st[1]] = @ /\ stateOf[st[1]] # st[2]]
  /\ UNCHANGED <<hostRows, stateOf, made, due, backoff, looping, syncing, settled>>

\* pollHost has run: it fails without a credential, or because of the BMC.  The
\* state that was dispatched gets the next due time, registered or not.
Polled(st) ==
  LET mine == stateOf[st[1]] = st[2]
  IN  /\ st \in flights /\ st[1] \notin backoff
      /\ flights' = flights \ {st}
      /\ inFlight' = [inFlight EXCEPT ![st[1]] = @ /\ ~mine]
      /\ due' = [due EXCEPT ![st[1]] = IF mine THEN Interval ELSE @]
      /\ \/ st[1] \in credential /\ UNCHANGED backoff
         \/ backoff' = backoff \cup {st[1]}
      /\ UNCHANGED <<hostRows, stateOf, made, looping, syncing, settled>>

-----------------------------------------------------------------------------
Elapse ==
  /\ timer > 0 \/ \E h \in BMCHost : due[h] > 0
  /\ timer' = IF timer > 0 THEN timer - 1 ELSE 0
  /\ due' = [h \in BMCHost |-> IF due[h] > 0 THEN due[h] - 1 ELSE 0]
  /\ UNCHANGED <<hostRows, stateOf, made, inFlight, flights, backoff, loop, batch, syncing, settled>>

Expire(h) ==
  /\ h \in backoff /\ backoff' = backoff \ {h}
  /\ UNCHANGED <<hostRows, registry, flights, looping, syncing, settled>>

\* newRuntime: SyncTargets once, alone, then Run.
SchedInit ==
  /\ ipmi \in SUBSET BMCHost /\ credential \in SUBSET BMCHost
  /\ stateOf = [h \in BMCHost |-> IF h \in ipmi THEN 1 ELSE 0]
  /\ made = stateOf
  /\ due = [h \in BMCHost |-> 0]
  /\ inFlight = [h \in BMCHost |-> FALSE]
  /\ flights = {} /\ backoff = {} /\ batch = {}
  /\ loop = "plan" /\ timer = 0
  /\ sync = [s \in Syncer |-> "idle"]
  /\ want = [s \in Syncer |-> {}] /\ visit = [s \in Syncer |-> {}]
  /\ settled = TRUE /\ requests = 0

Advance(st) == Dispatch(st) \/ Refused(st) \/ Polled(st)

SchedNext ==
  \/ \E h \in BMCHost : CreateOrDelete(h) \/ Expire(h)
  \/ \E h \in BMCHost, s \in Syncer : SetCredential(h, s) \/ RemoveCredential(h, s)
  \/ \E s \in Syncer : Sync(s)
  \/ Plan \/ Collect \/ Dispatched \/ Elapse
  \/ \E st \in batch \cup flights : Advance(st)

-----------------------------------------------------------------------------
(* Properties *)

\* After syncs that overlap, a target may be missing or left over, because one
\* has read the hosts before the other's change.  A sync that runs alone, after
\* the last change, repairs whatever earlier ones have left behind.
TargetsFollowHosts == settled /\ (\A s \in Syncer : Idle(s)) => Registered = ipmi

\* A target that stays registered is polled again and again: no refusal,
\* removal of an older state or long sleep silences it for ever.
PolledAgain ==
  \A h \in BMCHost :
    <>[](h \in Registered) =>
      []<><<\E st \in flights : st[1] = h /\ Polled(st)>>_<<schedVars>>
=============================================================================
