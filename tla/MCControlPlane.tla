--------------------------- MODULE MCControlPlane ---------------------------
(***************************************************************************)
(* The components of the control plane that share no state, in one run:    *)
(* focus picks the one that runs, and the others rest.                     *)
(***************************************************************************)
EXTENDS AlarmEngine, Notifier, Hub, BmcControl, JsonReport, Inventory, Enrol, Access,
  Rollup, Mesh, FanControl, Downlink, Startup, Chunks, Rules

CONSTANTS n1, n2, n3, n4, a1, a2, c1, c2, w1, w2, b1, b2, k1, k2, p1, v1, v2, m1, u1, t1, r1, r2, s1, s2, s3, o1, o2, i1, i2, i3, g1, g2, h1, h2

MCAlerts == {a1, a2}
MCCritical == {a1}
MCChannels == <<c1, c2>>
MCStrict == {c2}
MCWorkers == {w1, w2}
MCClients == {c1, c2}
MCBroadcasts == {b1, b2}
MCCommands == {k1, k2}
MCParts == {p1}
MCSerials == {v1, v2}
MCMachines == {m1}
MCNoUUID == {}
MCUsers == {u1}
MCTokens == {t1}
MCCalls == {r1, r2}
MCStreams == {s1, s2, s3}
MCOrders == {o1, o2}
MCAgents == {n1, n2, n3, n4}
\* Either cost for every pair, in one direction; one pair twice; a self-loop.
MCProbes ==
  [from : {n1}, to : {n2, n3, n4}, rtt : {1, 4}] \cup [from : {n2}, to : {n3, n4}, rtt : {1, 4}]
  \cup [from : {n3}, to : {n4}, rtt : {1, 4}] \cup [from : {n2}, to : {n1, n2}, rtt : {2}]
MCCurve == <<[max |-> 1, speed |-> 2], [max |-> 2, speed |-> 4], [max |-> 3, speed |-> 5], [max |-> 4, speed |-> 9]>>
MCTemps == 1..5
MCSpeeds == {2, 4, 5, 8, 9}
\* A template with both levels, on a metric whose samples are fine (0), above
\* the warning threshold (1) or above the critical one (2).
MCRule == {"crit", "warn"}
MCParent == [r \in MCRule |-> IF r = "warn" THEN "crit" ELSE NoRule]
MCOp == [r \in MCRule |-> ">"]
MCThreshold == [r \in MCRule |-> IF r = "warn" THEN 0 ELSE 1]
MCForDuration == [r \in MCRule |-> IF r = "warn" THEN 2 ELSE 1]
MCWindows == {[start |-> 3, end |-> 4]}
\* An old binary, a new one, and a command of a build whose second migration
\* has another text.
MCInstances == {i1, i2, i3}
MCServers == {i1, i2}
Migration(n, sum) == [version |-> n, checksum |-> sum]
MCFiles == [i \in MCInstances |->
  IF i = i1 THEN <<Migration(1, "a")>>
  ELSE IF i = i2 THEN <<Migration(1, "a"), Migration(2, "b")>>
  ELSE <<Migration(1, "a"), Migration(2, "c")>>]
\* Values that differ from each other at the end, at the beginning, and all over.
MCWords == {<<0, 0, 0>>, <<0, 0, 1>>, <<1, 1, 0>>}
MCTime == 0..4
Sampled(t, v) == [ts |-> t, v |-> v]
\* Every point alone; two of one time, two out of order, two of two windows.
MCBatches ==
  {<<Sampled(t, v)>> : t \in MCTime, v \in MCWords}
  \cup {<<Sampled(1, v), Sampled(1, u)>> : u, v \in MCWords}
  \cup {<<Sampled(2, v), Sampled(0, <<1, 1, 0>>)>> : v \in MCWords}
  \cup {<<Sampled(3, v), Sampled(2, <<0, 0, 1>>)>> : v \in MCWords}
\* Two builtin templates and one more for the metric of the first; two hosts of
\* one name, and a name without overrides.
MCMetrics == {g1, g2}
MCTemplates == 1..3
MCMetricOf == <<g1, g2, g1>>
MCBuiltin == [t \in 1..2 |-> [crit |-> TRUE, warn |-> t = 1, dur |-> IF t = 1 THEN 2 ELSE 0, enabled |-> TRUE]]
MCHosts == {h1, h2}
MCHostnames == {"web", "db"}
MCNameOf == [h \in MCHosts |-> "web"]

VARIABLE focus

allVars == <<engVars, notifierVars, hubVars, bmcVars, reportVars, inventoryVars, enrolVars, accessVars, rollupVars, meshVars, fanVars, downlinkVars, startupVars, chunksVars, rulesVars>>

PlaneInit ==
  /\ focus \in {"alarms", "notifier", "hub", "bmc", "report", "inventory", "enrol", "access", "rollup", "mesh", "fan", "downlink", "startup", "chunks", "rules"}
  /\ Init /\ NotifierInit /\ HubInit /\ BmcInit
  /\ ReportInit /\ InventoryInit /\ EnrolInit /\ AccessInit
  /\ RollupInit /\ MeshInit /\ FanInit /\ DownlinkInit /\ StartupInit /\ ChunksInit /\ RulesInit
  \* One initial state of what rests.
  /\ focus # "access" => \A t \in APIToken : apiToken[t].state = "none"
  /\ focus # "fan" => fanSpeed = 2

Matching == focus = "alarms" /\ Next /\ UNCHANGED <<focus, notifierVars, hubVars, bmcVars, reportVars, inventoryVars, enrolVars, accessVars, rollupVars, meshVars, fanVars, downlinkVars, startupVars, chunksVars, rulesVars>>
Notifying == focus = "notifier" /\ NotifierNext /\ UNCHANGED <<focus, engVars, hubVars, bmcVars, reportVars, inventoryVars, enrolVars, accessVars, rollupVars, meshVars, fanVars, downlinkVars, startupVars, chunksVars, rulesVars>>
Pushing == focus = "hub" /\ HubNext /\ UNCHANGED <<focus, engVars, notifierVars, bmcVars, reportVars, inventoryVars, enrolVars, accessVars, rollupVars, meshVars, fanVars, downlinkVars, startupVars, chunksVars, rulesVars>>
Commanding == focus = "bmc" /\ BmcNext /\ UNCHANGED <<focus, engVars, notifierVars, hubVars, reportVars, inventoryVars, enrolVars, accessVars, rollupVars, meshVars, fanVars, downlinkVars, startupVars, chunksVars, rulesVars>>
Reporting == focus = "report" /\ ReportNext /\ UNCHANGED <<focus, engVars, notifierVars, hubVars, bmcVars, inventoryVars, enrolVars, accessVars, rollupVars, meshVars, fanVars, downlinkVars, startupVars, chunksVars, rulesVars>>
TakingStock == focus = "inventory" /\ InventoryNext /\ UNCHANGED <<focus, engVars, notifierVars, hubVars, bmcVars, reportVars, enrolVars, accessVars, rollupVars, meshVars, fanVars, downlinkVars, startupVars, chunksVars, rulesVars>>
Enrolling == focus = "enrol" /\ EnrolNext /\ UNCHANGED <<focus, engVars, notifierVars, hubVars, bmcVars, reportVars, inventoryVars, accessVars, rollupVars, meshVars, fanVars, downlinkVars, startupVars, chunksVars, rulesVars>>
Serving == focus = "access" /\ AccessNext /\ UNCHANGED <<focus, engVars, notifierVars, hubVars, bmcVars, reportVars, inventoryVars, enrolVars, rollupVars, meshVars, fanVars, downlinkVars, startupVars, chunksVars, rulesVars>>
RollingUp == focus = "rollup" /\ RollupNext /\ UNCHANGED <<focus, engVars, notifierVars, hubVars, bmcVars, reportVars, inventoryVars, enrolVars, accessVars, meshVars, fanVars, downlinkVars, startupVars, chunksVars, rulesVars>>
Routing == focus = "mesh" /\ MeshNext /\ UNCHANGED <<focus, engVars, notifierVars, hubVars, bmcVars, reportVars, inventoryVars, enrolVars, accessVars, rollupVars, fanVars, downlinkVars, startupVars, chunksVars, rulesVars>>
Cooling == focus = "fan" /\ FanNext /\ UNCHANGED <<focus, engVars, notifierVars, hubVars, bmcVars, reportVars, inventoryVars, enrolVars, accessVars, rollupVars, meshVars, downlinkVars, startupVars, chunksVars, rulesVars>>
Sending == focus = "downlink" /\ DownlinkNext /\ UNCHANGED <<focus, engVars, notifierVars, hubVars, bmcVars, reportVars, inventoryVars, enrolVars, accessVars, rollupVars, meshVars, fanVars, startupVars, chunksVars, rulesVars>>
Starting == focus = "startup" /\ StartupNext /\ UNCHANGED <<focus, engVars, notifierVars, hubVars, bmcVars, reportVars, inventoryVars, enrolVars, accessVars, rollupVars, meshVars, fanVars, downlinkVars, chunksVars, rulesVars>>
Storing == focus = "chunks" /\ ChunksNext /\ UNCHANGED <<focus, engVars, notifierVars, hubVars, bmcVars, reportVars, inventoryVars, enrolVars, accessVars, rollupVars, meshVars, fanVars, downlinkVars, startupVars, rulesVars>>
Configuring == focus = "rules" /\ RulesNext /\ UNCHANGED <<focus, engVars, notifierVars, hubVars, bmcVars, reportVars, inventoryVars, enrolVars, accessVars, rollupVars, meshVars, fanVars, downlinkVars, startupVars, chunksVars>>

PlaneNext ==
  \/ Matching \/ Notifying \/ Pushing \/ Commanding \/ Reporting \/ TakingStock
  \/ Enrolling \/ Serving \/ RollingUp \/ Routing \/ Cooling \/ Sending \/ Starting \/ Storing \/ Configuring

PlaneSpec == PlaneInit /\ [][PlaneNext]_<<allVars, focus>>
=============================================================================
