---------------------------- MODULE Startup_proofs ---------------------------
(***************************************************************************)
(* Proofs about what a server sets up: Startup, for any number of          *)
(* processes on one data directory and any migrations in their binaries,   *)
(* and Rules, for any templates, any overrides and any edits of the two    *)
(* tables.                                                                 *)
(***************************************************************************)
EXTENDS Startup, Rules, TLAPS

\* The specification of each part.
StartupSpec == StartupInit /\ [][StartupNext]_startupVars
RulesSpec == RulesInit /\ [][RulesNext]_rulesVars

Past == {"building", "built", "bound", "serving", "stopping", "command"}
Place == Past \cup {"off", "migrating", "done", "failed"}

-----------------------------------------------------------------------------
StartupType ==
  /\ where \in [Instance -> Place]
  /\ next \in [Instance -> Nat \ {0}]
  /\ known \in [Instance -> [Version -> STRING \cup {NoScript}]]
  /\ recorded \in [Version -> STRING \cup {NoScript}]
  /\ port \in Instance \cup {NoInstance}
  /\ pidFile \in Instance \cup {NoInstance}
  /\ wrote \in [Instance -> BOOLEAN]
  /\ overlap \in [Instance -> BOOLEAN]

Current(p, i) == recorded[Files[p][i].version] = Files[p][i].checksum

\* A script and its row are written together, and once: what a process has read
\* is still so, what it has handled is applied by its own text, and it leaves the
\* loop only when it has handled everything.
SchemaInv ==
  /\ tables = recorded
  /\ \A p \in Instance : \A v \in Version :
       known[p][v] # NoScript => recorded[v] = known[p][v]
  /\ \A p \in Instance : \A i \in 1..Len(Files[p]) : i < next[p] => Current(p, i)
  /\ \A p \in Instance : where[p] \in Past => next[p] > Len(Files[p])

\* The port belongs to the process that has bound it and not yet given it back.
PortInv == \A p \in Instance : where[p] \in {"bound", "serving"} <=> port = p

\* Without an overlap nobody is left who would remove the PID file.
PidInv ==
  \A p \in Instance : ~overlap[p] =>
    /\ where[p] \in {"bound", "serving"} =>
         \A q \in Instance : where[q] # "stopping"
    /\ where[p] = "serving" => pidFile = p

StartupInv == StartupType /\ SchemaInv /\ PortInv /\ PidInv

-----------------------------------------------------------------------------
\* A migration of a binary has a version, and a text that is not NoScript.
LEMMA FilesFacts ==
  ASSUME NEW p \in Instance
  PROVE  /\ Len(Files[p]) \in Nat
         /\ \A i \in 1..Len(Files[p]) :
              /\ Files[p][i].version \in Version
              /\ Files[p][i].checksum \in STRING
              /\ Files[p][i].checksum # NoScript
<1>1. Files[p] \in Seq([version : Nat, checksum : STRING])
  BY StartupAssumption
<1>2. ASSUME NEW i \in 1..Len(Files[p])
      PROVE  Files[p][i].version \in Version /\ Files[p][i].checksum \in STRING
  <2>1. Files[p][i] \in [version : Nat, checksum : STRING]
    <3> DEFINE Migration == [version : Nat, checksum : STRING]
               files == Files[p]
    <3>1. files \in Seq(Migration) /\ i \in 1..Len(files)
      BY <1>1
    <3> HIDE DEF Migration, files
    <3>2. files[i] \in Migration
      BY <3>1
    <3>3. QED
      BY <3>2 DEF Migration, files
  <2>2. Files[p][i].version \in {Files[p][j].version : j \in 1..Len(Files[p])}
    OBVIOUS
  <2>3. QED
    BY <2>1, <2>2 DEF Version
<1>3. QED
  BY <1>1, <1>2, StartupAssumption

LEMMA StartupInitInv == StartupInit => StartupInv
<1>1. SUFFICES ASSUME StartupInit PROVE StartupInv
  OBVIOUS
<1>2. StartupType
  BY <1>1, StartupAssumption DEF StartupInit, StartupType, Nothing, Place, Past
<1>3. SchemaInv
  BY <1>1, FilesFacts DEF StartupInit, SchemaInv, Nothing, Past
<1>4. PortInv /\ PidInv
  BY <1>1, StartupAssumption DEF StartupInit, PortInv, PidInv
<1>5. QED
  BY <1>2, <1>3, <1>4 DEF StartupInv

-----------------------------------------------------------------------------
(* The steps of a migration leave the port and the files alone. *)

\* Neither the port nor the PID file depends on a step that keeps them and
\* leaves a process outside bound, serving and stopping.
LEMMA FilesKeptInv ==
  ASSUME StartupInv, FilesKept, NEW p \in Instance,
         where[p] \notin {"bound", "serving", "stopping"},
         NEW to \in Place \ {"bound", "serving", "stopping"},
         where' = [where EXCEPT ![p] = to]
  PROVE  PortInv' /\ PidInv'
<1>1. \A q \in Instance, at \in {"bound", "serving", "stopping"} : where'[q] = at <=> where[q] = at
  BY DEF StartupInv, StartupType
<1>2. QED
  BY <1>1 DEF StartupInv, StartupType, PortInv, PidInv, FilesKept

\* The schema does not depend on a step that keeps it and takes nobody past the
\* migrations.
LEMMA SchemaKeptInv ==
  ASSUME StartupInv, SchemaKept, \A p \in Instance : where'[p] \in Past => where[p] \in Past
  PROVE  SchemaInv'
BY DEF StartupInv, SchemaInv, SchemaKept, Current

LEMMA ReadAppliedInv ==
  ASSUME StartupInv, NEW p \in Instance, ReadApplied(p)
  PROVE  StartupInv'
<1>1. StartupType'
  BY DEF StartupInv, StartupType, ReadApplied, Goes, FilesKept, Place
<1>2. SchemaInv'
  BY DEF StartupInv, StartupType, SchemaInv, ReadApplied, Goes, Current, Past
<1>3. PortInv' /\ PidInv'
  BY FilesKeptInv DEF ReadApplied, Goes, Place
<1>4. QED
  BY <1>1, <1>2, <1>3 DEF StartupInv

\* A version that was applied counts as handled only if it has this checksum.
LEMMA CheckOneInv ==
  ASSUME StartupInv, NEW p \in Instance, CheckOne(p)
  PROVE  StartupInv'
<1>1. next[p] \in 1..Len(Files[p])
  BY FilesFacts DEF StartupInv, StartupType, CheckOne
<1>2. StartupType'
  <2>1. where' \in [Instance -> Place] /\ next' \in [Instance -> Nat \ {0}]
    <3>1. CASE Mismatch(p)
      BY <3>1 DEF StartupInv, StartupType, CheckOne, Place
    <3>2. CASE ~Mismatch(p)
      <4>1. where' = where /\ next' = [next EXCEPT ![p] = next[p] + 1]
        BY <3>2 DEF CheckOne
      <4>2. next[p] + 1 \in Nat \ {0}
        BY <1>1
      <4>3. QED
        BY <4>1, <4>2 DEF StartupInv, StartupType
    <3>3. QED
      BY <3>1, <3>2
  <2>2. QED
    BY <2>1 DEF StartupInv, StartupType, CheckOne, FilesKept
<1>3. CASE Mismatch(p)
  <2>1. SchemaInv'
    BY <1>3 DEF StartupInv, StartupType, SchemaInv, CheckOne, Current, Past
  <2>2. PortInv' /\ PidInv'
    BY <1>3, FilesKeptInv DEF CheckOne, Place
  <2>3. QED
    BY <1>2, <2>1, <2>2 DEF StartupInv
<1>4. CASE ~Mismatch(p)
  <2>1. ASSUME NEW i \in 1..Len(Files[p]), i < next[p] + 1
        PROVE  Current(p, i)
    <3>1. CASE i = next[p]
      BY <1>4, <3>1, FilesFacts DEF StartupInv, SchemaInv, CheckOne, Mismatch, Script, Current
    <3>2. CASE i < next[p]
      BY <3>2 DEF StartupInv, SchemaInv
    <3>3. QED
      BY <2>1, <3>1, <3>2, FilesFacts DEF StartupInv, StartupType
  <2>2. next' = [next EXCEPT ![p] = next[p] + 1] /\ UNCHANGED <<where, known, recorded, tables>>
    BY <1>4 DEF CheckOne
  <2>3. where[p] \notin Past
    BY DEF CheckOne, Past
  <2>4. SchemaInv'
    BY <2>1, <2>2, <2>3 DEF StartupInv, StartupType, SchemaInv, Current
  <2>5. PortInv' /\ PidInv'
    BY <2>2 DEF StartupInv, PortInv, PidInv, CheckOne, FilesKept
  <2>6. QED
    BY <1>2, <2>4, <2>5 DEF StartupInv
<1>5. QED
  BY <1>3, <1>4

\* The script succeeds only where nobody's has, so that nothing that another
\* process has read or handled changes.
LEMMA ApplyOneInv ==
  ASSUME StartupInv, NEW p \in Instance, ApplyOne(p)
  PROVE  StartupInv'
<1> DEFINE v == Script(p).version
           sum == Script(p).checksum
<1>1. next[p] \in 1..Len(Files[p])
  BY FilesFacts DEF StartupInv, StartupType, ApplyOne
<1>2. v \in Version /\ sum \in STRING /\ sum # NoScript
  BY <1>1, FilesFacts DEF Script
<1>3. where[p] \notin Past
  BY DEF ApplyOne, Past
<1>4. CASE /\ ~Conflict(p)
           /\ tables' = [tables EXCEPT ![v] = sum]
           /\ recorded' = [recorded EXCEPT ![v] = sum]
           /\ next' = [next EXCEPT ![p] = next[p] + 1]
           /\ UNCHANGED where
  <2>1. UNCHANGED known /\ FilesKept
    BY DEF ApplyOne
  <2>2. StartupType'
    <3>1. recorded' \in [Version -> STRING \cup {NoScript}]
      BY <1>2, <1>4 DEF StartupInv, StartupType
    <3>2. next' \in [Instance -> Nat \ {0}]
      BY <1>4 DEF StartupInv, StartupType
    <3>3. QED
      BY <1>4, <2>1, <3>1, <3>2 DEF StartupInv, StartupType, FilesKept
  <2>3. tables' = recorded'
    BY <1>4 DEF StartupInv, SchemaInv
  <2>4. /\ recorded[v] = NoScript
        /\ recorded'[v] = sum
        /\ \A u \in Version : recorded[u] # NoScript => recorded'[u] = recorded[u]
    BY <1>2, <1>4 DEF StartupInv, StartupType, SchemaInv, Conflict
  <2>5. ASSUME NEW q \in Instance, NEW u \in Version, known'[q][u] # NoScript
        PROVE  recorded'[u] = known'[q][u]
    BY <2>1, <2>4, <2>5 DEF StartupInv, SchemaInv
  <2>6. ASSUME NEW q \in Instance, NEW i \in 1..Len(Files[q]), i < next'[q]
        PROVE  Current(q, i)'
    <3>1. CASE i < next[q]
      <4>1. Current(q, i)
        BY <3>1 DEF StartupInv, SchemaInv
      <4>2. QED
        BY <2>4, <4>1, FilesFacts DEF Current
    <3>2. CASE q = p /\ i = next[p]
      BY <2>4, <3>2 DEF Script, Current
    <3>3. QED
      BY <1>4, <2>6, <3>1, <3>2, FilesFacts DEF StartupInv, StartupType
  <2>7. SchemaInv'
    BY <1>3, <1>4, <2>3, <2>5, <2>6 DEF StartupInv, StartupType, SchemaInv
  <2>8. PortInv' /\ PidInv'
    BY <1>4, <2>1 DEF StartupInv, PortInv, PidInv, FilesKept
  <2>9. QED
    BY <2>2, <2>7, <2>8 DEF StartupInv
<1>5. CASE where' = [where EXCEPT ![p] = "failed"] /\ UNCHANGED <<tables, recorded, next>>
  <2>1. UNCHANGED known /\ FilesKept
    BY DEF ApplyOne
  <2>2. StartupType'
    BY <1>5, <2>1 DEF StartupInv, StartupType, FilesKept, Place
  <2>3. SchemaInv'
    BY <1>5, <2>1, SchemaKeptInv DEF StartupInv, StartupType, SchemaKept, Past
  <2>4. where[p] \notin {"bound", "serving", "stopping"}
    BY <1>3 DEF Past
  <2>5. PortInv' /\ PidInv'
    BY <1>5, <2>1, <2>4, FilesKeptInv DEF Place
  <2>6. QED
    BY <2>2, <2>3, <2>5 DEF StartupInv
<1>6. QED
  BY <1>4, <1>5 DEF ApplyOne

LEMMA MigratedInv ==
  ASSUME StartupInv, NEW p \in Instance, Migrated(p)
  PROVE  StartupInv'
<1>1. PICK to \in {"building", "command"} :
        where[p] = "migrating" /\ where' = [where EXCEPT ![p] = to]
  BY DEF Migrated, Goes
<1>2. StartupType'
  BY <1>1 DEF StartupInv, StartupType, Migrated, SchemaKept, FilesKept, Place, Past
<1>3. SchemaInv'
  BY <1>1 DEF StartupInv, StartupType, SchemaInv, Migrated, SchemaKept, Current
<1>4. PortInv' /\ PidInv'
  BY <1>1, FilesKeptInv DEF Migrated, Place, Past
<1>5. QED
  BY <1>2, <1>3, <1>4 DEF StartupInv

-----------------------------------------------------------------------------
(* The steps of serve, which leave the schema alone. *)

\* What a process does after its migrations does not change who is past them.
LEMMA ServeSchema ==
  ASSUME StartupInv, SchemaKept, NEW p \in Instance,
         NEW from \in Past, where[p] = from, NEW to \in Place,
         where' = [where EXCEPT ![p] = to]
  PROVE  SchemaInv' /\ where' \in [Instance -> Place]
BY SchemaKeptInv DEF StartupInv, StartupType

LEMMA BuildInv ==
  ASSUME StartupInv, NEW p \in Instance, Build(p)
  PROVE  StartupInv'
<1>1. PICK to \in {"built", "failed"} :
        where[p] = "building" /\ where' = [where EXCEPT ![p] = to]
  BY DEF Build, Goes
<1>2. SchemaInv' /\ where' \in [Instance -> Place]
  BY <1>1, ServeSchema DEF Build, Past, Place
<1>3. StartupType'
  BY <1>2 DEF StartupInv, StartupType, Build, SchemaKept, FilesKept
<1>4. PortInv' /\ PidInv'
  BY <1>1, FilesKeptInv DEF Build, Place, Past
<1>5. QED
  BY <1>2, <1>3, <1>4 DEF StartupInv

\* The port is free: nobody is bound or serving. If nobody is stopping either,
\* nobody will while this process has the port.
LEMMA BindInv ==
  ASSUME StartupInv, NEW p \in Instance, Bind(p)
  PROVE  StartupInv'
<1>1. where[p] = "built" /\ UNCHANGED <<pidFile, wrote>> /\ SchemaKept
  BY DEF Bind, Goes, TouchesFile
<1>2. CASE /\ port = NoInstance /\ where' = [where EXCEPT ![p] = "bound"]
           /\ port' = p /\ overlap' = [overlap EXCEPT ![p] = Others(p) # {}]
  <2>1. SchemaInv' /\ where' \in [Instance -> Place]
    BY <1>1, <1>2, ServeSchema DEF Past, Place
  <2>2. StartupType'
    BY <1>1, <1>2, <2>1 DEF StartupInv, StartupType, SchemaKept
  <2>3. \A q \in Instance : where[q] \notin {"bound", "serving"}
    BY <1>2, StartupAssumption DEF StartupInv, PortInv
  <2>4. PortInv'
    BY <1>2, <2>3 DEF StartupInv, StartupType, PortInv
  <2>5. ASSUME ~overlap'[p] PROVE \A q \in Instance : where[q] # "stopping"
    BY <1>1, <1>2, <2>5 DEF StartupInv, StartupType, Others
  <2>6. PidInv'
    BY <1>1, <1>2, <2>3, <2>5 DEF StartupInv, StartupType, PidInv
  <2>7. QED
    BY <2>1, <2>2, <2>4, <2>6 DEF StartupInv
<1>3. CASE where' = [where EXCEPT ![p] = "failed"] /\ UNCHANGED <<port, overlap>>
  <2>1. SchemaInv' /\ where' \in [Instance -> Place]
    BY <1>1, <1>3, ServeSchema DEF Past, Place
  <2>2. StartupType'
    BY <1>1, <1>3, <2>1 DEF StartupInv, StartupType, SchemaKept
  <2>3. PortInv' /\ PidInv'
    BY <1>1, <1>3, FilesKeptInv DEF FilesKept, Place, Past
  <2>4. QED
    BY <2>1, <2>2, <2>3 DEF StartupInv
<1>4. QED
  BY <1>2, <1>3 DEF Bind, Goes

LEMMA WritePIDInv ==
  ASSUME StartupInv, NEW p \in Instance, WritePID(p)
  PROVE  StartupInv'
<1>1. where[p] = "bound" /\ UNCHANGED overlap /\ SchemaKept
  BY DEF WritePID, Goes
<1>2. port = p /\ \A q \in Instance \ {p} : where[q] \notin {"bound", "serving"}
  BY <1>1 DEF StartupInv, PortInv
<1>3. CASE /\ where' = [where EXCEPT ![p] = "serving"]
           /\ pidFile' = p /\ wrote' = [wrote EXCEPT ![p] = TRUE]
           /\ UNCHANGED port
  <2>1. SchemaInv' /\ where' \in [Instance -> Place]
    BY <1>1, <1>3, ServeSchema DEF Past, Place
  <2>2. StartupType'
    BY <1>1, <1>3, <2>1 DEF StartupInv, StartupType, SchemaKept
  <2>3. PortInv' /\ PidInv'
    BY <1>1, <1>2, <1>3 DEF StartupInv, StartupType, PortInv, PidInv
  <2>4. QED
    BY <2>1, <2>2, <2>3 DEF StartupInv
<1>4. CASE /\ where' = [where EXCEPT ![p] = "failed"]
           /\ port' = NoInstance /\ UNCHANGED <<pidFile, wrote>>
  <2>1. SchemaInv' /\ where' \in [Instance -> Place]
    BY <1>1, <1>4, ServeSchema DEF Past, Place
  <2>2. StartupType'
    BY <1>1, <1>4, <2>1 DEF StartupInv, StartupType, SchemaKept
  <2>3. PortInv' /\ PidInv'
    BY <1>1, <1>2, <1>4, StartupAssumption DEF StartupInv, StartupType, PortInv, PidInv
  <2>4. QED
    BY <2>1, <2>2, <2>3 DEF StartupInv
<1>5. QED
  BY <1>3, <1>4 DEF WritePID, Goes

LEMMA ShutdownInv ==
  ASSUME StartupInv, NEW p \in Instance, Shutdown(p)
  PROVE  StartupInv'
<1>1. /\ where[p] = "serving" /\ where' = [where EXCEPT ![p] = "stopping"]
      /\ port' = NoInstance /\ UNCHANGED <<pidFile, wrote, overlap>> /\ SchemaKept
  BY DEF Shutdown, Goes
<1>2. \A q \in Instance \ {p} : where[q] \notin {"bound", "serving"}
  BY <1>1 DEF StartupInv, PortInv
<1>3. SchemaInv' /\ where' \in [Instance -> Place]
  BY <1>1, ServeSchema DEF Past, Place
<1>4. StartupType'
  BY <1>1, <1>3 DEF StartupInv, StartupType, SchemaKept
<1>5. PortInv' /\ PidInv'
  BY <1>1, <1>2, StartupAssumption DEF StartupInv, StartupType, PortInv, PidInv
<1>6. QED
  BY <1>3, <1>4, <1>5 DEF StartupInv

\* A process that removes the file was stopping, so that nobody serves without
\* an overlap.
LEMMA CloseInv ==
  ASSUME StartupInv, NEW p \in Instance, Close(p)
  PROVE  StartupInv'
<1>1. /\ where[p] = "stopping" /\ where' = [where EXCEPT ![p] = "done"]
      /\ pidFile' \in {pidFile, NoInstance}
      /\ wrote' = [wrote EXCEPT ![p] = FALSE]
      /\ UNCHANGED <<port, overlap>> /\ SchemaKept
  BY DEF Close, Goes
<1>2. SchemaInv' /\ where' \in [Instance -> Place]
  BY <1>1, ServeSchema DEF Past, Place
<1>3. StartupType'
  BY <1>1, <1>2 DEF StartupInv, StartupType, SchemaKept
<1>4. PortInv' /\ PidInv'
  BY <1>1 DEF StartupInv, StartupType, PortInv, PidInv
<1>5. QED
  BY <1>2, <1>3, <1>4 DEF StartupInv

LEMMA CommandDoneInv ==
  ASSUME StartupInv, NEW p \in Instance, CommandDone(p)
  PROVE  StartupInv'
<1>1. where[p] = "command" /\ where' = [where EXCEPT ![p] = "done"] /\ SchemaKept /\ FilesKept
  BY DEF CommandDone, Goes
<1>2. SchemaInv' /\ where' \in [Instance -> Place]
  BY <1>1, ServeSchema DEF Past, Place
<1>3. StartupType'
  BY <1>1, <1>2 DEF StartupInv, StartupType, SchemaKept, FilesKept
<1>4. PortInv' /\ PidInv'
  BY <1>1, FilesKeptInv DEF Place, Past
<1>5. QED
  BY <1>2, <1>3, <1>4 DEF StartupInv

LEMMA KillInv ==
  ASSUME StartupInv, NEW p \in Instance, Kill(p)
  PROVE  StartupInv'
<1>1. /\ where' = [where EXCEPT ![p] = "failed"]
      /\ port' = IF port = p THEN NoInstance ELSE port
      /\ UNCHANGED <<pidFile, wrote, overlap>> /\ SchemaKept
  BY DEF Kill
<1>2. StartupType'
  BY <1>1 DEF StartupInv, StartupType, SchemaKept, Place
<1>3. SchemaInv'
  BY <1>1, SchemaKeptInv DEF StartupInv, StartupType, Past
<1>4. PortInv' /\ PidInv'
  BY <1>1, StartupAssumption DEF StartupInv, StartupType, PortInv, PidInv
<1>5. QED
  BY <1>2, <1>3, <1>4 DEF StartupInv

\* Every step of every process keeps the invariant.
LEMMA StartupStepInv == StartupInv /\ [StartupNext]_startupVars => StartupInv'
<1>1. SUFFICES ASSUME StartupInv, [StartupNext]_startupVars PROVE StartupInv'
  OBVIOUS
<1>2. CASE UNCHANGED startupVars
  BY <1>1, <1>2 DEF StartupInv, StartupType, SchemaInv, Current, PortInv, PidInv, startupVars
<1>3. QED
  BY <1>1, <1>2, ReadAppliedInv, CheckOneInv, ApplyOneInv, MigratedInv, BuildInv, BindInv,
     WritePIDInv, ShutdownInv, CloseInv, CommandDoneInv, KillInv DEF StartupNext

-----------------------------------------------------------------------------
\* The inductive invariant of the server's processes: scripts and their rows go
\* together and are never replaced, and port and PID file are where they belong.
THEOREM StartupInvariant == StartupSpec => []StartupInv
BY StartupInitInv, StartupStepInv, PTL DEF StartupSpec

\* Whoever is past its migrations finds all of its binary's applied by its own
\* text, for any processes, versions, interleavings and kills.
THEOREM StartupCompletesSchema == StartupSpec => []SchemaComplete
<1>1. ASSUME StartupInv, NEW p \in Instance, NEW i \in 1..Len(Files[p]), where[p] \in Past
      PROVE  LET m == Files[p][i]
             IN  recorded[m.version] = m.checksum /\ tables[m.version] = m.checksum
  <2>1. i < next[p]
    BY <1>1, FilesFacts DEF StartupInv, StartupType, SchemaInv
  <2>2. QED
    BY <1>1, <2>1 DEF StartupInv, SchemaInv, Current
<1>2. StartupInv => SchemaComplete
  BY <1>1 DEF SchemaComplete, Past
<1>3. QED
  BY <1>2, StartupInvariant, PTL

\* The PID file names the process that serves, unless that one bound the port
\* while another was still stopping.
THEOREM StartupNamesTheServer == StartupSpec => []PidNamesTheServer
<1>1. StartupInv => PidNamesTheServer
  BY DEF StartupInv, PidInv, PidNamesTheServer
<1>2. QED
  BY <1>1, StartupInvariant, PTL

-----------------------------------------------------------------------------
(* The rules *)

TemplateTable == [Template -> Row \cup {NoRow}]
OverrideTable == [Host \X Metric -> Row \cup {NoRow}]

\* The tables hold rows, and the rule set is the one built from the rows that
\* were read: it is replaced as a whole or not at all.
RulesInv ==
  /\ templates \in TemplateTable /\ overrides \in OverrideTable /\ tpls \in TemplateTable
  /\ source[1] \in TemplateTable /\ source[2] \in OverrideTable
  /\ ruleSet = BuildRuleSet(source[1], source[2])

LEMMA EnabledTable ==
  ASSUME NEW S, NEW table \in [S -> Row \cup {NoRow}]
  PROVE  Enabled(table) \in [S -> Row \cup {NoRow}]
BY DEF Enabled, Rows

LEMMA RulesInitInv == RulesInit => RulesInv
<1> SUFFICES ASSUME RulesInit PROVE RulesInv
  OBVIOUS
<1>1. NoTemplates \in TemplateTable /\ NoOverrides \in OverrideTable
  BY DEF NoTemplates, NoOverrides, TemplateTable, OverrideTable
<1>2. Rows(NoTemplates) = {} /\ Rows(NoOverrides) = {}
  BY DEF Rows, NoTemplates, NoOverrides
<1>3. BuildRuleSet(NoTemplates, NoOverrides) = EmptyRuleSet
  BY <1>2 DEF BuildRuleSet, EmptyRuleSet
<1>4. QED
  BY <1>1, <1>3 DEF RulesInit, RulesInv

LEMMA RulesStepInv == RulesInv /\ [RulesNext]_rulesVars => RulesInv'
<1> SUFFICES ASSUME RulesInv, [RulesNext]_rulesVars PROVE RulesInv'
  OBVIOUS
<1>1. CASE StartService
  <2>1. NoTemplates \in TemplateTable /\ NoOverrides \in OverrideTable
    BY DEF NoTemplates, NoOverrides, TemplateTable, OverrideTable
  <2>2. Rows(NoTemplates) = {} /\ Rows(NoOverrides) = {}
    BY DEF Rows, NoTemplates, NoOverrides
  <2>3. BuildRuleSet(NoTemplates, NoOverrides) = EmptyRuleSet
    BY <2>2 DEF BuildRuleSet, EmptyRuleSet
  <2>4. QED
    BY <1>1, <2>1, <2>3 DEF StartService, RulesInv
<1>2. CASE SeedBuiltin
  <2>1. templates' \in TemplateTable
    BY <1>2, RulesAssumption DEF RulesAssumption, SeedBuiltin, RulesInv, TemplateTable
  <2>2. QED
    BY <1>2, <2>1 DEF SeedBuiltin, RulesInv
<1>3. CASE ListTemplates
  <2>1. Enabled(templates) \in TemplateTable
    BY EnabledTable DEF RulesInv, TemplateTable
  <2>2. QED
    BY <1>3, <2>1 DEF ListTemplates, RulesInv
<1>4. CASE ReloadRules
  <2>1. Enabled(overrides) \in OverrideTable
    BY EnabledTable DEF RulesInv, OverrideTable
  <2>2. QED
    BY <1>4, <2>1 DEF ReloadRules, RulesInv
<1>5. CASE Edit
  <2>1. templates' \in TemplateTable /\ overrides' \in OverrideTable
    BY <1>5 DEF Edit, RulesInv, TemplateTable, OverrideTable
  <2>2. QED
    BY <1>5, <2>1 DEF Edit, RulesInv
<1>6. CASE ReloadFails \/ UNCHANGED rulesVars
  BY <1>6 DEF ReloadFails, rulesVars, RulesInv
<1>7. QED
  BY <1>1, <1>2, <1>3, <1>4, <1>5, <1>6 DEF RulesNext

-----------------------------------------------------------------------------
(* What a rule set says, whatever tables it was built from *)

\* The rules of one row: which there are, and what each says.
LEMMA PairFacts ==
  ASSUME NEW of, NEW metric, NEW row \in Row, NEW dur, NEW host
  PROVE  LET P == Pair(of, metric, row, dur, host) IN
         /\ \A r \in P :
              /\ r.of = of /\ r.metric = metric /\ r.dur = dur /\ r.host = host
              /\ r.parent => row.crit
         /\ row.crit => \E s \in P : s.level = "critical"
         /\ row.crit \/ row.warn => \E s \in P : TRUE
<1> DEFINE levels == {k \in {"critical", "major"} : IF k = "critical" THEN row.crit ELSE row.warn}
           RuleAt(l) == [of |-> of, metric |-> metric, level |-> l, dur |-> dur, host |-> host,
                         parent |-> l = "major" /\ row.crit]
           P == {RuleAt(l) : l \in levels}
<1>1. Pair(of, metric, row, dur, host) = P
  BY DEF Pair
<1>2. \A l \in levels :
        /\ RuleAt(l).of = of /\ RuleAt(l).metric = metric /\ RuleAt(l).dur = dur
        /\ RuleAt(l).host = host /\ RuleAt(l).level = l
        /\ RuleAt(l).parent => row.crit
  OBVIOUS
<1>3. /\ row.crit => "critical" \in levels
      /\ row.warn => "major" \in levels
  BY DEF Row
<1> HIDE DEF levels, RuleAt
<1>4. QED
  BY <1>1, <1>2, <1>3

\* A table's own rows.
LEMMA RowsFacts ==
  ASSUME NEW S, NEW table \in [S -> Row \cup {NoRow}], NEW k \in Rows(table)
  PROVE  k \in S /\ table[k] \in Row
BY DEF Rows

\* The rules that templates and overrides come to.
TemplateRules(ts) ==
  UNION {Pair(<<"template", t>>, MetricOf[t], ts[t], ts[t].dur, "") : t \in Rows(ts)}
OverrideRules(ts, ovs) ==
  UNION {Pair(o, o[2], ovs[o], DurationOf(ts, ovs[o], o[2]), NameOf[o[1]]) : o \in Rows(ovs)}

LEMMA TemplateRuleFacts ==
  ASSUME NEW ts \in TemplateTable
  PROVE  /\ \A r \in TemplateRules(ts) :
              /\ r.host = ""
              /\ r.parent => \E s \in TemplateRules(ts) :
                   s.of = r.of /\ s.metric = r.metric /\ s.level = "critical"
         /\ \A t \in Rows(ts) : ts[t].crit \/ ts[t].warn =>
              \E r \in TemplateRules(ts) : r.metric = MetricOf[t]
<1> DEFINE Of(t) == Pair(<<"template", t>>, MetricOf[t], ts[t], ts[t].dur, "")
<1>1. \A t \in Rows(ts) : Of(t) \subseteq TemplateRules(ts)
  BY DEF TemplateRules
<1>2. \A r \in TemplateRules(ts) : \E t \in Rows(ts) : r \in Of(t)
  BY DEF TemplateRules
<1>3. ASSUME NEW t \in Rows(ts)
      PROVE  /\ \A r \in Of(t) :
                  /\ r.of = <<"template", t>> /\ r.metric = MetricOf[t] /\ r.host = ""
                  /\ r.parent => ts[t].crit
             /\ ts[t].crit => \E s \in Of(t) : s.level = "critical"
             /\ ts[t].crit \/ ts[t].warn => \E s \in Of(t) : TRUE
  <2> DEFINE of == <<"template", t>>
             metric == MetricOf[t]
             row == ts[t]
             dur == row.dur
             host == ""
  <2>1. row \in Row /\ Of(t) = Pair(of, metric, row, dur, host)
    BY RowsFacts DEF TemplateTable
  <2> HIDE DEF Of, of, metric, row, dur, host
  <2>2. /\ \A r \in Of(t) :
             /\ r.of = of /\ r.metric = metric /\ r.host = host
             /\ r.parent => row.crit
        /\ row.crit => \E s \in Of(t) : s.level = "critical"
        /\ row.crit \/ row.warn => \E s \in Of(t) : TRUE
    BY <2>1, PairFacts
  <2>3. QED
    BY <2>2 DEF of, metric, row, host
<1> HIDE DEF Of
<1>4. ASSUME NEW r \in TemplateRules(ts)
      PROVE  /\ r.host = ""
             /\ r.parent => \E s \in TemplateRules(ts) :
                  s.of = r.of /\ s.metric = r.metric /\ s.level = "critical"
  <2>1. PICK t \in Rows(ts) : r \in Of(t)
    BY <1>2
  <2>2. r.host = "" /\ (r.parent => \E s \in Of(t) : s.level = "critical")
    BY <1>3, <2>1
  <2>3. \A s \in Of(t) : s \in TemplateRules(ts)
    BY <1>1
  <2>4. \A s \in Of(t) : s.of = r.of
    <3> DEFINE tag == <<"template", t>>
    <3>1. \A s \in Of(t) : s.of = tag
      BY <1>3
    <3> HIDE DEF tag
    <3>2. QED
      BY <2>1, <3>1
  <2>5. \A s \in Of(t) : s.metric = r.metric
    <3>1. \A s \in Of(t) : s.metric = MetricOf[t]
      BY <1>3
    <3>2. QED
      BY <2>1, <3>1
  <2>6. QED
    BY <2>2, <2>3, <2>4, <2>5
<1>5. \A t \in Rows(ts) : ts[t].crit \/ ts[t].warn =>
        \E r \in TemplateRules(ts) : r.metric = MetricOf[t]
  BY <1>1, <1>3
<1>6. QED
  BY <1>4, <1>5

LEMMA OverrideRuleFacts ==
  ASSUME NEW ts \in TemplateTable, NEW ovs \in OverrideTable, NEW r \in OverrideRules(ts, ovs)
  PROVE  /\ r.parent => \E s \in OverrideRules(ts, ovs) :
              s.of = r.of /\ s.host = r.host /\ s.level = "critical"
         /\ r.dur = DurationOf(ts, ovs[r.of], r.metric)
<1> DEFINE Of(o) == Pair(o, o[2], ovs[o], DurationOf(ts, ovs[o], o[2]), NameOf[o[1]])
<1>1. \A o \in Rows(ovs) : Of(o) \subseteq OverrideRules(ts, ovs)
  BY DEF OverrideRules
<1>2. PICK o \in Rows(ovs) : r \in Of(o)
  BY DEF OverrideRules
<1>3. ovs[o] \in Row
  BY RowsFacts DEF OverrideTable
<1>4. /\ \A s \in Of(o) :
           /\ s.of = o /\ s.metric = o[2] /\ s.host = NameOf[o[1]]
           /\ s.dur = DurationOf(ts, ovs[o], o[2])
           /\ s.parent => ovs[o].crit
      /\ ovs[o].crit => \E s \in Of(o) : s.level = "critical"
  BY <1>3, PairFacts
<1> HIDE DEF Of
<1>5. QED
  BY <1>1, <1>2, <1>4

\* An override without a duration has that of the only template of its metric.
LEMMA DurationFacts ==
  ASSUME NEW ts \in TemplateTable, NEW row, row.dur = 0, NEW t \in Rows(ts),
         \A u \in Rows(ts) : MetricOf[u] = MetricOf[t] => u = t
  PROVE  DurationOf(ts, row, MetricOf[t]) = ts[t].dur
<1> DEFINE of == {u \in Rows(ts) : MetricOf[u] = MetricOf[t]}
<1>1. of = {t}
  OBVIOUS
<1>2. t \in Nat
  BY RowsFacts, RulesAssumption DEF TemplateTable, RulesAssumption
<1>3. DurationOf(ts, row, MetricOf[t]) = ts[CHOOSE v \in of : \A u \in of : u <= v].dur
  BY <1>1 DEF DurationOf
<1>4. (CHOOSE v \in {t} : \A u \in {t} : u <= v) = t
  BY <1>2
<1>5. QED
  BY <1>1, <1>3, <1>4

\* What judges a host agrees with the rows it was built from.
LEMMA BuiltAsConfigured ==
  ASSUME NEW ts \in TemplateTable, NEW ovs \in OverrideTable, NEW h
  PROVE  LET rs == BuildRuleSet(ts, ovs)
             rules == RulesFor(rs, h)
         IN  /\ \A r, s \in rules : r.metric = s.metric => (r.host = "") = (s.host = "")
             /\ \A t \in Rows(ts) : ts[t].crit \/ ts[t].warn => \E r \in rules : r.metric = MetricOf[t]
             /\ \A r \in rules : r.parent => \E s \in rules : s.of = r.of /\ s.level = "critical"
             /\ \A r \in rules, t \in Rows(ts) :
                  /\ r.host # "" /\ r.metric = MetricOf[t] /\ ovs[r.of].dur = 0
                  /\ \A u \in Rows(ts) : MetricOf[u] = MetricOf[t] => u = t
                  => r.dur >= ts[t].dur
<1> DEFINE T == TemplateRules(ts)
           O == OverrideRules(ts, ovs)
           Yields(metric) == \E r \in O : r.host = h /\ r.metric = metric
           rules == {r \in T : ~Yields(r.metric)} \cup {r \in O : r.host = h}
<1>1. RulesFor(BuildRuleSet(ts, ovs), h) = rules
  BY DEF RulesFor, BuildRuleSet, Covered, TemplateRules, OverrideRules
<1>2. /\ \A r \in T : r.host = ""
      /\ \A r \in T : r.parent =>
           \E s \in T : s.of = r.of /\ s.metric = r.metric /\ s.level = "critical"
      /\ \A t \in Rows(ts) : ts[t].crit \/ ts[t].warn => \E r \in T : r.metric = MetricOf[t]
  BY TemplateRuleFacts
<1>3. /\ \A r \in O : r.parent => \E s \in O : s.of = r.of /\ s.host = r.host /\ s.level = "critical"
      /\ \A r \in O : r.dur = DurationOf(ts, ovs[r.of], r.metric)
  BY OverrideRuleFacts
<1> HIDE DEF T, O
<1>4. \A r, s \in rules : r.metric = s.metric => (r.host = "") = (s.host = "")
  BY <1>2
<1>5. \A t \in Rows(ts) : ts[t].crit \/ ts[t].warn => \E r \in rules : r.metric = MetricOf[t]
  <2>1. SUFFICES ASSUME NEW t \in Rows(ts), ts[t].crit \/ ts[t].warn
                 PROVE  \E r \in rules : r.metric = MetricOf[t]
    OBVIOUS
  <2>2. PICK r \in T : r.metric = MetricOf[t]
    BY <1>2, <2>1
  <2>3. CASE Yields(MetricOf[t])
    BY <2>3
  <2>4. CASE ~Yields(MetricOf[t])
    BY <2>2, <2>4
  <2>5. QED
    BY <2>3, <2>4
<1>6. \A r \in rules : r.parent => \E s \in rules : s.of = r.of /\ s.level = "critical"
  <2>1. SUFFICES ASSUME NEW r \in rules, r.parent
                 PROVE  \E s \in rules : s.of = r.of /\ s.level = "critical"
    OBVIOUS
  <2>2. CASE r \in T /\ ~Yields(r.metric)
    <3>1. PICK s \in T : s.of = r.of /\ s.metric = r.metric /\ s.level = "critical"
      BY <1>2, <2>1, <2>2
    <3>2. s \in rules
      BY <2>2, <3>1
    <3>3. QED
      BY <3>1, <3>2
  <2>3. CASE r \in O /\ r.host = h
    BY <1>3, <2>1, <2>3
  <2>4. QED
    BY <2>2, <2>3
<1>7. ASSUME NEW r \in rules, NEW t \in Rows(ts), r.host # "", r.metric = MetricOf[t],
             ovs[r.of].dur = 0, \A u \in Rows(ts) : MetricOf[u] = MetricOf[t] => u = t
      PROVE  r.dur >= ts[t].dur
  <2>1. r \in O
    BY <1>2, <1>7
  <2>2. r.dur = ts[t].dur
    <3>1. r.dur = DurationOf(ts, ovs[r.of], MetricOf[t])
      BY <1>3, <1>7, <2>1
    <3> DEFINE row == ovs[r.of]
    <3>2. row.dur = 0
      BY <1>7
    <3> HIDE DEF row
    <3>3. DurationOf(ts, row, MetricOf[t]) = ts[t].dur
      BY <1>7, <3>2, DurationFacts
    <3>4. QED
      BY <3>1, <3>3 DEF row
  <2>3. ts[t].dur \in Nat
    BY RowsFacts, RulesAssumption DEF TemplateTable, Row, RulesAssumption
  <2>4. QED
    BY <2>2, <2>3
<1> HIDE DEF rules
<1>8. QED
  BY <1>1, <1>4, <1>5, <1>6, <1>7

\* The rule set in force is the one built from the rows that were read, whatever
\* was edited meanwhile and whichever query failed.
THEOREM RulesInvariant == RulesSpec => []RulesInv
<1>1. QED
  BY RulesInitInv, RulesStepInv, PTL DEF RulesSpec

\* For all tables, hosts and edits, the rules that judge a host owe to the
\* templates and overrides what RulesAsConfigured says.
THEOREM RulesFollowTables == RulesSpec => []RulesAsConfigured
<1>1. RulesInv => RulesAsConfigured
  <2> SUFFICES ASSUME RulesInv PROVE RulesAsConfigured
    OBVIOUS
  <2> DEFINE ts == source[1]
             ovs == source[2]
  <2>1. ts \in TemplateTable /\ ovs \in OverrideTable /\ ruleSet = BuildRuleSet(ts, ovs)
    BY DEF RulesInv
  <2>2. ASSUME NEW h \in Hostname
        PROVE  LET rules == RulesFor(ruleSet, h)
               IN  /\ \A r, s \in rules : r.metric = s.metric => (r.host = "") = (s.host = "")
                   /\ \A t \in Rows(ts) : ts[t].crit \/ ts[t].warn =>
                        \E r \in rules : r.metric = MetricOf[t]
                   /\ \A r \in rules : r.parent => \E s \in rules : s.of = r.of /\ s.level = "critical"
                   /\ \A r \in rules, t \in Rows(ts) :
                        /\ r.host # "" /\ r.metric = MetricOf[t] /\ ovs[r.of].dur = 0
                        /\ \A u \in Rows(ts) : MetricOf[u] = MetricOf[t] => u = t
                        => r.dur >= ts[t].dur
    <3> DEFINE rs == BuildRuleSet(ts, ovs)
               rules == RulesFor(rs, h)
    <3> HIDE DEF ts, ovs
    <3>1. /\ \A r, s \in rules : r.metric = s.metric => (r.host = "") = (s.host = "")
          /\ \A t \in Rows(ts) : ts[t].crit \/ ts[t].warn =>
               \E r \in rules : r.metric = MetricOf[t]
          /\ \A r \in rules : r.parent => \E s \in rules : s.of = r.of /\ s.level = "critical"
          /\ \A r \in rules, t \in Rows(ts) :
               /\ r.host # "" /\ r.metric = MetricOf[t] /\ ovs[r.of].dur = 0
               /\ \A u \in Rows(ts) : MetricOf[u] = MetricOf[t] => u = t
               => r.dur >= ts[t].dur
      BY <2>1, BuiltAsConfigured
    <3>2. rules = RulesFor(ruleSet, h)
      BY <2>1
    <3> HIDE DEF rules
    <3>3. QED
      BY <3>1, <3>2
  <2>3. QED
    BY <2>2 DEF RulesAsConfigured
<1>2. QED
  BY <1>1, RulesInvariant, PTL
=============================================================================
