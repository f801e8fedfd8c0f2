------------------------------- MODULE Startup -------------------------------
(***************************************************************************)
(* The life of the server's processes on one data directory: the bootstrap *)
(* that every subcommand runs with its migrations (bootstrap.go,           *)
(* adapter/migrate.go), and the serve command from the assembly of its     *)
(* objects to the release of the port and the PID file (runtime.go).       *)
(* Nothing keeps two processes apart but the database and the port.        *)
(***************************************************************************)
EXTENDS Integers, Sequences

CONSTANTS
  Instance,    \* the processes, each started once
  Server,     \* those that run serve; the others migrate or issue a code
  Files,      \* the migrations in each one's binary, sorted by version
  NoInstance,  \* the port is free, the PID file does not exist
  NoScript    \* the migration has not been applied

ASSUME StartupAssumption ==
  /\ Server \subseteq Instance /\ NoInstance \notin Instance
  /\ Files \in [Instance -> Seq([version : Nat, checksum : STRING])]
  /\ \A p \in Instance : \A i \in 1..Len(Files[p]) : Files[p][i].checksum # NoScript

Version == UNION {{Files[p][i].version : i \in 1..Len(Files[p])} : p \in Instance}

VARIABLES
  where,     \* where each process is
  known,     \* the rows of schema_version that it has read
  next,      \* the migration it handles next
  recorded,  \* the table schema_version: the checksum of each version
  tables,    \* whose script has made the tables of each version
  port,      \* the process that listens
  pidFile,   \* the process that the PID file names
  wrote,     \* r.pidFile: the process will remove the file
  overlap    \* history: it bound the port while another was not yet closed

startupVars == <<where, known, next, recorded, tables, port, pidFile, wrote, overlap>>

Nothing == [v \in Version |-> NoScript]

StartupInit ==
  /\ where = [p \in Instance |-> "off"] /\ known = [p \in Instance |-> Nothing]
  /\ next = [p \in Instance |-> 1] /\ recorded = Nothing /\ tables = Nothing
  /\ port = NoInstance /\ pidFile = NoInstance
  /\ wrote = [p \in Instance |-> FALSE] /\ overlap = [p \in Instance |-> FALSE]

Goes(p, from, to) == where[p] = from /\ where' = [where EXCEPT ![p] = to]
SchemaKept == UNCHANGED <<known, next, recorded, tables>>
FilesKept == UNCHANGED <<port, pidFile, wrote, overlap>>

\* Open the database and read what has been applied, before the first script.
ReadApplied(p) ==
  /\ Goes(p, "off", "migrating")
  /\ known' = [known EXCEPT ![p] = recorded]
  /\ UNCHANGED <<next, recorded, tables>> /\ FilesKept

Script(p) == Files[p][next[p]]

\* A version that was applied must have been applied with this checksum.
Mismatch(p) == known[p][Script(p).version] # Script(p).checksum

CheckOne(p) ==
  /\ where[p] = "migrating" /\ next[p] <= Len(Files[p])
  /\ known[p][Script(p).version] # NoScript
  /\ IF Mismatch(p) THEN where' = [where EXCEPT ![p] = "failed"] /\ UNCHANGED next
     ELSE next' = [next EXCEPT ![p] = @ + 1] /\ UNCHANGED where
  /\ UNCHANGED <<known, recorded, tables>> /\ FilesKept

Conflict_Tolerated(p) == FALSE
\* The script creates what exists, and the row of the version is there.
Conflict(p) == tables[Script(p).version] # NoScript

\* The script and its row in one transaction, which fails as a whole.
ApplyOne(p) ==
  /\ where[p] = "migrating" /\ next[p] <= Len(Files[p])
  /\ known[p][Script(p).version] = NoScript
  /\ \/ /\ ~Conflict(p)
        /\ tables' = [tables EXCEPT ![Script(p).version] = Script(p).checksum]
        /\ recorded' = [recorded EXCEPT ![Script(p).version] = Script(p).checksum]
        /\ next' = [next EXCEPT ![p] = @ + 1] /\ UNCHANGED where
     \/ where' = [where EXCEPT ![p] = "failed"] /\ UNCHANGED <<tables, recorded, next>>
  /\ UNCHANGED known /\ FilesKept

Migrated(p) ==
  /\ next[p] > Len(Files[p])
  /\ Goes(p, "migrating", IF p \in Server THEN "building" ELSE "command")
  /\ SchemaKept /\ FilesKept

\* newRuntime; what it has built when it fails is closed again.
Build(p) ==
  /\ Goes(p, "building", "built") \/ Goes(p, "building", "failed")
  /\ SchemaKept /\ FilesKept

Others(p) == {q \in Instance \ {p} : where[q] \in {"bound", "serving", "stopping"}}

TouchesFile_PidFirst(p) == pidFile' = p
\* listen: the port first,
TouchesFile(p) == UNCHANGED pidFile
Bind(p) ==
  /\ \/ /\ port = NoInstance /\ Goes(p, "built", "bound")
        /\ port' = p /\ overlap' = [overlap EXCEPT ![p] = Others(p) # {}]
     \/ /\ port # NoInstance /\ Goes(p, "built", "failed")
        /\ UNCHANGED <<port, overlap>>
  /\ TouchesFile(p) /\ UNCHANGED wrote /\ SchemaKept

\* then the PID file; a port whose file cannot be written is given back.
WritePID(p) ==
  /\ \/ /\ Goes(p, "bound", "serving")
        /\ pidFile' = p /\ wrote' = [wrote EXCEPT ![p] = TRUE]
        /\ UNCHANGED port
     \/ /\ Goes(p, "bound", "failed")
        /\ port' = NoInstance /\ UNCHANGED <<pidFile, wrote>>
  /\ UNCHANGED overlap /\ SchemaKept

\* A signal, or an error of the listener: it is closed, and what is in flight
\* has up to twenty seconds.
Shutdown(p) ==
  /\ Goes(p, "serving", "stopping")
  /\ port' = NoInstance
  /\ UNCHANGED <<pidFile, wrote, overlap>> /\ SchemaKept

\* runtime.close removes the file by its name.
Close(p) ==
  /\ Goes(p, "stopping", "done")
  /\ pidFile' = IF wrote[p] THEN NoInstance ELSE pidFile
  /\ wrote' = [wrote EXCEPT ![p] = FALSE]
  /\ UNCHANGED <<port, overlap>> /\ SchemaKept

CommandDone(p) == Goes(p, "command", "done") /\ SchemaKept /\ FilesKept

\* KILL, or a crash: the port is free at once, the file stays.
Kill(p) ==
  /\ where[p] \notin {"off", "done", "failed"}
  /\ where' = [where EXCEPT ![p] = "failed"]
  /\ port' = IF port = p THEN NoInstance ELSE port
  /\ UNCHANGED <<pidFile, wrote, overlap>> /\ SchemaKept

StartupNext ==
  \E p \in Instance :
    \/ ReadApplied(p) \/ CheckOne(p) \/ ApplyOne(p) \/ Migrated(p) \/ Build(p)
    \/ Bind(p) \/ WritePID(p) \/ Shutdown(p) \/ Close(p) \/ CommandDone(p) \/ Kill(p)

-----------------------------------------------------------------------------
\* Whoever is past its migrations finds every one of its binary applied, by
\* its own text and recorded, however many processes of whatever versions
\* migrate at the same time from what they read before, and whichever of them
\* is killed on the way.
SchemaComplete ==
  \A p \in Instance : \A i \in 1..Len(Files[p]) :
    where[p] \in {"building", "built", "bound", "serving", "stopping", "command"} =>
      LET m == Files[p][i] IN recorded[m.version] = m.checksum /\ tables[m.version] = m.checksum

\* The PID file names the process that serves, whatever other starts fail at
\* the port and whatever a killed process left behind. (One that has bound the
\* port while another was still stopping loses its file to that one's close.)
PidNamesTheServer ==
  \A p \in Instance : where[p] = "serving" /\ ~overlap[p] => pidFile = p
=============================================================================
