----------------------------- MODULE JsonReport -----------------------------
(***************************************************************************)
(* The JSON channel: Reporter and Client with the file spool               *)
(* (agent/internal/report), and the handler of /api/v1/agent/report        *)
(* (backend/api/agentpb).  A report keeps its batch_id when it is sent     *)
(* again; ts_ingest_dedup remembers the ones that have been handled.       *)
(***************************************************************************)
EXTENDS Naturals, Sequences, FiniteSets

CONSTANTS
  MaxBatches,   \* bound: reports collected
  MaxPosts,     \* bound: requests sent
  MaxReportCrashes, \* bound: crashes of the agent, and of the server
  FlushLimit    \* files that one flush sends, at most

ASSUME JsonReportAssumption ==
  /\ MaxBatches \in Nat /\ MaxPosts \in Nat /\ MaxReportCrashes \in Nat
  /\ FlushLimit \in Nat \ {0}

VARIABLES
  batches,    \* batches collected so far
  agent,      \* the step of the reporter: "idle", "direct", "spool" or "flush"
  current,    \* the batch of this cycle
  files,      \* the spool directory; by their names, files come in the order
              \* of their batches
  todo,       \* files that the running flush has not come to yet
  waiting,    \* the request the client waits for, 0 is none
  request,    \* requests sent: their batch, the step they are at, the answer
  old,        \* batches collected more than 24 h ago
  ledger,     \* ts_ingest_dedup
  ingested,   \* how often a batch has been given to the pipeline
  revoked,    \* the token is revoked, or the host deleted
  gaveUp,     \* history: batches the agent lost knowingly, and why
  reportCrashes \* up to MaxReportCrashes

Batch == 1..MaxBatches
agentSide == <<agent, current, files, todo, waiting>>
serverSide == <<ledger, ingested, revoked>>
reportVars == <<batches, agentSide, request, old, serverSide, gaveUp, reportCrashes>>

-----------------------------------------------------------------------------
(* Agent *)

\* do: one POST, which the client waits for.
SendReport(b) ==
  /\ waiting = 0 /\ Len(request) < MaxPosts
  /\ request' = Append(request, [batch |-> b, at |-> "sent", answer |-> "none"])
  /\ waiting' = Len(request) + 1

\* cycle: a partial collection is reported too.
Cycle ==
  /\ agent = "idle" /\ batches < MaxBatches
  /\ batches' = batches + 1 /\ current' = batches + 1
  /\ agent' = "direct" /\ SendReport(batches + 1)
  /\ UNCHANGED <<files, todo, old, serverSide, gaveUp, reportCrashes>>

Lose(b, why) == gaveUp' = gaveUp \cup {<<b, why>>}

\* What the client learns: an answer that has come, or a network error while
\* the request may be handled yet.
Learns(p, answer) ==
  /\ waiting = p /\ waiting' = 0
  /\ \/ answer = request[p].answer
     \/ answer = "error"

Retryable == {"500", "error"}

\* The oldest files, up to the limit.
SpoolFiles == {f \in files : Cardinality({g \in files : g < f}) < FlushLimit}

\* Report: sent, to be cached, or refused for good.
DirectDone(p) ==
  /\ agent = "direct"
  /\ \/ /\ Learns(p, "202")
        /\ \/ agent' = "flush" /\ todo' = SpoolFiles
           \/ agent' = "idle" /\ UNCHANGED todo
        /\ UNCHANGED gaveUp
     \/ /\ \E answer \in Retryable : Learns(p, answer)
        /\ agent' = "spool" /\ UNCHANGED <<todo, gaveUp>>
     \/ /\ Learns(p, "4xx")
        /\ agent' = "idle" /\ Lose(current, "refused") /\ UNCHANGED todo
  /\ UNCHANGED <<batches, current, files, request, old, serverSide, reportCrashes>>

\* spool: the directory, the file.
Cache ==
  /\ agent = "spool" /\ agent' = "idle"
  /\ \/ files' = files \cup {current} /\ UNCHANGED gaveUp
     \/ Lose(current, "disk") /\ UNCHANGED files
  /\ UNCHANGED <<batches, current, todo, waiting, request, old, serverSide, reportCrashes>>

\* A file that has been sent or is too old is removed; that may fail, unnoticed.
RemoveFile(f) == files' \in {files, files \ {f}}

\* The next file of flushSpool: skipped if it cannot be read, removed if it is
\* too old, or sent.
NextFile ==
  /\ agent = "flush" /\ waiting = 0
  /\ \/ todo = {} /\ agent' = "idle" /\ UNCHANGED <<files, todo, waiting, request, gaveUp>>
     \/ \E f \in todo :
          /\ \A g \in todo : f <= g
          /\ \/ todo' = todo \ {f} /\ UNCHANGED <<agent, files, waiting, request, gaveUp>>
             \/ /\ f \in old
                /\ todo' = todo \ {f} /\ RemoveFile(f) /\ Lose(f, "old")
                /\ UNCHANGED <<agent, waiting, request>>
             \/ f \notin old /\ SendReport(f) /\ UNCHANGED <<agent, files, todo, gaveUp>>
  /\ UNCHANGED <<batches, current, old, serverSide, reportCrashes>>

FlushDone_AnyAnswer(p) ==
  /\ agent = "flush"
  /\ \E answer \in {"202", "4xx"} \cup Retryable : Learns(p, answer)
  /\ RemoveFile(request[p].batch) /\ todo' = todo \ {request[p].batch}
  /\ UNCHANGED <<batches, agent, current, request, old, serverSide, gaveUp, reportCrashes>>

\* Anything but success ends the flush, and the file stays: one that the server
\* refuses holds up those behind it until it is 24 hours old.
FlushDone(p) ==
  /\ agent = "flush"
  /\ \/ /\ Learns(p, "202")
        /\ RemoveFile(request[p].batch) /\ todo' = todo \ {request[p].batch} /\ UNCHANGED agent
     \/ /\ \E answer \in {"4xx"} \cup Retryable : Learns(p, answer)
        /\ agent' = "idle" /\ UNCHANGED <<files, todo>>
  /\ UNCHANGED <<batches, current, request, old, serverSide, gaveUp, reportCrashes>>

\* What is only in memory is lost, a file that is half written too.
CrashAgent ==
  /\ reportCrashes < MaxReportCrashes /\ reportCrashes' = reportCrashes + 1
  /\ agent' = "idle" /\ waiting' = 0
  /\ IF agent \in {"direct", "spool"} THEN Lose(current, "crash") ELSE UNCHANGED gaveUp
  /\ UNCHANGED <<batches, current, files, todo, request, old, serverSide>>

-----------------------------------------------------------------------------
(* Server: the steps of Report *)

Moves(p, from, to) == request[p].at = from /\ request' = [request EXCEPT ![p].at = to]
Answers(p, from, answer) ==
  /\ request[p].at = from
  /\ request' = [request EXCEPT ![p].at = "answered", ![p].answer = answer]

\* RequireToken, the token's host, Validate with the 24 hours, the host's row.
Admit(p) ==
  /\ \/ ~revoked /\ request[p].batch \notin old /\ Moves(p, "sent", "dedup")
     \/ (revoked \/ request[p].batch \in old) /\ Answers(p, "sent", "4xx")
     \/ Answers(p, "sent", "500")
  /\ UNCHANGED <<batches, agentSide, old, serverSide, gaveUp, reportCrashes>>

\* SeenBatch: one INSERT, which tells whether the batch was there.
SeenBatch(p) ==
  /\ \/ request[p].batch \in ledger /\ Answers(p, "dedup", "202") /\ UNCHANGED ledger
     \/ /\ request[p].batch \notin ledger /\ Moves(p, "dedup", "status")
        /\ ledger' = ledger \cup {request[p].batch}
     \/ Answers(p, "dedup", "500") /\ UNCHANGED ledger
  /\ UNCHANGED <<batches, agentSide, old, ingested, revoked, gaveUp, reportCrashes>>

\* Evaluate (module Alerting), then UpdateStatus: when that fails the batch
\* stays marked, and sending it again is answered with 202.
StatusUpdate(p) ==
  /\ Moves(p, "status", "ingest") \/ Answers(p, "status", "500")
  /\ UNCHANGED <<batches, agentSide, old, serverSide, gaveUp, reportCrashes>>

IngestReport(p) ==
  /\ Answers(p, "ingest", "202")
  /\ ingested' = [ingested EXCEPT ![request[p].batch] = @ + 1]
  /\ UNCHANGED <<batches, agentSide, old, ledger, revoked, gaveUp, reportCrashes>>

CrashServer ==
  /\ reportCrashes < MaxReportCrashes /\ reportCrashes' = reportCrashes + 1
  /\ request' = [p \in DOMAIN request |-> [request[p] EXCEPT !.at = "answered"]]
  /\ UNCHANGED <<batches, agentSide, old, serverSide, gaveUp>>

\* AgentTokenRepo.Revoke, HostService.Delete.
RevokeToken ==
  /\ ~revoked /\ revoked' = TRUE
  /\ UNCHANGED <<batches, agentSide, request, old, ledger, ingested, gaveUp, reportCrashes>>

GrowOld(b) ==
  /\ b <= batches /\ b \notin old
  /\ \A older \in 1..(b - 1) : older \in old
  /\ old' = old \cup {b}
  /\ UNCHANGED <<batches, agentSide, request, serverSide, gaveUp, reportCrashes>>

ReportInit ==
  /\ batches = 0 /\ agent = "idle" /\ current = 0
  /\ files = {} /\ todo = {} /\ waiting = 0 /\ request = <<>>
  /\ old = {} /\ ledger = {} /\ ingested = [b \in Batch |-> 0]
  /\ revoked = FALSE /\ gaveUp = {} /\ reportCrashes = 0

HandleReport(p) == Admit(p) \/ SeenBatch(p) \/ StatusUpdate(p) \/ IngestReport(p)

ReportNext ==
  \/ Cycle \/ Cache \/ NextFile \/ CrashAgent
  \/ \E p \in DOMAIN request : DirectDone(p) \/ FlushDone(p) \/ HandleReport(p)
  \/ CrashServer \/ RevokeToken
  \/ \E b \in Batch : GrowOld(b)

-----------------------------------------------------------------------------
(* Properties *)

\* A batch is given to the pipeline at most once, whatever is sent again or
\* arrives late.  The agent lets go of one only when the server has it in its
\* ledger or has refused it, and a batch in the ledger is missing in the pipeline
\* only after a step of its own request has failed.
KeptOrMarked ==
  \A b \in 1..batches :
    /\ ingested[b] <= 1
    /\ ingested[b] = 1 => b \in ledger
    /\ \/ b \in files \cup ledger
       \/ b = current /\ agent \in {"direct", "spool"}
       \/ \E why \in {"refused", "disk", "old", "crash"} : <<b, why>> \in gaveUp
    /\ b \in ledger /\ ingested[b] = 0 =>
         \E p \in DOMAIN request :
           /\ request[p].batch = b
           /\ request[p].at \in {"status", "ingest"} \/ request[p].answer \in {"500", "none"}
=============================================================================
