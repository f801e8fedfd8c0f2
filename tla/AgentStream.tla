---------------------------- MODULE AgentStream ----------------------------
(***************************************************************************)
(* How an agent's reports reach the server's pipeline over gRPC streams:   *)
(* agent/internal/grpcstream/session.go (the session goroutine and the     *)
(* collection goroutine, which share a mutex and the published stream),    *)
(* agent/internal/spool/spool.go (the queue on disk), the streams, and the *)
(* receiving goroutines of backend/api/agent/stream_server.go with the     *)
(* batch table of the time-series store.                                   *)
(*                                                                         *)
(* A report is its number in collection order, which is also the order of  *)
(* the spool's keys (collection time, then a sequence number), so that the *)
(* spool is a set of numbers and the oldest entry its least one.           *)
(***************************************************************************)
EXTENDS Naturals, Sequences, FiniteSets, Functions

CONSTANTS
  MaxReports,   \* bound: further reports are collected but not followed
  MaxStreams,   \* bound: streams the agent opens; the last one stays up
  MaxFailures,  \* bound: crashes of the two processes and failed Trims
                \* together; and, apart from them, failures of the batch table
  MaxEntries,   \* spool.Options.MaxEntries
  ReplayBatch,  \* replayBatchSize
  Window,       \* reports a stream holds before Send blocks (flow control)
  Faults        \* what may go wrong besides streams and processes

\* A failing call of the spool or of the batch table, a report so late that it
\* is outside backfillWindow.
Fault == {"peek", "ack", "enqueue", "dedup", "late"}

ASSUME StreamAssumption ==
  /\ MaxReports \in Nat /\ MaxStreams \in Nat /\ MaxFailures \in Nat
  /\ MaxEntries \in Nat \ {0}
  /\ ReplayBatch \in Nat \ {0}
  /\ Window \in Nat \ {0}
  /\ Faults \subseteq Fault

Report == 1..MaxReports
StreamId == 1..MaxStreams
None == 0          \* no report, no stream

VARIABLES
  (* the agent *)
  pc,        \* the next step of "session" and of "collector"
  mu,        \* the holder of Stream.mu across several steps, or "none"
  st,        \* Stream.st: the published stream, or None for nil
  made,      \* reports collected so far
  hand,      \* the report collectOnce has in hand, or None
  spool,     \* the queue on disk
  todo,      \* drain: the peeked entries still to be sent
  sent,      \* drain: acked in the code, those sent on the stream
  (* the streams, by number *)
  opened,    \* streams opened so far
  broken,    \* streams that have ended for the agent
  wire,      \* what was sent on a stream and not yet received
  (* the server *)
  handling,  \* handling[s]: the report handleMetrics works on, or None
  seen,      \* the batches in ts_ingest_dedup
  ingested,  \* the reports handed to the pipeline, in that order
  (* bookkeeping *)
  failures,  \* crashes and failed Trims so far
  acked,     \* history: reports that left the spool by Ack
  unmarked   \* history: reports whose SeenBatch failed

agentVars == <<pc, mu, st, made, hand, spool, todo, sent, acked>>
netVars == <<opened, broken, wire>>
serverVars == <<handling, seen, ingested, unmarked>>
streamVars == <<agentVars, netVars, serverVars, failures>>

Thread == {"session", "collector"}
Draining == {"drain", "peek", "resend"}
SessionStep == {"dial", "publish", "serve", "clear"} \cup Draining
CollectorStep ==
  {"collect", "trysend", "send", "enqueue", "purge", "trim"} \cup Draining

TypeOK ==
  /\ pc \in [Thread -> SessionStep \cup CollectorStep]
  /\ pc["session"] \in SessionStep /\ pc["collector"] \in CollectorStep
  /\ mu \in Thread \cup {"none"}
  /\ st \in StreamId \cup {None}
  /\ made \in 0..MaxReports
  /\ hand \in Report \cup {None}
  /\ spool \in SUBSET Report
  /\ todo \in SUBSET Report
  /\ sent \in SUBSET Report
  /\ opened \in 0..MaxStreams
  /\ broken \in SUBSET StreamId
  /\ wire \in [StreamId -> Seq(Report)]
  /\ handling \in [StreamId -> Report \cup {None}]
  /\ seen \in SUBSET Report
  /\ ingested \in Seq(Report)
  /\ failures \in 0..MaxFailures
  /\ acked \in SUBSET Report
  /\ unmarked \in SUBSET Report

-----------------------------------------------------------------------------
(* The spool.  A name that ends in _<Fault> is a faulty variant of the      *)
(* definition it precedes, for the mutation tests only.                     *)

\* The n oldest entries (Peek), and what Trim leaves of the queue.
Oldest(queue, n) == {r \in queue : Cardinality({q \in queue : q < r}) < n}
Newest(queue, n) == {r \in queue : Cardinality({q \in queue : q > r}) < n}

Goto(g, from, to) == pc[g] = from /\ pc' = [pc EXCEPT ![g] = to]

Up(s) == s # None /\ s \notin broken

\* Send: it waits while the stream is full.
Put(s, r) ==
  /\ Len(wire[s]) < Window
  /\ wire' = [wire EXCEPT ![s] = Append(@, r)]

\* The streams of dead end, each with what has reached the server by then.
Cut(dead) ==
  /\ broken' = broken \cup dead
  /\ \E kept \in [dead -> 0..Window] :
       /\ \A s \in dead : kept[s] <= Len(wire[s])
       /\ wire' = [s \in StreamId |->
                     IF s \in dead THEN SubSeq(wire[s], 1, kept[s]) ELSE wire[s]]

-----------------------------------------------------------------------------
(* drain, called by both goroutines.  Its caller holds mu from StartDrain   *)
(* on, until LeaveDrain.                                                    *)

\* serveSession gives the stream up if drain fails, collectOnce goes on.
AfterDrain(g, ok) ==
  IF g = "collector" THEN "trysend" ELSE IF ok THEN "serve" ELSE "clear"

LeaveDrain(g, from, ok) ==
  /\ Goto(g, from, AfterDrain(g, ok))
  /\ mu' = "none"
  /\ todo' = {} /\ sent' = {}

StartDrain_SessionOnly(g) ==
  /\ mu = "none"
  /\ IF g = "collector"
     THEN Goto(g, "drain", "trysend") /\ UNCHANGED mu
     ELSE Goto(g, "drain", "peek") /\ mu' = g
  /\ UNCHANGED <<st, made, hand, spool, todo, sent, acked, netVars, serverVars, failures>>

StartDrain_Unlocked(g) ==
  /\ IF st = None
     THEN Goto(g, "drain", AfterDrain(g, TRUE))
     ELSE Goto(g, "drain", "peek")
  /\ UNCHANGED <<mu, st, made, hand, spool, todo, sent, acked, netVars, serverVars, failures>>

\* Without a stream drain returns at once.
StartDrain(g) ==
  /\ mu = "none"
  /\ IF st = None
     THEN Goto(g, "drain", AfterDrain(g, TRUE)) /\ UNCHANGED mu
     ELSE Goto(g, "drain", "peek") /\ mu' = g
  /\ UNCHANGED <<st, made, hand, spool, todo, sent, acked, netVars, serverVars, failures>>

Peek(g) ==
  /\ IF spool = {}
     THEN LeaveDrain(g, "peek", TRUE)
     ELSE /\ Goto(g, "peek", "resend")
          /\ todo' = Oldest(spool, ReplayBatch)
          /\ UNCHANGED <<mu, sent>>
  /\ UNCHANGED <<st, made, hand, spool, acked, netVars, serverVars, failures>>

PeekFails(g) ==
  /\ "peek" \in Faults
  /\ LeaveDrain(g, "peek", FALSE)
  /\ UNCHANGED <<st, made, hand, spool, acked, netVars, serverVars, failures>>

Resend(g) ==
  /\ pc[g] = "resend" /\ Up(st)
  /\ \E r \in Oldest(todo, 1) :
       /\ Put(st, r)
       /\ todo' = todo \ {r}
       /\ sent' = sent \cup {r}
  /\ UNCHANGED <<pc, mu, st, made, hand, spool, acked, opened, broken, serverVars, failures>>

\* Ack deletes the entries that were sent, in one transaction.
Ack == spool' = spool \ sent /\ acked' = acked \cup (spool \cap sent)

\* Send fails: what was sent is acknowledged, if that works.
ResendFails(g) ==
  /\ todo # {} /\ ~Up(st)
  /\ LeaveDrain(g, "resend", FALSE)
  /\ Ack \/ ("ack" \in Faults /\ UNCHANGED <<spool, acked>>)
  /\ UNCHANGED <<st, made, hand, netVars, serverVars, failures>>

\* The batch is sent: acknowledge it and look for more.
AckBatch(g) ==
  /\ todo = {}
  /\ Goto(g, "resend", "peek")
  /\ Ack
  /\ sent' = {}
  /\ UNCHANGED <<mu, st, made, hand, todo, netVars, serverVars, failures>>

AckFails(g) ==
  /\ "ack" \in Faults
  /\ todo = {}
  /\ LeaveDrain(g, "resend", FALSE)
  /\ UNCHANGED <<st, made, hand, spool, acked, netVars, serverVars, failures>>

Drain(g) ==
  \/ StartDrain(g) \/ Peek(g) \/ PeekFails(g)
  \/ Resend(g) \/ ResendFails(g) \/ AckBatch(g) \/ AckFails(g)
-----------------------------------------------------------------------------
(* collectOnce, again and again. *)

\* Collect; past MaxReports with a report that is not followed.
Collect ==
  /\ Goto("collector", "collect", "drain")
  /\ IF made < MaxReports
     THEN made' = made + 1 /\ hand' = made + 1
     ELSE UNCHANGED <<made, hand>>
  /\ UNCHANGED <<mu, st, spool, todo, sent, acked, netVars, serverVars, failures>>

\* trySend takes mu and sends if there is a stream; Send may have to wait.
TrySend ==
  /\ mu = "none" /\ mu' = "collector"
  /\ Goto("collector", "trysend", "send")
  /\ UNCHANGED <<st, made, hand, spool, todo, sent, acked, netVars, serverVars, failures>>

SendLive ==
  /\ Goto("collector", "send", "collect")
  /\ mu' = "none"
  /\ Up(st)
  /\ IF hand = None THEN UNCHANGED wire ELSE Put(st, hand)
  /\ hand' = None
  /\ UNCHANGED <<st, made, spool, todo, sent, acked, opened, broken, serverVars, failures>>

\* There is no stream, or Send fails: the report goes to the spool.
SendFails ==
  /\ Goto("collector", "send", IF hand = None THEN "collect" ELSE "enqueue")
  /\ mu' = "none"
  /\ ~Up(st)
  /\ UNCHANGED <<st, made, hand, spool, todo, sent, acked, netVars, serverVars, failures>>

\* Enqueue does not take mu: a drain of the session may be under way.
Enqueue ==
  /\ \/ /\ Goto("collector", "enqueue", "purge")
        /\ spool' = spool \cup {hand}
     \/ /\ "enqueue" \in Faults
        /\ Goto("collector", "enqueue", "collect")
        /\ UNCHANGED spool
  /\ hand' = None
  /\ UNCHANGED <<mu, st, made, todo, sent, acked, netVars, serverVars, failures>>

\* Purge: what was collected before the cut-off is deleted.  How many reports
\* that is depends on the time between them.
Purge ==
  /\ Goto("collector", "purge", "trim")
  /\ \E cutoff \in 1..made : spool' = {r \in spool : r >= cutoff}
  /\ UNCHANGED <<mu, st, made, hand, todo, sent, acked, netVars, serverVars, failures>>

Trim_Never ==
  /\ Goto("collector", "trim", "collect")
  /\ UNCHANGED <<mu, st, made, hand, spool, todo, sent, acked, netVars, serverVars, failures>>

\* The oldest entries over the limit are deleted; an error is only logged.
Trim ==
  /\ Goto("collector", "trim", "collect")
  /\ \/ spool' = Newest(spool, MaxEntries) /\ UNCHANGED failures
     \/ /\ failures < MaxFailures /\ failures' = failures + 1
        /\ UNCHANGED spool
  /\ UNCHANGED <<mu, st, made, hand, todo, sent, acked, netVars, serverVars>>

-----------------------------------------------------------------------------
(* serveSession, called again and again by Run. *)

\* The server is reached and a stream is open.  (An attempt that fails changes
\* nothing but the time until the next.)
Dial ==
  /\ opened < MaxStreams
  /\ Goto("session", "dial", "publish")
  /\ opened' = opened + 1
  /\ UNCHANGED <<mu, st, made, hand, spool, todo, sent, acked, broken, wire, serverVars, failures>>

Publish ==
  /\ mu = "none"
  /\ Goto("session", "publish", "drain")
  /\ st' = opened
  /\ UNCHANGED <<mu, made, hand, spool, todo, sent, acked, netVars, serverVars, failures>>

\* Recv or a heartbeat reports that the stream has ended.
Notice ==
  /\ Goto("session", "serve", "clear")
  /\ ~Up(st)
  /\ UNCHANGED <<mu, st, made, hand, spool, todo, sent, acked, netVars, serverVars, failures>>

\* The deferred calls: st = nil under mu, then the stream is cancelled.
Clear ==
  /\ mu = "none"
  /\ Goto("session", "clear", "dial")
  /\ st' = None
  /\ IF Up(st) THEN Cut({st}) ELSE UNCHANGED <<broken, wire>>
  /\ UNCHANGED <<mu, made, hand, spool, todo, sent, acked, opened, serverVars, failures>>

-----------------------------------------------------------------------------
(* The streams and the server. *)

\* A stream breaks.  The last one does not: the network is stable in the end.
Break(s) ==
  /\ s <= opened /\ s < MaxStreams /\ Up(s)
  /\ Cut({s})
  /\ UNCHANGED <<agentVars, opened, serverVars, failures>>

Receive_CheckLog(s) ==
  /\ handling[s] = None /\ wire[s] # <<>>
  /\ wire' = [wire EXCEPT ![s] = Tail(@)]
  /\ LET r == Head(wire[s]) IN
     IF r \in Range(ingested)
     THEN UNCHANGED <<seen, handling>>
     ELSE seen' = seen \cup {r} /\ handling' = [handling EXCEPT ![s] = r]
  /\ UNCHANGED <<agentVars, opened, broken, ingested, unmarked, failures>>

\* The receiving goroutine of stream s takes the next report and marks its
\* batch (SeenBatch, one INSERT): a batch that was there already is skipped.
\* If the call fails (at most once for a report), as it does when the stream's
\* context is cancelled, the report is processed all the same.
Receive(s) ==
  /\ handling[s] = None /\ wire[s] # <<>>
  /\ wire' = [wire EXCEPT ![s] = Tail(@)]
  /\ LET r == Head(wire[s]) IN
     \/ r \in seen /\ UNCHANGED <<seen, handling, unmarked>>
     \/ /\ r \notin seen
        /\ seen' = seen \cup {r}
        /\ handling' = [handling EXCEPT ![s] = r]
        /\ UNCHANGED unmarked
     \/ /\ "dedup" \in Faults
        /\ r \notin unmarked /\ Cardinality(unmarked) < MaxFailures
        /\ handling' = [handling EXCEPT ![s] = r]
        /\ unmarked' = unmarked \cup {r}
        /\ seen' \in {seen, seen \cup {r}}
  /\ UNCHANGED <<agentVars, opened, broken, ingested, failures>>

\* A report older than backfillWindow is dropped before that.
Expire(s) ==
  /\ handling[s] = None /\ wire[s] # <<>>
  /\ "late" \in Faults /\ Head(wire[s]) < made
  /\ wire' = [wire EXCEPT ![s] = Tail(@)]
  /\ UNCHANGED <<agentVars, opened, broken, serverVars, failures>>

\* Evaluate, UpdateStatus, Touch, and the samples go to the pipeline.
Ingest(s) ==
  /\ handling[s] # None
  /\ ingested' = Append(ingested, handling[s])
  /\ handling' = [handling EXCEPT ![s] = None]
  /\ UNCHANGED <<agentVars, netVars, seen, unmarked, failures>>

\* Where the two goroutines begin.
Started == [g \in Thread |-> IF g = "session" THEN "dial" ELSE "collect"]

\* The agent's process dies and starts again.  The spool is on disk.
AgentCrash ==
  /\ failures < MaxFailures /\ failures' = failures + 1
  /\ pc' = Started
  /\ mu' = "none" /\ st' = None /\ hand' = None
  /\ todo' = {} /\ sent' = {}
  /\ Cut({s \in 1..opened : Up(s)})
  /\ UNCHANGED <<made, spool, acked, opened, serverVars>>

\* The server's process does.  The batch table is on disk.
ServerCrash ==
  /\ failures < MaxFailures /\ failures' = failures + 1
  /\ broken' = 1..opened
  /\ wire' = [s \in StreamId |-> <<>>]
  /\ handling' = [s \in StreamId |-> None]
  /\ UNCHANGED <<agentVars, opened, seen, ingested, unmarked>>

-----------------------------------------------------------------------------
Init ==
  /\ pc = Started
  /\ mu = "none" /\ st = None /\ made = 0 /\ hand = None
  /\ spool = {} /\ todo = {} /\ sent = {}
  /\ opened = 0 /\ broken = {} /\ wire = [s \in StreamId |-> <<>>]
  /\ handling = [s \in StreamId |-> None] /\ seen = {} /\ ingested = <<>>
  /\ failures = 0 /\ acked = {} /\ unmarked = {}

Collector ==
  \/ Collect \/ Drain("collector") \/ TrySend \/ SendLive \/ SendFails
  \/ Enqueue \/ Purge \/ Trim

Session == Dial \/ Publish \/ Drain("session") \/ Notice \/ Clear

Server(s) == Receive(s) \/ Expire(s) \/ Ingest(s)

Next ==
  \/ Collector \/ Session
  \/ \E s \in StreamId : Server(s) \/ Break(s)
  \/ AgentCrash \/ ServerCrash

Spec == Init /\ [][Next]_streamVars

(***************************************************************************)
(* Every goroutine goes on: the collection ticker fires, dialling succeeds *)
(* while the server can be reached, the receiving goroutines are running.  *)
(* A Go mutex is handed to its waiters in turn, so a goroutine that waits  *)
(* for mu gets it although the other one keeps taking it.                  *)
(***************************************************************************)
Fairness ==
  /\ WF_streamVars(Collector) /\ WF_streamVars(Session)
  /\ \A g \in Thread : SF_streamVars(StartDrain(g))
  /\ SF_streamVars(TrySend) /\ SF_streamVars(Publish) /\ SF_streamVars(Clear)
  /\ \A s \in StreamId : WF_streamVars(Receive(s)) /\ WF_streamVars(Ingest(s))

FairSpec == Spec /\ Fairness

-----------------------------------------------------------------------------
(* Properties *)

Delivered == Range(ingested)

OnTheWay == UNION {Range(wire[s]) \cup {handling[s]} : s \in StreamId}

Pending == ((spool \cup todo \cup {hand} \cup OnTheWay) \ {None}) \ Delivered

\* A report is ingested twice only if the batch table failed, however often it
\* is sent: again after a broken stream, a failed Ack or a crash, and even
\* while the stream it was sent on before is still being received.
IngestedOnce ==
  \A i, j \in DOMAIN ingested :
    i # j /\ ingested[i] = ingested[j] => ingested[i] \in unmarked

\* Two goroutines never send on a stream at the same time, which gRPC does not
\* allow: not a drain with a live report, nor two drains.
SendsSerialised == ~ \A g \in Thread : pc[g] \in {"peek", "resend", "send"}

\* The queue stays within its limit: it is over it by the entry just added, and
\* by one for every Trim that failed or that a crash kept from running.
SpoolBounded == Cardinality(spool) <= MaxEntries + 1 + failures

\* The agent sends the oldest report it still holds.
SendsOldest ==
  \A s \in StreamId :
    Len(wire'[s]) > Len(wire[s]) =>
      \A r \in ((spool' \ sent') \cup {hand'}) \ {None} : wire'[s][Len(wire'[s])] <= r

\* Once the session has drained the backlog, reports are sent in the order of
\* their collection, those included that were queued while it was draining.
OldestFirstWhenServing == [][pc["session"] = "serve" => SendsOldest]_streamVars

\* What the comment on drain says: "old data is always sent first".
OldestFirst == [][SendsOldest]_streamVars

\* What the comments on the queue say: at-least-once.  A report that was
\* acknowledged has arrived or is still on its way.
AtLeastOnce == acked \subseteq Delivered \cup OnTheWay

\* While the last stream stays up, no report stays behind in the queue or on
\* the way: each one is ingested, dropped by a limit of the spool or of the
\* server, or was lost with a stream that broke before.
ReportsSettle == \A r \in Report : r \in Pending ~> r \notin Pending

\* The whole path delivers reports as ReportDelivery describes.
Delivery == INSTANCE ReportDelivery WITH
  collected <- made, pending <- Pending, log <- ingested

\* No interleaving of sends, retries, breaks and crashes brings a lost report
\* back, ingests one that was not collected, or one twice.
ImplementsDelivery == Delivery!DeliverySpec
=============================================================================
