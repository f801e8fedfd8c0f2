------------------------------ MODULE Pipeline ------------------------------
(***************************************************************************)
(* The server's write pipeline (backend/internal/pipeline/pipeline.go): a  *)
(* bounded channel into which request handlers, the poller and the offline *)
(* monitor put samples, and one goroutine that writes them to the          *)
(* time-series store in batches; and how runtime.close stops it and then   *)
(* closes the store (backend/cmd/server/runtime.go).                       *)
(***************************************************************************)
EXTENDS Naturals, Sequences, FiniteSets

CONSTANTS
  Producer,     \* goroutines that call Ingest
  BufferSize,   \* Options.BufferSize
  MaxBatch,     \* Options.MaxBatch
  MaxSamples    \* bound: samples each producer ingests

ASSUME PipelineAssumption ==
  BufferSize \in Nat \ {0} /\ MaxBatch \in Nat \ {0} /\ MaxSamples \in Nat

\* The n-th sample of p.
Sample == Producer \X (1..MaxSamples)

VARIABLES
  todo,       \* todo[p]: samples that p's call of Ingest has still to put
  count,      \* count[p]: samples p has put so far
  buf,        \* the channel ch
  batch,      \* run's local batch
  phase,      \* run is "running", "draining" (ctx is done) or "stopped"
  cancelled,  \* Stop has been called
  storeOpen,  \* the store has not been closed
  submitted,  \* history: the samples given to store.Write, in order; a Write
              \* that fails loses its batch, and nothing else depends on it
  accepted,   \* history: the samples put into the channel, in order
  atStop      \* history: how many those were when Stop was called

pipeVars == <<todo, count, buf, batch, phase, cancelled, storeOpen,
              submitted, accepted, atStop>>

TypeOK ==
  /\ todo \in [Producer -> 0..MaxSamples]
  /\ count \in [Producer -> 0..MaxSamples]
  /\ buf \in Seq(Sample) /\ Len(buf) <= BufferSize
  /\ batch \in Seq(Sample) /\ Len(batch) < MaxBatch
  /\ phase \in {"running", "draining", "stopped"}
  /\ cancelled \in BOOLEAN /\ storeOpen \in BOOLEAN
  /\ submitted \in Seq(Sample) /\ accepted \in Seq(Sample)
  /\ atStop \in Nat

-----------------------------------------------------------------------------
(* Ingest(samples).  A name that ends in _<Fault> is a faulty variant of    *)
(* the definition it precedes, for the mutation tests only.                 *)

Call(p, k) ==
  /\ todo[p] = 0
  /\ count[p] + k <= MaxSamples
  /\ todo' = [todo EXCEPT ![p] = k]
  /\ UNCHANGED <<count, buf, batch, phase, cancelled, storeOpen,
                 submitted, accepted, atStop>>

\* p.ch <- s: waits while the channel is full.
Put(p) ==
  /\ todo[p] > 0
  /\ Len(buf) < BufferSize
  /\ todo' = [todo EXCEPT ![p] = @ - 1]
  /\ count' = [count EXCEPT ![p] = @ + 1]
  /\ buf' = Append(buf, <<p, count[p] + 1>>)
  /\ accepted' = Append(accepted, <<p, count[p] + 1>>)
  /\ UNCHANGED <<batch, phase, cancelled, storeOpen, submitted, atStop>>

-----------------------------------------------------------------------------
(* run *)

Flush_KeepBatch(full) ==
  /\ submitted' = submitted \o full
  /\ batch' = full

\* flush: the batch is gone afterwards, whether Write succeeds or not.
Flush(full) ==
  /\ submitted' = submitted \o full
  /\ batch' = <<>>

Take_ReturnOnError ==
  /\ phase \in {"running", "draining"}
  /\ buf # <<>>
  /\ buf' = Tail(buf)
  /\ LET longer == Append(batch, Head(buf)) IN
     IF Len(longer) >= MaxBatch
     THEN Flush(longer) /\ phase' \in {phase, "stopped"}
     ELSE batch' = longer /\ UNCHANGED <<submitted, phase>>
  /\ UNCHANGED <<todo, count, cancelled, storeOpen, accepted, atStop>>

\* A sample leaves the channel; a full batch is written at once.
Take ==
  /\ phase \in {"running", "draining"}
  /\ buf # <<>>
  /\ buf' = Tail(buf)
  /\ LET longer == Append(batch, Head(buf)) IN
     IF Len(longer) >= MaxBatch
     THEN Flush(longer)
     ELSE batch' = longer /\ UNCHANGED submitted
  /\ UNCHANGED <<todo, count, phase, cancelled, storeOpen, accepted, atStop>>

FlushTick_OnlyFull ==
  /\ phase = "running"
  /\ Len(batch) >= MaxBatch
  /\ Flush(batch)
  /\ UNCHANGED <<todo, count, buf, phase, cancelled, storeOpen, accepted, atStop>>

\* The ticker fires.
FlushTick ==
  /\ phase = "running"
  /\ batch # <<>>
  /\ Flush(batch)
  /\ UNCHANGED <<todo, count, buf, phase, cancelled, storeOpen, accepted, atStop>>

\* select takes the branch of ctx.Done(), at any time after the cancellation.
BeginDrain ==
  /\ cancelled /\ phase = "running"
  /\ phase' = "draining"
  /\ UNCHANGED <<todo, count, buf, batch, cancelled, storeOpen,
                 submitted, accepted, atStop>>

EndDrain_WithoutDraining ==
  /\ phase = "draining" /\ phase' = "stopped"
  /\ Flush(batch)
  /\ UNCHANGED <<todo, count, buf, cancelled, storeOpen, accepted, atStop>>

\* The channel is empty: the last flush, and run returns.
EndDrain ==
  /\ phase = "draining" /\ phase' = "stopped"
  /\ buf = <<>>
  /\ Flush(batch)
  /\ UNCHANGED <<todo, count, buf, cancelled, storeOpen, accepted, atStop>>

-----------------------------------------------------------------------------
(* runtime.close: pipe.Stop, which waits for run, and then ts.Close. *)

Stop ==
  /\ ~cancelled /\ cancelled' = TRUE
  /\ atStop' = Len(accepted)
  /\ UNCHANGED <<todo, count, buf, batch, phase, storeOpen,
                 submitted, accepted>>

CloseStore ==
  /\ phase = "stopped"
  /\ storeOpen /\ storeOpen' = FALSE
  /\ UNCHANGED <<todo, count, buf, batch, phase, cancelled,
                 submitted, accepted, atStop>>

-----------------------------------------------------------------------------
Init ==
  /\ todo = [p \in Producer |-> 0] /\ count = [p \in Producer |-> 0]
  /\ buf = <<>> /\ batch = <<>> /\ phase = "running"
  /\ cancelled = FALSE /\ storeOpen = TRUE
  /\ submitted = <<>> /\ accepted = <<>> /\ atStop = 0

Ingest(p) == (\E k \in 1..MaxSamples : Call(p, k)) \/ Put(p)

Next ==
  \/ \E p \in Producer : Ingest(p)
  \/ Take \/ FlushTick \/ BeginDrain \/ EndDrain
  \/ Stop \/ CloseStore

Spec == Init /\ [][Next]_pipeVars

(***************************************************************************)
(* run keeps running; select picks at random among the branches that are   *)
(* ready, so none of them is passed over for ever.  Senders wait in the    *)
(* channel's queue and are served in turn.  Nobody has to call Ingest or   *)
(* Stop.                                                                   *)
(***************************************************************************)
Fairness ==
  /\ WF_pipeVars(Take) /\ WF_pipeVars(FlushTick)
  /\ WF_pipeVars(BeginDrain) /\ WF_pipeVars(EndDrain)
  /\ \A p \in Producer : SF_pipeVars(Put(p))

FairSpec == Spec /\ Fairness

-----------------------------------------------------------------------------
(* Properties *)

\* No sample is lost, repeated or overtaken between Ingest and Write: what was
\* submitted, what is in the batch and what is in the channel are together, in
\* this order, all that was accepted.
InOrder == accepted = submitted \o batch \o buf

\* Stop loses nothing: when run has returned, every sample that was accepted
\* before Stop was called has been written, although producers went on.
StopFlushes == phase = "stopped" => Len(submitted) >= atStop

\* The store is never written to after it was closed.
NoWriteAfterClose == [][submitted' # submitted => storeOpen]_pipeVars

\* An accepted sample is written in the end, without waiting for a full batch;
\* at the latest when the pipeline is stopped.
AcceptedIsWritten ==
  \A n \in 1..(Cardinality(Producer) * MaxSamples) :
    Len(accepted) >= n /\ ~cancelled ~> Len(submitted) >= n

\* A full channel holds its producers up only for a while: Ingest returns
\* unless the pipeline is being stopped.
IngestReturns == \A p \in Producer : todo[p] > 0 ~> todo[p] = 0 \/ cancelled
=============================================================================
