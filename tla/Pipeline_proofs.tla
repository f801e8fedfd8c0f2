--------------------------- MODULE Pipeline_proofs ---------------------------
(***************************************************************************)
(* Proofs about Pipeline, for any number of producers, any size of the     *)
(* channel and of a batch: nothing is lost, repeated or reordered between  *)
(* Ingest and Write, Stop flushes, and the store is not written to after   *)
(* it was closed; and about what the store does with a time line           *)
(* afterwards: no sample is lost to the aggregate tier (Rollup), for any   *)
(* buckets, windows and retentions; and points are found as they were      *)
(* written (Chunks), for any batches, values and windows.                  *)
(***************************************************************************)
EXTENDS Pipeline, Rollup, Chunks, SequenceTheorems, FiniteSetTheorems, WellFoundedInduction,
        TLAPS

\* A producer has no more to put than its bound leaves.
RoomInv == \A p \in Producer : todo[p] + count[p] <= MaxSamples

\* What Stop counted had been accepted; run leaves its loop only after Stop,
\* and the store is closed only after run has returned.
StopInv ==
  /\ atStop <= Len(accepted)
  /\ phase # "running" => cancelled
  /\ ~storeOpen => phase = "stopped"

IInv == TypeOK /\ RoomInv /\ InOrder /\ StopInv /\ StopFlushes

-----------------------------------------------------------------------------
\* The first element of one sequence may as well be the last of the one before.
Moves(S, r, s, t) ==
  /\ Tail(t) \in Seq(S) /\ Len(Tail(t)) = Len(t) - 1
  /\ Append(s, Head(t)) \in Seq(S)
  /\ Len(Append(s, Head(t))) = Len(s) + 1
  /\ r \o s \o t = r \o Append(s, Head(t)) \o Tail(t)

LEMMA MoveElement ==
  ASSUME NEW S, NEW r \in Seq(S), NEW s \in Seq(S), NEW t \in Seq(S), t # <<>>
  PROVE  Moves(S, r, s, t)
<1>1. Head(t) \in S /\ Tail(t) \in Seq(S) /\ Len(Tail(t)) = Len(t) - 1
  BY HeadTailProperties
<1>2. Append(s, Head(t)) \in Seq(S) /\ Len(Append(s, Head(t))) = Len(s) + 1
  BY <1>1, AppendProperties
<1> DEFINE h == <<Head(t)>>
<1>3. h \in Seq(S) /\ Len(h) = 1 /\ h[1] = Head(t)
  BY <1>1
<1>4. t = h \o Tail(t)
  <2>1. h \o Tail(t) \in Seq(S) /\ Len(h \o Tail(t)) = Len(t)
    BY <1>1, <1>3, ConcatProperties, LenProperties
  <2>2. \A i \in 1..Len(t) : t[i] = (h \o Tail(t))[i]
    <3>1. SUFFICES ASSUME NEW i \in 1..Len(t) PROVE t[i] = (h \o Tail(t))[i]
      OBVIOUS
    <3>2. (h \o Tail(t))[i] = IF i <= 1 THEN h[i] ELSE Tail(t)[i - 1]
      BY <1>1, <1>3, ConcatProperties, LenProperties
    <3>3. t[1] = Head(t)
      OBVIOUS
    <3>4. i # 1 => Tail(t)[i - 1] = t[i]
      BY HeadTailProperties, LenProperties
    <3>5. QED
      BY <1>3, <3>2, <3>3, <3>4, LenProperties
  <2>3. QED
    BY <2>1, <2>2, SeqEqual
<1>5. Append(s, Head(t)) = s \o h
  BY <1>1, AppendIsConcat
<1>6. r \o s \in Seq(S) /\ s \o h \in Seq(S) /\ r \o (s \o h) = (r \o s) \o h
  BY <1>3, ConcatProperties, ConcatAssociative
<1>7. ((r \o s) \o h) \o Tail(t) = (r \o s) \o (h \o Tail(t))
  BY <1>1, <1>3, <1>6, ConcatAssociative
<1>8. QED
  BY <1>1, <1>2, <1>4, <1>5, <1>6, <1>7 DEF Moves

-----------------------------------------------------------------------------
\* New builds an empty pipeline.
LEMMA InitIInv == Init => IInv
<1>1. SUFFICES ASSUME Init PROVE IInv
  OBVIOUS
<1>2. <<>> \in Seq(Sample) /\ Len(<<>>) = 0
  BY EmptySeq
<1>3. TypeOK
  <2>1. todo \in [Producer -> 0..MaxSamples] /\ count \in [Producer -> 0..MaxSamples]
    BY <1>1, PipelineAssumption DEF Init
  <2>2. buf \in Seq(Sample) /\ batch \in Seq(Sample) /\ Len(buf) = 0 /\ Len(batch) = 0
    BY <1>1, <1>2 DEF Init
  <2>3. Len(buf) <= BufferSize /\ Len(batch) < MaxBatch
    BY <2>2, PipelineAssumption
  <2>4. submitted \in Seq(Sample) /\ accepted \in Seq(Sample)
    BY <1>1, <1>2 DEF Init
  <2>5. QED
    BY <1>1, <2>1, <2>2, <2>3, <2>4 DEF Init, TypeOK
<1>4. RoomInv
  BY <1>1, PipelineAssumption DEF Init, RoomInv
<1>5. InOrder
  BY <1>1, <1>2, ConcatEmptySeq DEF Init, InOrder
<1>6. QED
  BY <1>1, <1>2, <1>3, <1>4, <1>5 DEF IInv, Init, StopInv, StopFlushes

\* A sample that Ingest puts into the channel is the last one accepted.
LEMMA StepPut ==
  ASSUME IInv, NEW p \in Producer, Put(p)
  PROVE  IInv'
<1> DEFINE put == <<p, count[p] + 1>>
<1>1. put \in Sample
  BY PipelineAssumption DEF IInv, TypeOK, RoomInv, Put, Sample
<1>2. /\ buf' \in Seq(Sample) /\ Len(buf') = Len(buf) + 1
      /\ accepted' \in Seq(Sample) /\ Len(accepted') = Len(accepted) + 1
  BY <1>1, AppendProperties DEF IInv, TypeOK, Put
<1>3. TypeOK'
  <2>1. todo' \in [Producer -> 0..MaxSamples] /\ count' \in [Producer -> 0..MaxSamples]
    <3>1. MaxSamples \in Nat
      BY PipelineAssumption
    <3>2. /\ todo \in [Producer -> 0..MaxSamples] /\ count \in [Producer -> 0..MaxSamples]
          /\ todo[p] \in 0..MaxSamples /\ count[p] \in 0..MaxSamples
          /\ todo[p] + count[p] <= MaxSamples
      BY DEF IInv, TypeOK, RoomInv
    <3>3. /\ todo[p] > 0
          /\ todo' = [todo EXCEPT ![p] = todo[p] - 1]
          /\ count' = [count EXCEPT ![p] = count[p] + 1]
      BY DEF Put
    <3>4. todo[p] - 1 \in 0..MaxSamples /\ count[p] + 1 \in 0..MaxSamples
      BY <3>1, <3>2, <3>3
    <3>5. QED
      BY <3>2, <3>3, <3>4
  <2>2. Len(buf') <= BufferSize
    BY <1>2, LenProperties, PipelineAssumption DEF IInv, TypeOK, Put
  <2>3. QED
    BY <1>2, <2>1, <2>2 DEF IInv, TypeOK, Put
<1>4. RoomInv'
  BY PipelineAssumption DEF IInv, TypeOK, RoomInv, Put
<1>5. InOrder'
  <2>1. submitted \o batch \in Seq(Sample) /\ buf \in Seq(Sample)
    BY ConcatProperties DEF IInv, TypeOK
  <2>2. Append((submitted \o batch) \o buf, put) = (submitted \o batch) \o Append(buf, put)
    <3> DEFINE written == submitted \o batch
    <3> HIDE DEF put, written
    <3>1. put \in Sample /\ written \in Seq(Sample) /\ buf \in Seq(Sample)
      BY <1>1, <2>1 DEF written
    <3>2. Append(written \o buf, put) = written \o Append(buf, put)
      <4>1. <<put>> \in Seq(Sample) /\ written \o buf \in Seq(Sample)
        BY <3>1, ConcatProperties
      <4>2. Append(written \o buf, put) = (written \o buf) \o <<put>>
        BY <3>1, <4>1, AppendIsConcat
      <4>3. Append(buf, put) = buf \o <<put>>
        BY <3>1, AppendIsConcat
      <4>4. (written \o buf) \o <<put>> = written \o (buf \o <<put>>)
        BY <3>1, <4>1, ConcatAssociative
      <4>5. QED
        BY <4>2, <4>3, <4>4
    <3>3. QED
      BY <3>2 DEF written
  <2>3. QED
    BY <2>2 DEF IInv, InOrder, Put
<1>6. StopInv' /\ StopFlushes'
  BY <1>2, LenProperties DEF IInv, TypeOK, StopInv, StopFlushes, Put
<1>7. QED
  BY <1>3, <1>4, <1>5, <1>6 DEF IInv

\* Writing a batch moves it behind what was written before.
LEMMA FlushKeeps ==
  ASSUME NEW full \in Seq(Sample), NEW rest \in Seq(Sample),
         submitted \in Seq(Sample), Flush(full)
  PROVE  /\ submitted' \in Seq(Sample) /\ batch' = <<>> /\ Len(batch') = 0
         /\ batch' \in Seq(Sample)
         /\ Len(submitted') = Len(submitted) + Len(full)
         /\ submitted' \o batch' \o rest = submitted \o full \o rest
<1>1. submitted' = submitted \o full /\ batch' = <<>>
  BY DEF Flush
<1>2. submitted' \in Seq(Sample) /\ Len(submitted') = Len(submitted) + Len(full)
  BY <1>1, ConcatProperties
<1>3. submitted' \o batch' = submitted'
  BY <1>1, <1>2, ConcatEmptySeq
<1>4. batch' \in Seq(Sample) /\ Len(batch') = 0
  BY <1>1, EmptySeq
<1>5. QED
  BY <1>1, <1>2, <1>3, <1>4

\* A sample moves from the channel to the batch, and with a full batch on.
LEMMA StepTake == IInv /\ Take => IInv'
<1>1. SUFFICES ASSUME IInv, Take PROVE IInv'
  OBVIOUS
<1> DEFINE longer == Append(batch, Head(buf))
<1>2. /\ Tail(buf) \in Seq(Sample) /\ Len(Tail(buf)) = Len(buf) - 1
      /\ longer \in Seq(Sample) /\ Len(longer) = Len(batch) + 1
      /\ accepted = submitted \o longer \o Tail(buf)
  <2>1. /\ submitted \in Seq(Sample) /\ batch \in Seq(Sample) /\ buf \in Seq(Sample)
        /\ buf # <<>> /\ accepted = submitted \o batch \o buf
    BY <1>1 DEF IInv, TypeOK, InOrder, Take
  <2>2. Moves(Sample, submitted, batch, buf)
    BY <2>1, MoveElement, Zenon
  <2>3. QED
    BY <2>1, <2>2, Zenon DEF Moves
<1>3. /\ submitted' \in Seq(Sample) /\ Len(submitted') >= Len(submitted)
      /\ batch' \in Seq(Sample) /\ Len(batch') < MaxBatch
      /\ accepted = submitted' \o batch' \o Tail(buf)
  <2>1. CASE Len(longer) >= MaxBatch
    <3>1. Flush(longer)
      BY <1>1, <2>1 DEF Take
    <3>2. /\ submitted' \in Seq(Sample) /\ batch' \in Seq(Sample) /\ Len(batch') = 0
          /\ Len(submitted') = Len(submitted) + Len(longer)
          /\ submitted' \o batch' \o Tail(buf) = submitted \o longer \o Tail(buf)
      BY <1>1, <1>2, <3>1, FlushKeeps DEF IInv, TypeOK
    <3>3. Len(submitted) \in Nat /\ Len(longer) \in Nat
      BY <1>1, <1>2, LenProperties DEF IInv, TypeOK
    <3>4. Len(submitted') >= Len(submitted) /\ Len(batch') < MaxBatch
      BY <3>2, <3>3, PipelineAssumption
    <3>5. accepted = submitted' \o batch' \o Tail(buf)
      <4> HIDE DEF longer
      <4>1. QED
        BY <1>2, <3>2
    <3>6. QED
      BY <3>2, <3>4, <3>5
  <2>2. CASE ~(Len(longer) >= MaxBatch)
    <3>1. batch' = longer /\ submitted' = submitted
      BY <1>1, <2>2 DEF Take
    <3>2. Len(submitted) \in Nat /\ Len(longer) \in Nat
      BY <1>1, <1>2, LenProperties DEF IInv, TypeOK
    <3>3. QED
      BY <1>1, <1>2, <2>2, <3>1, <3>2, PipelineAssumption DEF IInv, TypeOK
  <2>3. QED
    BY <2>1, <2>2
<1>4. TypeOK'
  BY <1>1, <1>2, <1>3, LenProperties, PipelineAssumption DEF IInv, TypeOK, Take
<1>5. RoomInv' /\ InOrder' /\ StopInv' /\ StopFlushes'
  BY <1>1, <1>3 DEF IInv, RoomInv, InOrder, StopInv, StopFlushes, Take
<1>6. QED
  BY <1>4, <1>5 DEF IInv

\* The ticker writes what is there.
LEMMA StepFlushTick == IInv /\ FlushTick => IInv'
<1>1. SUFFICES ASSUME IInv, FlushTick PROVE IInv'
  OBVIOUS
<1>2. /\ submitted' \in Seq(Sample) /\ Len(submitted') >= Len(submitted)
      /\ batch' \in Seq(Sample) /\ Len(batch') = 0
      /\ accepted = submitted' \o batch' \o buf
  <2>1. /\ submitted' \in Seq(Sample) /\ batch' \in Seq(Sample) /\ Len(batch') = 0
        /\ Len(submitted') = Len(submitted) + Len(batch)
        /\ submitted' \o batch' \o buf = submitted \o batch \o buf
    BY <1>1, FlushKeeps DEF IInv, TypeOK, FlushTick
  <2>2. Len(submitted) \in Nat /\ Len(batch) \in Nat
    BY <1>1, LenProperties DEF IInv, TypeOK
  <2>3. QED
    BY <1>1, <2>1, <2>2 DEF IInv, InOrder
<1>3. TypeOK'
  BY <1>1, <1>2, PipelineAssumption DEF IInv, TypeOK, FlushTick
<1>4. RoomInv' /\ InOrder' /\ StopInv' /\ StopFlushes'
  BY <1>1, <1>2 DEF IInv, RoomInv, InOrder, StopInv, StopFlushes, FlushTick
<1>5. QED
  BY <1>3, <1>4 DEF IInv

\* The last flush: with the channel empty, all that was accepted is written.
LEMMA StepEndDrain == IInv /\ EndDrain => IInv'
<1>1. SUFFICES ASSUME IInv, EndDrain PROVE IInv'
  OBVIOUS
<1>2. /\ submitted' \in Seq(Sample)
      /\ batch' \in Seq(Sample) /\ batch' = <<>> /\ Len(batch') = 0
      /\ accepted = submitted' \o batch' \o buf
  BY <1>1, FlushKeeps DEF IInv, TypeOK, InOrder, EndDrain
<1>3. accepted = submitted'
  <2>1. submitted' \o <<>> = submitted'
    BY <1>2, ConcatEmptySeq
  <2>2. QED
    BY <1>1, <1>2, <2>1 DEF EndDrain
<1>4. TypeOK'
  BY <1>1, <1>2, PipelineAssumption DEF IInv, TypeOK, EndDrain
<1>5. InOrder' /\ RoomInv'
  BY <1>1, <1>2 DEF IInv, RoomInv, InOrder, EndDrain
<1>6. StopFlushes' /\ StopInv'
  BY <1>1, <1>3, LenProperties DEF IInv, TypeOK, StopInv, StopFlushes, EndDrain
<1>7. QED
  BY <1>4, <1>5, <1>6 DEF IInv

\* The steps that move no sample.
LEMMA StepOthers ==
  ASSUME IInv,
         \/ \E p \in Producer, k \in 1..MaxSamples : Call(p, k)
         \/ BeginDrain \/ Stop \/ CloseStore \/ UNCHANGED pipeVars
  PROVE  IInv'
<1>1. CASE \E p \in Producer, k \in 1..MaxSamples : Call(p, k)
  <2>1. PICK p \in Producer, k \in 1..MaxSamples : Call(p, k)
    BY <1>1
  <2>2. TypeOK'
    BY <2>1, PipelineAssumption DEF IInv, TypeOK, Call
  <2>3. RoomInv'
    BY <2>1, PipelineAssumption DEF IInv, TypeOK, RoomInv, Call
  <2>4. InOrder' /\ StopInv' /\ StopFlushes'
    BY <2>1 DEF IInv, InOrder, StopInv, StopFlushes, Call
  <2>5. QED
    BY <2>2, <2>3, <2>4 DEF IInv
<1>2. CASE BeginDrain
  BY <1>2 DEF IInv, TypeOK, RoomInv, InOrder, StopInv, StopFlushes, BeginDrain
<1>3. CASE Stop
  <2>1. Len(accepted) \in Nat
    BY LenProperties DEF IInv, TypeOK
  <2>2. TypeOK' /\ RoomInv' /\ InOrder'
    BY <1>3, <2>1 DEF IInv, TypeOK, RoomInv, InOrder, Stop
  <2>3. StopInv' /\ StopFlushes'
    BY <1>3, <2>1 DEF IInv, TypeOK, StopInv, StopFlushes, Stop
  <2>4. QED
    BY <2>2, <2>3 DEF IInv
<1>4. CASE CloseStore
  BY <1>4 DEF IInv, TypeOK, RoomInv, InOrder, StopInv, StopFlushes, CloseStore
<1>5. CASE UNCHANGED pipeVars
  BY <1>5 DEF IInv, TypeOK, RoomInv, InOrder, StopInv, StopFlushes, pipeVars
<1>6. QED
  BY <1>1, <1>2, <1>3, <1>4, <1>5

\* Every step keeps the inductive invariant.
LEMMA StepIInv == IInv /\ [Next]_pipeVars => IInv'
<1>1. SUFFICES ASSUME IInv, [Next]_pipeVars PROVE IInv'
  OBVIOUS
<1>2. CASE \E p \in Producer : Put(p)
  BY <1>1, <1>2, StepPut
<1>3. QED
  BY <1>1, <1>2, StepTake, StepFlushTick, StepEndDrain, StepOthers DEF Next, Ingest

\* The inductive invariant of the pipeline: what was accepted is in exactly one
\* place, in order, and the phases of stopping follow one another.
THEOREM PipelineInvariant == Spec => []IInv
BY InitIInv, StepIInv, PTL DEF Spec

\* Every variable stays in its range: the channel and the batch keep their
\* limits, whatever the producers do.
THEOREM PipelineTypeCorrect == Spec => []TypeOK
<1>1. IInv => TypeOK
  BY DEF IInv
<1>2. QED
  BY <1>1, PipelineInvariant, PTL

\* Between Ingest and Write no sample is lost, repeated or overtaken.
THEOREM PipelineInOrder == Spec => []InOrder
<1>1. IInv => InOrder
  BY DEF IInv
<1>2. QED
  BY <1>1, PipelineInvariant, PTL

\* What was accepted before Stop has been written when run has returned.
THEOREM PipelineStopFlushes == Spec => []StopFlushes
<1>1. IInv => StopFlushes
  BY DEF IInv
<1>2. QED
  BY <1>1, PipelineInvariant, PTL

\* Only run writes, it has returned when the store is closed, and it does not
\* come back.
THEOREM PipelineNoWriteAfterClose == Spec => NoWriteAfterClose
<1>1. IInv /\ [Next]_pipeVars => (submitted' # submitted => storeOpen)
  <2>1. SUFFICES ASSUME IInv, [Next]_pipeVars, submitted' # submitted PROVE storeOpen
    OBVIOUS
  <2>2. Take \/ FlushTick \/ EndDrain
    BY <2>1 DEF Next, Ingest, Call, Put, BeginDrain, Stop, CloseStore, pipeVars
  <2>3. phase # "stopped"
    BY <2>2 DEF Take, FlushTick, EndDrain
  <2>4. QED
    BY <2>1, <2>3 DEF IInv, TypeOK, StopInv
<1>2. QED
  BY <1>1, PipelineInvariant, PTL DEF Spec, NoWriteAfterClose, pipeVars

-----------------------------------------------------------------------------
(* Rollup *)

RollupSpec == RollupInit /\ [][RollupNext]_rollupVars

\* A row of the aggregate tier averages the sample.
Averaged(t) == \E i \in DOMAIN rows[Grid(t, Bucket)] : t \in rows[Grid(t, Bucket)][i]
Outdated(t) == Grid(t, Bucket) < clock - AggKeep
HorizonAt(c) == Grid(c, Bucket) - Bucket

Rolling == maint.phase \in {"write", "mark"}
Pruning == maint.phase \in {"pruneRaw", "pruneAgg", "pruneSeries"}

\* Every variable stays in its range.
RollupType ==
  /\ clock \in Nat /\ raw \subseteq Ticks /\ owed \subseteq Ticks /\ aggLast \in Nat
  /\ rows \in [BucketStart -> Seq(SUBSET Ticks)]
  /\ maint \in [phase : {"idle", "write", "mark", "pruneRaw", "pruneAgg", "pruneSeries"},
                at : Nat, got : SUBSET Ticks]
  /\ tsFaults \in Nat

\* A round is short, and what it has read stays in the raw tier until it marks
\* its work; neither the series nor a row is ahead of the horizon.
RoundInv ==
  /\ maint.phase # "idle" => maint.at <= clock /\ clock <= maint.at + RoundTicks
  /\ Rolling => maint.got # {} /\ maint.got \subseteq raw
                /\ \A t \in maint.got : t <= HorizonAt(maint.at)
  /\ aggLast % Bucket = 0 /\ (aggLast # 0 => aggLast <= Horizon)
  /\ \A t \in Ticks : Averaged(t) => t <= Horizon

\* Between rounds: a sample is averaged, or the next round will read it. One that
\* has left the raw tier was marked, and nothing is left of its bucket or of an
\* older one that a round could read.
Held(t) == Averaged(t) \/ Outdated(t) \/ (t \in raw /\ t >= aggLast)
Closed(t) ==
  Averaged(t) /\ t \notin raw =>
    /\ Grid(t, Bucket) + Bucket <= clock - LateWindow
    /\ \A u \in raw : u >= Grid(t, Bucket) + Bucket
Marked(t) == Averaged(t) => t \in raw \/ Grid(t, Bucket) <= aggLast \/ Outdated(t)

\* Within a round, up to its mark: what it has not read is past its horizon, and
\* it reads again all of the buckets whose rows it writes.
Read(t) ==
  Rolling => \/ t \in maint.got \/ Averaged(t) \/ Outdated(t)
             \/ t \in raw /\ t >= aggLast /\ t > HorizonAt(maint.at)
MarkedByRound(t) ==
  Rolling /\ Averaged(t) => t \in maint.got \/ Grid(t, Bucket) <= aggLast \/ Outdated(t)
ReadAgain(t) ==
  maint.phase = "write" /\ Averaged(t) =>
    \A u \in maint.got : Grid(u, Bucket) <= Grid(t, Bucket) => t \in maint.got
Written(t) == maint.phase = "mark" /\ t \in maint.got => Averaged(t)

\* After the mark: only what is past the round's horizon is still to be averaged.
Recent(t) ==
  maint.phase = "pruneRaw" =>
    Averaged(t) \/ Outdated(t) \/ (t \in raw /\ t >= aggLast /\ t >= HorizonAt(maint.at))
AllMarked(t) == Pruning /\ Averaged(t) => Grid(t, Bucket) <= aggLast \/ Outdated(t)

SampleInv(t) ==
  /\ Held(t) /\ Closed(t) /\ Marked(t)
  /\ Read(t) /\ MarkedByRound(t) /\ ReadAgain(t) /\ Written(t)
  /\ Recent(t) /\ AllMarked(t)

RollupInv == RollupType /\ RoundInv /\ \A t \in owed : SampleInv(t)

-----------------------------------------------------------------------------
\* Products and inequalities, of which the provers know little.
LEMMA Products ==
  ASSUME NEW a \in Int, NEW b \in Int, NEW w \in Nat \ {0}
  PROVE  /\ w * a < w * b + w => a <= b
         /\ a <= b => w * a <= w * b
         /\ w * a < w * b => a + 1 <= b
OBVIOUS

\* The start of the bucket of a time.
LEMMA GridFacts ==
  ASSUME NEW t \in Int, NEW w \in Nat \ {0}
  PROVE  /\ Grid(t, w) \in Int /\ Grid(t, w) <= t /\ t < Grid(t, w) + w
         /\ t \div w \in Int /\ Grid(t, w) = w * (t \div w)
         /\ Grid(t, w) % w = 0
         /\ t % w = 0 => Grid(t, w) = t
         /\ t \in Nat => Grid(t, w) \in Nat
<1>1. t % w \in Int /\ 0 <= t % w /\ t % w < w
  OBVIOUS
<1>2. t \div w \in Int /\ t = w * (t \div w) + (t % w)
  OBVIOUS
<1>3. w * (t \div w) \in Int
  BY <1>2
<1>4. Grid(t, w) = w * (t \div w)
  BY <1>1, <1>2, <1>3 DEF Grid
<1>5. Grid(t, w) % w = 0
  BY DEF Grid
<1>6. t \in Nat => Grid(t, w) \in Nat
  <2>1. CASE t \in Nat
    <3>1. t \div w \in Nat
      BY <2>1
    <3>2. QED
      BY <1>4, <3>1
  <2>2. QED
    BY <2>1
<1>7. QED
  BY <1>1, <1>2, <1>4, <1>5, <1>6 DEF Grid

\* A later time is in a later bucket, or in the same.
LEMMA GridMonotone ==
  ASSUME NEW t \in Int, NEW u \in Int, NEW w \in Nat \ {0}, t <= u
  PROVE  Grid(t, w) <= Grid(u, w)
<1> DEFINE p == t \div w
           q == u \div w
<1>1. p \in Int /\ q \in Int /\ Grid(t, w) = w * p /\ Grid(u, w) = w * q
  BY GridFacts
<1>2. w * p < w * q + w
  <2>1. w * p <= t /\ u < w * q + w
    BY <1>1, GridFacts
  <2>2. w * p \in Int /\ w * q + w \in Int
    BY <1>1
  <2> HIDE DEF p, q
  <2>3. QED
    BY <2>1, <2>2
<1> HIDE DEF p, q
<1>3. p <= q
  BY <1>1, <1>2, Products
<1>4. QED
  BY <1>1, <1>3, Products

\* A window is a whole number of buckets: what comes before the end of a bucket is
\* in no later window.
LEMMA WholeBuckets ==
  ASSUME NEW t \in Int, NEW u \in Int, NEW b \in Nat \ {0}, NEW w \in Nat \ {0},
         w % b = 0, u < Grid(t, b) + b
  PROVE  Grid(u, w) <= Grid(t, w)
<1> DEFINE k == w \div b
           p == t \div b
           q == t \div w
<1>1. k \in Int /\ w = b * k
  BY GridFacts DEF Grid
<1>2. p \in Int /\ q \in Int /\ Grid(t, b) = b * p /\ Grid(t, w) = w * q
      /\ b * p <= t /\ t < w * q + w
  BY GridFacts
<1> HIDE DEF k, p, q
<1>3. w * q + w = b * (k * q + k) /\ k * q + k \in Int
  BY <1>1, <1>2
<1>4. b * p < b * (k * q + k)
  BY <1>2, <1>3
<1>5. p + 1 <= k * q + k
  BY <1>2, <1>3, <1>4, Products
<1>6. b * (p + 1) <= b * (k * q + k)
  BY <1>2, <1>3, <1>5, Products
<1>7. Grid(t, b) + b = b * (p + 1)
  BY <1>2
<1>8. u < w * q + w
  BY <1>2, <1>3, <1>6, <1>7
<1> DEFINE r == u \div w
<1>9. r \in Int /\ Grid(u, w) = w * r /\ w * r <= u
  BY GridFacts
<1> HIDE DEF r
<1>10. w * r < w * q + w
  BY <1>2, <1>8, <1>9
<1>11. r <= q
  BY <1>2, <1>9, <1>10, Products
<1>12. QED
  BY <1>2, <1>9, <1>11, Products

\* The parameters and the times are numbers.
LEMMA Parameters ==
  /\ FirstTick \in Nat \ {0} /\ MaxTicks \in Nat /\ RoundTicks \in Nat
  /\ Bucket \in Nat \ {0} /\ RawWindow \in Nat \ {0} /\ AggWindow \in Nat \ {0}
  /\ RawKeep \in Nat \ {0} /\ AggKeep \in Nat \ {0} /\ LateWindow \in Nat \ {0}
  /\ RawWindow % Bucket = 0
  /\ LateWindow + Bucket <= RawKeep /\ 2 * Bucket + RoundTicks <= RawKeep
BY RollupAssumption

LEMMA TicksFacts ==
  ASSUME NEW t \in Ticks
  PROVE  /\ t \in Nat /\ t <= MaxTicks /\ Grid(t, Bucket) \in BucketStart
         /\ Grid(t, Bucket) \in Nat /\ Grid(t, Bucket) <= t /\ t < Grid(t, Bucket) + Bucket
<1>1. t \in Nat /\ t <= MaxTicks
  BY Parameters DEF Ticks
<1>2. QED
  BY <1>1, Parameters, GridFacts DEF BucketStart

LEMMA BucketsAreNumbers == BucketStart \subseteq Nat
BY TicksFacts DEF BucketStart

\* The horizon is less than two buckets behind the clock, and moves with it.
LEMMA HorizonFacts ==
  ASSUME NEW c \in Nat, NEW d \in Nat, c <= d
  PROVE  /\ HorizonAt(c) \in Int /\ HorizonAt(d) \in Int
         /\ c < HorizonAt(c) + 2 * Bucket /\ HorizonAt(c) <= c
         /\ HorizonAt(c) <= HorizonAt(d)
<1>1. Grid(c, Bucket) <= Grid(d, Bucket)
  BY Parameters, GridMonotone
<1>2. /\ Grid(c, Bucket) \in Int /\ Grid(c, Bucket) <= c /\ c < Grid(c, Bucket) + Bucket
      /\ Grid(d, Bucket) \in Int
  BY Parameters, GridFacts
<1>3. QED
  BY <1>1, <1>2, Parameters DEF HorizonAt

-----------------------------------------------------------------------------
LEMMA RollupInitInv == RollupInit => RollupInv
<1> SUFFICES ASSUME RollupInit PROVE RollupInv
  OBVIOUS
<1>1. rows = [b \in BucketStart |-> <<>>] /\ owed = {} /\ raw = {} /\ maint = NoRound
      /\ aggLast = 0 /\ clock = FirstTick /\ tsFaults = 0
  BY DEF RollupInit
<1>2. RollupType
  <2>1. rows \in [BucketStart -> Seq(SUBSET Ticks)]
    BY <1>1
  <2>2. maint \in [phase : {"idle", "write", "mark", "pruneRaw", "pruneAgg", "pruneSeries"},
                   at : Nat, got : SUBSET Ticks]
    BY <1>1 DEF NoRound
  <2>3. QED
    BY <1>1, <2>1, <2>2, Parameters DEF RollupType
<1>3. \A t \in Ticks : ~Averaged(t)
  BY <1>1, TicksFacts DEF Averaged
<1>4. RoundInv
  <2>1. aggLast % Bucket = 0
    BY <1>1, Parameters
  <2>2. maint.phase = "idle"
    BY <1>1 DEF NoRound
  <2>3. QED
    BY <1>1, <1>3, <2>1, <2>2 DEF RoundInv, Rolling
<1>5. QED
  BY <1>1, <1>2, <1>4 DEF RollupInv

LEMMA TimeInv ==
  ASSUME RollupInv, TimePasses
  PROVE  RollupInv'
<1>1. /\ clock' = clock + 1 /\ (maint.phase # "idle" => clock < maint.at + RoundTicks)
      /\ UNCHANGED <<raw, rows, aggLast, maint, owed, tsFaults>>
  BY DEF TimePasses
<1>2. clock \in Nat /\ clock' \in Nat /\ aggLast \in Nat /\ maint.at \in Nat
  BY <1>1 DEF RollupInv, RollupType
<1>3. Horizon \in Int /\ Horizon' \in Int /\ Horizon <= Horizon'
  BY <1>1, <1>2, HorizonFacts DEF Horizon, HorizonAt
<1>4. \A t : Averaged(t)' <=> Averaged(t)
  BY <1>1 DEF Averaged
<1>5. \A t \in Ticks : Outdated(t) => Outdated(t)'
  BY <1>1, <1>2, TicksFacts, Parameters DEF Outdated
<1>6. RollupType'
  BY <1>1, <1>2 DEF RollupInv, RollupType
<1>7. RoundInv'
  <2>1. maint'.phase # "idle" => maint'.at <= clock' /\ clock' <= maint'.at + RoundTicks
    BY <1>1, <1>2, Parameters DEF RollupInv, RoundInv
  <2>2. Rolling' = Rolling /\ \A c : HorizonAt(c)' = HorizonAt(c)
    BY <1>1 DEF Rolling, HorizonAt
  <2>3. Rolling' => maint'.got # {} /\ maint'.got \subseteq raw'
                    /\ \A t \in maint'.got : t <= HorizonAt(maint'.at)
    BY <1>1, <2>2 DEF RollupInv, RoundInv
  <2>4. aggLast' % Bucket = 0 /\ (aggLast' # 0 => aggLast' <= Horizon')
    BY <1>1, <1>2, <1>3 DEF RollupInv, RoundInv
  <2>5. ASSUME NEW t \in Ticks, Averaged(t)' PROVE t <= Horizon'
    BY <1>3, <1>4, <2>5, TicksFacts DEF RollupInv, RoundInv
  <2>6. QED
    BY <1>1, <2>1, <2>3, <2>4, <2>5 DEF RoundInv, Rolling
<1>8. ASSUME NEW t \in owed' PROVE SampleInv(t)'
  <2>1. t \in owed /\ t \in Ticks
    BY <1>1 DEF RollupInv, RollupType
  <2>2. SampleInv(t) /\ (Averaged(t)' <=> Averaged(t)) /\ (Outdated(t) => Outdated(t)')
    BY <1>4, <1>5, <2>1 DEF RollupInv
  <2>3. Held(t)' /\ Marked(t)' /\ Read(t)' /\ MarkedByRound(t)' /\ Recent(t)' /\ AllMarked(t)'
    BY <1>1, <2>2
    DEF SampleInv, Held, Marked, Read, MarkedByRound, Recent, AllMarked, Rolling, Pruning
  <2>4. ReadAgain(t)' /\ Written(t)'
    BY <1>1, <2>2 DEF SampleInv, ReadAgain, Written
  <2>5. Closed(t)'
    BY <1>1, <1>2, <2>1, <2>2, TicksFacts, Parameters DEF SampleInv, Closed
  <2>6. QED
    BY <2>3, <2>4, <2>5 DEF SampleInv
<1>9. QED
  BY <1>6, <1>7, <1>8 DEF RollupInv

LEMMA WriteInv ==
  ASSUME RollupInv, NEW s \in Ticks, WriteRaw(s)
  PROVE  RollupInv'
<1>1. /\ raw' = raw \cup {s} /\ owed' \subseteq owed \cup {s} /\ clock - LateWindow <= s
      /\ s \in owed' => s \in owed \/ s > Horizon
      /\ UNCHANGED <<clock, rows, aggLast, maint, tsFaults>>
  BY DEF WriteRaw
<1>2. clock \in Nat /\ aggLast \in Nat /\ maint.at \in Nat /\ s \in Nat
      /\ raw \subseteq Ticks /\ owed \subseteq Ticks
  BY TicksFacts DEF RollupInv, RollupType
<1>3. Horizon \in Int /\ Horizon' = Horizon /\ \A c : HorizonAt(c)' = HorizonAt(c)
  BY <1>1, <1>2, HorizonFacts DEF Horizon, HorizonAt
<1>4. \A t : (Averaged(t)' <=> Averaged(t)) /\ (Outdated(t)' <=> Outdated(t))
  BY <1>1 DEF Averaged, Outdated
<1>5. RollupType'
  BY <1>1, <1>2 DEF RollupInv, RollupType, Ticks
<1>6. RoundInv'
  BY <1>1, <1>3, <1>4 DEF RollupInv, RoundInv, Rolling
<1>7. ASSUME NEW t \in owed' PROVE SampleInv(t)'
  <2>1. (Averaged(t)' <=> Averaged(t)) /\ (Outdated(t)' <=> Outdated(t))
    BY <1>4
  <2>2. CASE t \in owed
    <3>1. SampleInv(t) /\ t \in Ticks
      BY <1>2, <2>2 DEF RollupInv
    <3>2. Held(t)' /\ Marked(t)' /\ Read(t)' /\ MarkedByRound(t)' /\ Recent(t)' /\ AllMarked(t)'
      BY <1>1, <1>3, <2>1, <3>1
      DEF SampleInv, Held, Marked, Read, MarkedByRound, Recent, AllMarked, Rolling, Pruning
    <3>3. ReadAgain(t)' /\ Written(t)'
      BY <1>1, <2>1, <3>1 DEF SampleInv, ReadAgain, Written
    <3>4. Closed(t)'
      BY <1>1, <1>2, <2>1, <3>1, TicksFacts, Parameters DEF SampleInv, Closed
    <3>5. QED
      BY <3>2, <3>3, <3>4 DEF SampleInv
  <2>3. CASE t \notin owed
    <3>1. t = s /\ t \in raw' /\ t > Horizon
      BY <1>1, <2>3
    <3>2. ~Averaged(t)
      BY <1>2, <1>3, <3>1 DEF RollupInv, RoundInv
    <3>3. t >= aggLast'
      BY <1>1, <1>2, <1>3, <3>1 DEF RollupInv, RoundInv
    <3>4. maint.phase # "idle" => t > HorizonAt(maint.at)
      <4>1. maint.phase # "idle" => HorizonAt(maint.at) \in Int /\ HorizonAt(maint.at) <= Horizon
        BY <1>2, HorizonFacts DEF RollupInv, RoundInv, Horizon, HorizonAt
      <4>2. QED
        BY <1>2, <1>3, <3>1, <4>1
    <3>5. maint.phase # "idle" => t >= HorizonAt(maint.at)
      <4>1. HorizonAt(maint.at) \in Int
        BY <1>2, HorizonFacts
      <4>2. QED
        BY <1>2, <3>1, <3>4, <4>1
    <3>6. /\ Held(t)' /\ Marked(t)' /\ Closed(t)'
          /\ MarkedByRound(t)' /\ ReadAgain(t)' /\ AllMarked(t)'
      BY <2>1, <3>1, <3>2, <3>3
      DEF Held, Marked, Closed, MarkedByRound, ReadAgain, AllMarked
    <3>7. Read(t)' /\ Recent(t)'
      BY <1>1, <1>3, <3>1, <3>3, <3>4, <3>5 DEF Read, Recent, Rolling
    <3>8. Written(t)'
      <4>1. maint.phase = "mark" =>
              maint.got \subseteq raw /\ \A q \in maint.got : q <= HorizonAt(maint.at)
        BY DEF RollupInv, RoundInv, Rolling
      <4>2. HorizonAt(maint.at) \in Int
        BY <1>2, HorizonFacts
      <4>3. maint.phase = "mark" => t \notin maint.got
        BY <1>2, <3>1, <3>4, <4>1, <4>2
      <4>4. QED
        BY <1>1, <4>3 DEF Written
    <3>9. QED
      BY <3>6, <3>7, <3>8 DEF SampleInv
  <2>4. QED
    BY <2>2, <2>3
<1>8. QED
  BY <1>5, <1>6, <1>7 DEF RollupInv

\* What a round reads: all samples of the raw tier between the last round and the
\* horizon, and the samples that are no longer owed are older.
LEMMA ReadInv ==
  ASSUME RollupInv, ReadSamples
  PROVE  RollupInv'
<1> DEFINE got == {t \in raw : From < Horizon /\ From <= t /\ t <= Horizon}
<1>1. /\ maint.phase = "idle"
      /\ maint' = [phase |-> IF got = {} THEN "pruneRaw" ELSE "write", at |-> clock, got |-> got]
      /\ owed' = IF aggLast = 0 THEN {t \in owed : t >= From} ELSE owed
      /\ UNCHANGED <<clock, raw, rows, aggLast, tsFaults>>
  BY DEF ReadSamples
<1>2. /\ clock \in Nat /\ aggLast \in Nat /\ raw \subseteq Ticks /\ owed \subseteq Ticks
      /\ From \in Int /\ Horizon \in Int
  BY HorizonFacts, Parameters DEF RollupInv, RollupType, From, Horizon, HorizonAt
<1>3. aggLast = 0 => From < Horizon
  BY <1>2, HorizonFacts, Parameters DEF From, Horizon, HorizonAt
<1>4. aggLast # 0 => From = aggLast
  BY DEF From
<1>5. \A t \in got : t \in raw /\ From < Horizon /\ From <= t /\ t <= Horizon
  OBVIOUS
<1>6. \A t \in raw : From < Horizon /\ From <= t /\ t <= Horizon => t \in got
  OBVIOUS
<1> HIDE DEF got
<1>7. maint'.at = clock /\ maint'.got = got /\ HorizonAt(maint'.at) = Horizon
      /\ (got = {} => maint'.phase = "pruneRaw") /\ (got # {} => maint'.phase = "write")
  BY <1>1 DEF Horizon, HorizonAt
<1>8. \A t : (Averaged(t)' <=> Averaged(t)) /\ (Outdated(t)' <=> Outdated(t))
  BY <1>1 DEF Averaged, Outdated
<1>9. RollupType'
  <2>1. got \subseteq Ticks
    BY <1>2, <1>5
  <2>2. maint' \in [phase : {"idle", "write", "mark", "pruneRaw", "pruneAgg", "pruneSeries"},
                    at : Nat, got : SUBSET Ticks]
    BY <1>1, <1>2, <2>1
  <2>3. QED
    BY <1>1, <1>2, <2>2 DEF RollupInv, RollupType
<1>10. RoundInv'
  <2>1. maint'.at <= clock' /\ clock' <= maint'.at + RoundTicks
    BY <1>1, <1>2, <1>7, Parameters
  <2>2. Rolling' => maint'.got # {} /\ maint'.got \subseteq raw'
                    /\ \A t \in maint'.got : t <= HorizonAt(maint'.at)
    BY <1>1, <1>5, <1>7 DEF Rolling
  <2>3. Horizon' = Horizon
    BY <1>1 DEF Horizon
  <2>4. QED
    BY <1>1, <1>8, <2>1, <2>2, <2>3 DEF RollupInv, RoundInv, Rolling
<1>11. ASSUME NEW t \in owed' PROVE SampleInv(t)'
  <2>1. t \in owed /\ t \in Ticks /\ t \in Nat /\ (aggLast = 0 => From <= t)
    BY <1>1, <1>2, TicksFacts
  <2>2. /\ Held(t) /\ Closed(t) /\ Marked(t)
        /\ (Averaged(t)' <=> Averaged(t)) /\ (Outdated(t)' <=> Outdated(t))
        /\ (Averaged(t) => t <= Horizon)
    BY <1>8, <2>1 DEF RollupInv, SampleInv, RoundInv
  <2> DEFINE start == Grid(t, Bucket)
  <2>3. start \in Nat /\ start <= t /\ t < start + Bucket
    BY <2>1, TicksFacts
  <2> HIDE DEF start
  <2>4. aggLast <= t => From <= t
    BY <1>2, <1>4, <2>1
  <2>5. t \in raw /\ From <= t /\ t <= Horizon /\ From < Horizon => t \in got
    BY <1>6
  <2>6. Averaged(t) /\ t \in raw /\ start > aggLast => t \in got
    <3>1. SUFFICES ASSUME Averaged(t), t \in raw, start > aggLast PROVE t \in got
      OBVIOUS
    <3>2. aggLast < t /\ From <= t /\ t <= Horizon
      BY <1>2, <2>1, <2>2, <2>3, <2>4, <3>1
    <3>3. From < Horizon
      BY <1>2, <1>3, <1>4, <2>1, <3>2
    <3>4. QED
      BY <2>5, <3>1, <3>2, <3>3
  <2>7. Held(t)' /\ Closed(t)' /\ Marked(t)'
    BY <1>1, <2>2 DEF Held, Closed, Marked
  <2>8. Read(t)'
    <3>1. SUFFICES ASSUME got # {}, t \notin got, ~Averaged(t), ~Outdated(t)
                   PROVE  t \in raw /\ t >= aggLast /\ t > Horizon
      BY <1>1, <1>7, <2>2 DEF Read, Rolling
    <3>2. t \in raw /\ t >= aggLast /\ From <= t
      BY <2>2, <2>4, <3>1 DEF Held
    <3>3. From < Horizon
      BY <1>5, <3>1
    <3>4. ~(t <= Horizon)
      BY <2>5, <3>1, <3>2, <3>3
    <3>5. QED
      BY <1>2, <2>1, <3>2, <3>4
  <2>9. MarkedByRound(t)'
    <3>1. SUFFICES ASSUME Averaged(t), ~Outdated(t), ~(start <= aggLast) PROVE t \in got
      BY <1>1, <1>7, <2>2 DEF MarkedByRound, start
    <3>2. t \in raw
      BY <2>2, <3>1 DEF Marked, start
    <3>3. QED
      BY <1>2, <2>3, <2>6, <3>1, <3>2
  <2>10. ReadAgain(t)'
    <3>1. SUFFICES ASSUME Averaged(t), NEW u \in got, Grid(u, Bucket) <= start PROVE t \in got
      BY <1>1, <1>7, <2>2 DEF ReadAgain, start
    <3>2. u \in raw /\ u \in Ticks /\ u \in Nat /\ From < Horizon /\ From <= u
      BY <1>2, <1>5, TicksFacts
    <3>3. Grid(u, Bucket) \in Nat /\ u < Grid(u, Bucket) + Bucket
      BY <3>2, TicksFacts
    <3>4. t \in raw
      <4>1. CASE t \notin raw
        <5>1. u >= start + Bucket
          BY <2>2, <3>1, <3>2, <4>1 DEF Closed, start
        <5>2. QED
          BY <2>3, <3>1, <3>2, <3>3, <5>1, Parameters
      <4>2. QED
        BY <4>1
    <3>5. From <= t
      <4>1. CASE aggLast # 0
        <5>1. aggLast <= u
          BY <1>2, <1>4, <3>2, <4>1
        <5>2. Grid(aggLast, Bucket) <= Grid(u, Bucket)
          BY <1>2, <3>2, <5>1, Parameters, GridMonotone
        <5>3. Grid(aggLast, Bucket) = aggLast
          BY <1>2, Parameters, GridFacts DEF RollupInv, RoundInv
        <5>4. QED
          BY <1>2, <1>4, <2>1, <2>3, <3>1, <3>3, <4>1, <5>2, <5>3
      <4>2. QED
        BY <2>1, <4>1
    <3>6. QED
      BY <2>2, <2>5, <3>1, <3>2, <3>4, <3>5
  <2>11. Written(t)'
    BY <1>7 DEF Written
  <2>12. Recent(t)'
    <3>1. SUFFICES ASSUME got = {}, ~Averaged(t), ~Outdated(t)
                   PROVE  t \in raw /\ t >= aggLast /\ t >= Horizon
      BY <1>1, <1>7, <2>2 DEF Recent
    <3>2. t \in raw /\ t >= aggLast /\ From <= t
      BY <2>2, <2>4, <3>1 DEF Held
    <3>3. ~(t <= Horizon /\ From < Horizon)
      BY <2>5, <3>1, <3>2
    <3>4. QED
      BY <1>2, <2>1, <3>2, <3>3
  <2>13. AllMarked(t)'
    <3>1. SUFFICES ASSUME got = {}, Averaged(t), ~Outdated(t) PROVE start <= aggLast
      BY <1>1, <1>7, <2>2 DEF AllMarked, Pruning, start
    <3>2. t \in raw \/ start <= aggLast
      BY <2>2, <3>1 DEF Marked, start
    <3>3. QED
      BY <1>2, <2>3, <2>6, <3>1, <3>2
  <2>14. QED
    BY <2>7, <2>8, <2>9, <2>10, <2>11, <2>12, <2>13 DEF SampleInv
<1>12. QED
  BY <1>9, <1>10, <1>11 DEF RollupInv

-----------------------------------------------------------------------------
\* A set of numbers up to a bound that is not empty has a least member, which Min
\* picks, and a greatest one, which Max picks.
LEMMA MinIsLeast ==
  ASSUME NEW S, S \subseteq Nat, S # {}
  PROVE  Min(S) \in S /\ \A r \in S : Min(S) <= r
<1> DEFINE Less == {p \in Nat \X Nat : p[1] < p[2]}
<1>1. IsWellFoundedOn(Less, Nat)
  BY NatLessThanWellFounded DEF OpToRel
<1> HIDE DEF Less
<1>2. PICK m \in S : \A r \in S : ~(<<r, m>> \in Less)
  BY <1>1, WFMin
<1>3. ASSUME NEW r \in S PROVE m =< r
  <2>1. m \in Nat /\ r \in Nat
    OBVIOUS
  <2>2. r < m => <<r, m>> \in Less
    BY <2>1 DEF Less
  <2>3. QED
    BY <1>2, <2>1, <2>2
<1>4. QED
  BY <1>3 DEF Min

LEMMA MaxIsGreatest ==
  ASSUME NEW n \in Nat, NEW S, S \subseteq 0..n, S # {}
  PROVE  Max(S) \in S /\ \A r \in S : r <= Max(S)
<1> DEFINE T == {n - r : r \in S}
<1>1. \A r \in S : r \in Nat /\ r <= n
  OBVIOUS
<1>2. T \subseteq Nat
  BY <1>1
<1>3. T # {} /\ \A r \in S : n - r \in T
  OBVIOUS
<1> HIDE DEF T
<1>4. Min(T) \in T /\ \A r \in S : Min(T) <= n - r
  BY <1>2, <1>3, MinIsLeast
<1>5. PICK m \in S : Min(T) = n - m
  BY <1>4 DEF T
<1>6. ASSUME NEW r \in S PROVE m >= r
  <2>1. m \in Nat /\ r \in Nat /\ n - m <= n - r
    BY <1>1, <1>4, <1>5
  <2>2. QED
    BY <2>1
<1>7. Max(S) \in S /\ \A r \in S : Max(S) >= r
  BY <1>6 DEF Max
<1>8. ASSUME NEW r \in S PROVE r <= Max(S)
  <2>1. \A q \in Nat : q >= r => r <= q
    BY <1>1
  <2>2. QED
    BY <1>1, <1>7, <2>1
<1>9. QED
  BY <1>7, <1>8

\* What becomes of one row of the aggregate tier when the round writes its own
\* rows: they come first, one that is older than all of them stays, and nothing
\* else comes in.
RowAfter(b, fresh, new) ==
  /\ new \in Seq(SUBSET Ticks)
  /\ \A i \in DOMAIN new :
       \/ b \in fresh /\ new[i] = {t \in maint.got : Grid(t, Bucket) = b}
       \/ \E j \in DOMAIN rows[b] : new[i] = rows[b][j]
  /\ b \in fresh => new # <<>> /\ new[1] = {t \in maint.got : Grid(t, Bucket) = b}
  /\ (\A c \in fresh : b < c) => new = rows[b]

LEMMA RowWritten ==
  ASSUME RollupType, NEW fresh, fresh \subseteq BucketStart, NEW keep \in 1..2,
         NEW b \in BucketStart
  PROVE  RowAfter(b, fresh, Chunk(Grid(b, AggWindow), fresh, keep)[b])
<1> DEFINE new == Chunk(Grid(b, AggWindow), fresh, keep)[b]
<1> SUFFICES RowAfter(b, fresh, new)
  OBVIOUS
<1> DEFINE w == Grid(b, AggWindow)
           g == {c \in fresh : Grid(c, AggWindow) = w}
           own == {t \in maint.got : Grid(t, Bucket) = b}
           earlier == \E c \in BucketStart : Grid(c, AggWindow) = w /\ rows[c] # <<>> /\ c < Min(g)
           old == IF b < Min(g) THEN rows[b]
                  ELSE IF rows[b] # <<>> /\ (earlier \/ b > Max(g))
                       THEN <<rows[b][IF keep <= Len(rows[b]) THEN keep ELSE 1]>> ELSE <<>>
           first == IF b \in g THEN <<own>> ELSE <<>>
<1>1. new = IF g = {} THEN rows[b] ELSE first \o old
  BY DEF Chunk
<1> HIDE DEF new
<1>2. rows[b] \in Seq(SUBSET Ticks) /\ own \in SUBSET Ticks
  BY DEF RollupType
<1>3. (b \in g <=> b \in fresh) /\ g \subseteq Nat
  BY BucketsAreNumbers
<1>4. b \in Nat
  BY BucketsAreNumbers
<1>5. g # {} => Min(g) \in g
  <2> HIDE DEF g
  <2>1. QED
    BY <1>3, MinIsLeast
<1>6. \A c \in g : c \in fresh
  OBVIOUS
<1> HIDE DEF g, own, w
<1>7. /\ old \in Seq(SUBSET Ticks)
      /\ \A i \in DOMAIN old : \E j \in DOMAIN rows[b] : old[i] = rows[b][j]
  <2>1. CASE b < Min(g)
    BY <1>2, <2>1
  <2>2. CASE ~(b < Min(g)) /\ rows[b] # <<>> /\ (earlier \/ b > Max(g))
    <3> DEFINE k == IF keep <= Len(rows[b]) THEN keep ELSE 1
    <3>1. k \in DOMAIN rows[b]
      <4>1. Len(rows[b]) \in Nat /\ Len(rows[b]) # 0 /\ DOMAIN rows[b] = 1..Len(rows[b])
        BY <1>2, <2>2, EmptySeq, LenProperties
      <4>2. QED
        BY <4>1
    <3>2. old = <<rows[b][k]>>
      BY <2>2
    <3> HIDE DEF k, old
    <3>3. rows[b][k] \in SUBSET Ticks
      BY <1>2, <3>1
    <3>4. QED
      BY <3>1, <3>2, <3>3
  <2>3. CASE ~(b < Min(g)) /\ ~(rows[b] # <<>> /\ (earlier \/ b > Max(g)))
    BY <2>3
  <2>4. QED
    BY <2>1, <2>2, <2>3
<1>8. b < Min(g) => old = rows[b]
  OBVIOUS
<1> HIDE DEF old
<1>9. CASE g = {}
  <2>1. new = rows[b] /\ b \notin fresh
    BY <1>1, <1>3, <1>9
  <2>2. QED
    BY <1>2, <2>1 DEF RowAfter
<1>10. CASE g # {} /\ b \in fresh
  <2>1. new = <<own>> \o old
    BY <1>1, <1>3, <1>10
  <2>2. <<own>> \in Seq(SUBSET Ticks) /\ Len(<<own>>) = 1 /\ <<own>>[1] = own
    BY <1>2
  <2>3. /\ new \in Seq(SUBSET Ticks) /\ Len(new) = 1 + Len(old)
        /\ \A i \in 1..(1 + Len(old)) : new[i] = IF i <= 1 THEN <<own>>[i] ELSE old[i - 1]
    BY <1>7, <2>1, <2>2, ConcatProperties
  <2>4. Len(old) \in Nat /\ DOMAIN old = 1..Len(old) /\ DOMAIN new = 1..(1 + Len(old))
    BY <1>7, <2>3
  <2>5. new # <<>> /\ new[1] = own
    BY <2>2, <2>3, <2>4
  <2>6. ASSUME NEW i \in DOMAIN new
        PROVE  new[i] = own \/ \E j \in DOMAIN rows[b] : new[i] = rows[b][j]
    <3>1. CASE i = 1
      BY <2>5, <3>1
    <3>2. CASE i # 1
      <4>1. i - 1 \in DOMAIN old /\ new[i] = old[i - 1]
        BY <2>3, <2>4, <3>2
      <4>2. QED
        BY <1>7, <4>1
    <3>3. QED
      BY <3>1, <3>2
  <2>7. ~(\A c \in fresh : b < c)
    BY <1>4, <1>10
  <2>8. QED
    BY <1>10, <2>3, <2>5, <2>6, <2>7 DEF own, RowAfter
<1>11. CASE g # {} /\ b \notin fresh
  <2>1. new = old
    BY <1>1, <1>3, <1>7, <1>11, ConcatEmptySeq
  <2>2. (\A c \in fresh : b < c) => new = rows[b]
    BY <1>5, <1>6, <1>8, <1>11, <2>1
  <2>3. QED
    BY <1>7, <1>11, <2>1, <2>2 DEF RowAfter
<1>12. QED
  BY <1>9, <1>10, <1>11

\* The rows of a round: what it has read is averaged, and no sample that is owed
\* falls out of a row.
LEMMA WriteRowsInv ==
  ASSUME RollupInv, WriteRows
  PROVE  RollupInv'
<1> DEFINE fresh == {Grid(t, Bucket) : t \in maint.got}
<1>1. /\ maint.phase = "write" /\ maint' = [maint EXCEPT !.phase = "mark"]
      /\ UNCHANGED <<clock, raw, aggLast, owed, tsFaults>>
  BY DEF WriteRows
<1>2. PICK keep \in 1..2 :
        rows' = [b \in BucketStart |-> Chunk(Grid(b, AggWindow), fresh, keep)[b]]
  BY DEF WriteRows
<1>3. /\ RollupType /\ Rolling /\ maint.got \subseteq Ticks /\ maint.got \subseteq raw
      /\ clock \in Nat /\ maint.at \in Nat /\ maint.at <= clock /\ owed \subseteq Ticks
      /\ \A t \in maint.got : t <= HorizonAt(maint.at)
  BY <1>1 DEF RollupInv, RollupType, RoundInv, Rolling
<1>4. fresh \subseteq BucketStart
  BY <1>3, TicksFacts
<1>5. \A t \in maint.got : Grid(t, Bucket) \in fresh
  OBVIOUS
<1>6. \A c \in fresh : \E u \in maint.got : Grid(u, Bucket) = c
  OBVIOUS
<1> HIDE DEF fresh
<1>7. ASSUME NEW b \in BucketStart PROVE RowAfter(b, fresh, rows'[b])
  <2>1. rows'[b] = Chunk(Grid(b, AggWindow), fresh, keep)[b]
    BY <1>2
  <2>2. QED
    BY <1>2, <1>3, <1>4, <2>1, RowWritten
<1>8. maint'.phase = "mark" /\ maint'.got = maint.got /\ maint'.at = maint.at
  BY <1>1, <1>3 DEF RollupType
<1>9. RollupType'
  <2>1. rows' \in [BucketStart -> Seq(SUBSET Ticks)]
    BY <1>2, <1>7 DEF RowAfter
  <2>2. maint' \in [phase : {"idle", "write", "mark", "pruneRaw", "pruneAgg", "pruneSeries"},
                    at : Nat, got : SUBSET Ticks]
    BY <1>1, <1>3 DEF RollupType
  <2>3. QED
    BY <1>1, <1>3, <2>1, <2>2 DEF RollupType
<1>10. ASSUME NEW t \in maint.got PROVE Averaged(t)'
  <2> DEFINE b == Grid(t, Bucket)
  <2>1. b \in fresh /\ b \in BucketStart
    BY <1>4, <1>5
  <2>2. rows'[b] \in Seq(SUBSET Ticks) /\ rows'[b] # <<>>
        /\ rows'[b][1] = {u \in maint.got : Grid(u, Bucket) = b}
    BY <1>7, <2>1 DEF RowAfter
  <2>3. 1 \in DOMAIN rows'[b]
    BY <2>2, EmptySeq, LenProperties
  <2>4. t \in rows'[b][1]
    BY <2>2
  <2>5. QED
    BY <2>3, <2>4 DEF Averaged
<1>11. ASSUME NEW t \in Ticks, Averaged(t)' PROVE Averaged(t) \/ t \in maint.got
  <2> DEFINE b == Grid(t, Bucket)
  <2>1. b \in BucketStart
    BY TicksFacts
  <2>2. PICK i \in DOMAIN rows'[b] : t \in rows'[b][i]
    BY <1>11 DEF Averaged
  <2>3. CASE rows'[b][i] = {u \in maint.got : Grid(u, Bucket) = b}
    BY <2>2, <2>3
  <2>4. CASE \E j \in DOMAIN rows[b] : rows'[b][i] = rows[b][j]
    BY <2>2, <2>4 DEF Averaged
  <2>5. QED
    BY <1>7, <2>1, <2>2, <2>3, <2>4 DEF RowAfter
<1>12. ASSUME NEW t \in owed, Averaged(t) PROVE Averaged(t)'
  <2> DEFINE b == Grid(t, Bucket)
  <2>1. b \in BucketStart /\ b \in Nat
    BY <1>3, TicksFacts
  <2>2. CASE \A c \in fresh : b < c
    <3>1. rows'[b] = rows[b]
      BY <1>7, <2>1, <2>2 DEF RowAfter
    <3>2. QED
      BY <1>12, <3>1 DEF Averaged
  <2>3. CASE \E c \in fresh : ~(b < c)
    <3>1. PICK c \in fresh : ~(b < c)
      BY <2>3
    <3>2. PICK u \in maint.got : Grid(u, Bucket) = c
      BY <1>6
    <3>3. Grid(u, Bucket) <= b
      BY <1>4, <2>1, <3>1, <3>2, BucketsAreNumbers
    <3>4. t \in maint.got
      BY <1>1, <1>12, <3>3 DEF RollupInv, SampleInv, ReadAgain
    <3>5. QED
      BY <1>10, <3>4
  <2>4. QED
    BY <2>2, <2>3
<1>13. RoundInv'
  <2>1. HorizonAt(maint.at) \in Int /\ Horizon \in Int /\ HorizonAt(maint.at) <= Horizon
        /\ Horizon' = Horizon /\ \A c : HorizonAt(c)' = HorizonAt(c)
    BY <1>1, <1>3, HorizonFacts DEF Horizon, HorizonAt
  <2>2. ASSUME NEW t \in Ticks, Averaged(t)' PROVE t <= Horizon'
    <3>1. CASE Averaged(t)
      BY <2>1, <3>1 DEF RollupInv, RoundInv
    <3>2. CASE t \in maint.got
      BY <1>3, <2>1, <3>2, TicksFacts
    <3>3. QED
      BY <1>11, <2>2, <3>1, <3>2
  <2>3. QED
    BY <1>1, <1>3, <1>8, <2>1, <2>2 DEF RollupInv, RoundInv, Rolling
<1>14. ASSUME NEW t \in owed' PROVE SampleInv(t)'
  <2>1. t \in owed /\ t \in Ticks /\ SampleInv(t) /\ (Outdated(t)' <=> Outdated(t))
    BY <1>1, <1>3 DEF RollupInv, Outdated
  <2>2. /\ Averaged(t) => Averaged(t)'
        /\ Averaged(t)' => Averaged(t) \/ t \in maint.got
        /\ t \in maint.got => Averaged(t)' /\ t \in raw
    BY <1>3, <1>10, <1>11, <1>12, <2>1
  <2>3. Held(t)' /\ Closed(t)' /\ Marked(t)'
    BY <1>1, <2>1, <2>2 DEF SampleInv, Held, Closed, Marked
  <2>4. Read(t)' /\ MarkedByRound(t)'
    <3>1. \A c : HorizonAt(c)' = HorizonAt(c)
      BY DEF HorizonAt
    <3>2. QED
      BY <1>1, <1>3, <1>8, <2>1, <2>2, <3>1 DEF SampleInv, Read, MarkedByRound
  <2>5. ReadAgain(t)' /\ Written(t)' /\ Recent(t)' /\ AllMarked(t)'
    BY <1>8, <2>2 DEF ReadAgain, Written, Recent, AllMarked, Pruning
  <2>6. QED
    BY <2>3, <2>4, <2>5 DEF SampleInv
<1>15. QED
  BY <1>9, <1>13, <1>14 DEF RollupInv

\* The mark: what is not averaged yet is past the last row of the round.
LEMMA MarkInv ==
  ASSUME RollupInv, MarkRolled
  PROVE  RollupInv'
<1> DEFINE m == Max(maint.got)
           top == Grid(m, Bucket)
<1>1. /\ maint.phase = "mark" /\ aggLast' = Max({aggLast, top})
      /\ maint' = [maint EXCEPT !.phase = "pruneRaw", !.got = {}]
      /\ UNCHANGED <<clock, raw, rows, owed, tsFaults>>
  BY DEF MarkRolled
<1>2. /\ Rolling /\ maint.got \subseteq Ticks /\ maint.got # {} /\ aggLast \in Nat
      /\ clock \in Nat /\ maint.at \in Nat /\ maint.at <= clock /\ owed \subseteq Ticks
      /\ \A t \in maint.got : t <= HorizonAt(maint.at)
  BY <1>1 DEF RollupInv, RollupType, RoundInv, Rolling
<1>3. m \in maint.got /\ \A t \in maint.got : t <= m
  <2>1. maint.got \subseteq 0..MaxTicks
    BY <1>2, TicksFacts
  <2>2. QED
    BY <1>2, <2>1, Parameters, MaxIsGreatest
<1>4. m \in Nat /\ top \in Nat /\ top <= m /\ top % Bucket = 0
  <2>1. m \in Ticks
    BY <1>2, <1>3
  <2> HIDE DEF m
  <2>2. m \in Nat /\ Grid(m, Bucket) \in Nat /\ Grid(m, Bucket) <= m
    BY <2>1, TicksFacts
  <2>3. Grid(m, Bucket) % Bucket = 0
    BY <2>2, Parameters, GridFacts
  <2>4. QED
    BY <2>2, <2>3
<1>5. \A t \in maint.got : Grid(t, Bucket) <= top
  BY <1>2, <1>3, <1>4, TicksFacts, Parameters, GridMonotone
<1>6. m <= HorizonAt(maint.at)
  BY <1>2, <1>3
<1> HIDE DEF m, top
<1>7. aggLast' \in {aggLast, top} /\ aggLast <= aggLast' /\ top <= aggLast'
  <2>1. {aggLast, top} \subseteq 0..(aggLast + top) /\ aggLast + top \in Nat
    BY <1>2, <1>4
  <2>2. QED
    BY <1>1, <2>1, MaxIsGreatest
<1>8. HorizonAt(maint.at) \in Int /\ Horizon \in Int /\ HorizonAt(maint.at) <= Horizon
      /\ Horizon' = Horizon
  BY <1>1, <1>2, HorizonFacts DEF Horizon, HorizonAt
<1>9. maint'.phase = "pruneRaw" /\ maint'.at = maint.at /\ aggLast' \in Nat
  BY <1>1, <1>2, <1>4, <1>7 DEF RollupInv, RollupType
<1>10. \A t : (Averaged(t)' <=> Averaged(t)) /\ (Outdated(t)' <=> Outdated(t))
  BY <1>1 DEF Averaged, Outdated
<1>11. RollupType'
  BY <1>1, <1>9 DEF RollupInv, RollupType
<1>12. RoundInv'
  <2>1. aggLast' % Bucket = 0 /\ (aggLast' # 0 => aggLast' <= Horizon)
    <3>1. CASE aggLast' = aggLast
      BY <3>1 DEF RollupInv, RoundInv
    <3>2. CASE aggLast' = top
      BY <1>4, <1>6, <1>8, <3>2
    <3>3. QED
      BY <1>7, <3>1, <3>2
  <2>2. QED
    BY <1>1, <1>8, <1>9, <1>10, <2>1 DEF RollupInv, RoundInv, Rolling
<1>13. ASSUME NEW t \in owed' PROVE SampleInv(t)'
  <2>1. t \in owed /\ t \in Nat /\ Grid(t, Bucket) \in Nat /\ SampleInv(t)
        /\ (Averaged(t)' <=> Averaged(t)) /\ (Outdated(t)' <=> Outdated(t))
    BY <1>1, <1>2, <1>10, TicksFacts DEF RollupInv
  <2>2. t >= aggLast /\ t > HorizonAt(maint.at) => t >= aggLast' /\ t >= HorizonAt(maint.at)
    BY <1>2, <1>4, <1>6, <1>7, <1>8, <2>1
  <2>3. \/ Averaged(t) \/ Outdated(t)
        \/ t \in raw /\ t >= aggLast' /\ t >= HorizonAt(maint.at)
    BY <1>1, <1>2, <2>1, <2>2 DEF SampleInv, Read, Written
  <2>4. Averaged(t) => Grid(t, Bucket) <= aggLast' \/ Outdated(t)
    <3>1. Grid(t, Bucket) <= aggLast => Grid(t, Bucket) <= aggLast'
      BY <1>2, <1>7, <1>9, <2>1
    <3>2. t \in maint.got => Grid(t, Bucket) <= aggLast'
      BY <1>4, <1>5, <1>7, <1>9, <2>1
    <3>3. QED
      BY <1>2, <2>1, <3>1, <3>2 DEF SampleInv, MarkedByRound
  <2>5. Held(t)' /\ Closed(t)' /\ Marked(t)'
    BY <1>1, <2>1, <2>3, <2>4 DEF SampleInv, Held, Closed, Marked
  <2>6. Read(t)' /\ MarkedByRound(t)' /\ ReadAgain(t)' /\ Written(t)'
    BY <1>9 DEF Read, MarkedByRound, ReadAgain, Written, Rolling
  <2>7. Recent(t)' /\ AllMarked(t)'
    <3>1. \A c : HorizonAt(c)' = HorizonAt(c)
      BY DEF HorizonAt
    <3>2. QED
      BY <1>1, <1>9, <2>1, <2>3, <2>4, <3>1 DEF Recent, AllMarked
  <2>8. QED
    BY <2>5, <2>6, <2>7 DEF SampleInv
<1>14. QED
  BY <1>11, <1>12, <1>13 DEF RollupInv

-----------------------------------------------------------------------------
\* Whole chunks leave the raw tier, and before them all older ones have left.
LEMMA PruneRawInv ==
  ASSUME RollupInv, PruneRaw
  PROVE  RollupInv'
<1>1. /\ maint.phase = "pruneRaw" /\ maint' = [maint EXCEPT !.phase = "pruneAgg"]
      /\ UNCHANGED <<clock, rows, aggLast, owed, tsFaults>>
  BY DEF PruneRaw
<1>2. /\ raw' \subseteq raw
      /\ \A t \in raw' : \E u \in raw :
           Grid(u, RawWindow) = Grid(t, RawWindow) /\ u >= clock - RawKeep
      /\ \A t \in raw : t \notin raw' =>
           \A u \in raw : Grid(u, RawWindow) = Grid(t, RawWindow) => ~(u >= clock - RawKeep)
  BY DEF PruneRaw
<1>3. /\ raw \subseteq Ticks /\ owed \subseteq Ticks /\ clock \in Nat /\ maint.at \in Nat
      /\ maint.at <= clock /\ clock <= maint.at + RoundTicks /\ aggLast \in Nat
  BY <1>1 DEF RollupInv, RollupType, RoundInv
<1>4. HorizonAt(maint.at) \in Int /\ clock - RawKeep < HorizonAt(maint.at)
  <2>1. HorizonAt(maint.at) \in Int /\ maint.at < HorizonAt(maint.at) + 2 * Bucket
    BY <1>3, HorizonFacts
  <2>2. QED
    BY <1>3, <2>1, Parameters
<1>5. maint'.phase = "pruneAgg" /\ maint'.at = maint.at
  BY <1>1 DEF RollupInv, RollupType
<1>6. \A t : (Averaged(t)' <=> Averaged(t)) /\ (Outdated(t)' <=> Outdated(t))
  BY <1>1 DEF Averaged, Outdated
<1>7. RollupType'
  BY <1>1, <1>2, <1>3 DEF RollupInv, RollupType
<1>8. RoundInv'
  <2>1. Horizon' = Horizon
    BY <1>1 DEF Horizon
  <2>2. QED
    BY <1>1, <1>3, <1>5, <1>6, <2>1 DEF RollupInv, RoundInv, Rolling
<1>9. ASSUME NEW t \in owed' PROVE SampleInv(t)'
  <2>1. t \in owed /\ t \in Ticks /\ t \in Nat /\ SampleInv(t)
        /\ (Averaged(t)' <=> Averaged(t)) /\ (Outdated(t)' <=> Outdated(t))
    BY <1>1, <1>3, <1>6, TicksFacts DEF RollupInv
  <2>2. t \in raw /\ t >= HorizonAt(maint.at) => t \in raw'
    <3>1. t >= HorizonAt(maint.at) => t >= clock - RawKeep
      BY <1>3, <1>4, <2>1, Parameters
    <3>2. QED
      BY <1>2, <3>1
  <2>3. Held(t)'
    BY <1>1, <2>1, <2>2 DEF SampleInv, Recent, Held
  <2>4. Marked(t)' /\ AllMarked(t)'
    BY <1>1, <2>1 DEF SampleInv, AllMarked, Marked, Pruning
  <2>5. Closed(t)'
    <3> DEFINE start == Grid(t, Bucket)
    <3>1. start \in Nat /\ start <= t /\ t < start + Bucket
      BY <2>1, TicksFacts
    <3>2. SUFFICES ASSUME Averaged(t), t \notin raw'
                   PROVE  /\ start + Bucket <= clock - LateWindow
                          /\ \A u \in raw' : u >= start + Bucket
      BY <1>1, <2>1 DEF Closed
    <3>3. CASE t \notin raw
      BY <1>2, <2>1, <3>2, <3>3 DEF SampleInv, Closed
    <3>4. CASE t \in raw
      <4>1. \A v \in raw : Grid(v, RawWindow) = Grid(t, RawWindow) => ~(v >= clock - RawKeep)
        BY <1>2, <3>2, <3>4
      <4>2. ~(t >= clock - RawKeep)
        BY <3>4, <4>1
      <4> HIDE DEF start
      <4>3. start + Bucket <= clock - LateWindow
        BY <1>3, <2>1, <3>1, <4>2, Parameters
      <4>4. ASSUME NEW u \in raw', u < start + Bucket PROVE FALSE
        <5>1. u \in raw /\ u \in Ticks /\ u \in Nat
          BY <1>2, <1>3, TicksFacts
        <5>2. PICK v \in raw : Grid(v, RawWindow) = Grid(u, RawWindow) /\ v >= clock - RawKeep
          BY <1>2
        <5>3. v \in Nat
          BY <1>3, TicksFacts
        <5>4. Grid(u, RawWindow) <= Grid(t, RawWindow)
          BY <2>1, <4>4, <5>1, Parameters, WholeBuckets DEF start
        <5>5. Grid(t, RawWindow) <= Grid(v, RawWindow)
          <6>1. t <= v
            BY <1>3, <2>1, <4>2, <5>2, <5>3, Parameters
          <6>2. QED
            BY <2>1, <5>3, <6>1, Parameters, GridMonotone
        <5>6. Grid(u, RawWindow) \in Int /\ Grid(t, RawWindow) \in Int
          BY <2>1, <5>1, Parameters, GridFacts
        <5>7. Grid(v, RawWindow) = Grid(t, RawWindow)
          BY <5>2, <5>4, <5>5, <5>6
        <5>8. QED
          BY <4>1, <5>2, <5>7
      <4>5. \A u \in raw' : u >= start + Bucket
        <5>1. ASSUME NEW u \in raw' PROVE u >= start + Bucket
          <6>1. u \in Nat
            BY <1>2, <1>3, TicksFacts
          <6>2. QED
            BY <3>1, <4>4, <6>1, Parameters
        <5>2. QED
          BY <5>1
      <4>6. QED
        BY <4>3, <4>5
    <3>5. QED
      BY <3>3, <3>4
  <2>6. Read(t)' /\ MarkedByRound(t)' /\ ReadAgain(t)' /\ Written(t)' /\ Recent(t)'
    BY <1>5 DEF Read, MarkedByRound, ReadAgain, Written, Rolling, Recent
  <2>7. QED
    BY <2>3, <2>4, <2>5, <2>6 DEF SampleInv
<1>10. QED
  BY <1>7, <1>8, <1>9 DEF RollupInv

\* Rows leave the aggregate tier only by windows that are past the retention.
LEMMA PruneAggInv ==
  ASSUME RollupInv, PruneAgg
  PROVE  RollupInv'
<1> DEFINE Live(w) == \E c \in BucketStart :
                        Grid(c, AggWindow) = w /\ rows[c] # <<>> /\ c >= clock - AggKeep
<1>1. /\ maint.phase = "pruneAgg" /\ maint' = [maint EXCEPT !.phase = "pruneSeries"]
      /\ rows' = [b \in BucketStart |-> IF Live(Grid(b, AggWindow)) THEN rows[b] ELSE <<>>]
      /\ UNCHANGED <<clock, raw, aggLast, owed, tsFaults>>
  BY DEF PruneAgg
<1>2. /\ raw \subseteq Ticks /\ owed \subseteq Ticks /\ clock \in Nat
      /\ rows \in [BucketStart -> Seq(SUBSET Ticks)]
  BY DEF RollupInv, RollupType
<1>3. \A b \in BucketStart : rows'[b] = rows[b] \/ (rows'[b] = <<>> /\ ~Live(Grid(b, AggWindow)))
  BY <1>1
<1>4. maint'.phase = "pruneSeries" /\ maint'.at = maint.at
  BY <1>1 DEF RollupInv, RollupType
<1>5. ASSUME NEW t \in Ticks
      PROVE  /\ Outdated(t)' <=> Outdated(t)
             /\ Averaged(t)' => Averaged(t)
             /\ Averaged(t) => Averaged(t)' \/ Outdated(t)
  <2> DEFINE b == Grid(t, Bucket)
  <2>1. b \in BucketStart /\ b \in Nat
    BY TicksFacts
  <2>2. Outdated(t)' <=> Outdated(t)
    BY <1>1 DEF Outdated
  <2>3. CASE rows'[b] = rows[b]
    BY <2>2, <2>3 DEF Averaged
  <2>4. CASE rows'[b] = <<>> /\ ~Live(Grid(b, AggWindow))
    <3>1. ~Averaged(t)'
      BY <2>4 DEF Averaged
    <3>2. Averaged(t) => rows[b] # <<>>
      BY DEF Averaged
    <3>3. Averaged(t) => ~(b >= clock - AggKeep)
      BY <2>1, <2>4, <3>2
    <3>4. Averaged(t) => Outdated(t)
      BY <1>2, <2>1, <3>3, Parameters DEF Outdated
    <3>5. QED
      BY <2>2, <3>1, <3>4
  <2>5. QED
    BY <1>3, <2>1, <2>3, <2>4
<1>6. RollupType'
  <2>1. rows' \in [BucketStart -> Seq(SUBSET Ticks)]
    <3>1. <<>> \in Seq(SUBSET Ticks)
      OBVIOUS
    <3> HIDE DEF Live
    <3>2. QED
      BY <1>1, <1>2, <3>1
  <2>2. QED
    BY <1>1, <2>1 DEF RollupInv, RollupType
<1>7. RoundInv'
  <2>1. Horizon' = Horizon
    BY <1>1 DEF Horizon
  <2>2. QED
    BY <1>1, <1>4, <1>5, <2>1 DEF RollupInv, RoundInv, Rolling
<1>8. ASSUME NEW t \in owed' PROVE SampleInv(t)'
  <2>1. /\ t \in owed /\ t \in Ticks /\ SampleInv(t) /\ (Outdated(t)' <=> Outdated(t))
        /\ (Averaged(t)' => Averaged(t)) /\ (Averaged(t) => Averaged(t)' \/ Outdated(t))
    BY <1>1, <1>2, <1>5 DEF RollupInv
  <2>2. Held(t)' /\ Closed(t)' /\ Marked(t)'
    BY <1>1, <2>1 DEF SampleInv, Held, Closed, Marked
  <2>3. AllMarked(t)'
    BY <1>1, <2>1 DEF SampleInv, AllMarked, Pruning
  <2>4. Read(t)' /\ MarkedByRound(t)' /\ ReadAgain(t)' /\ Written(t)' /\ Recent(t)'
    BY <1>4 DEF Read, MarkedByRound, ReadAgain, Written, Rolling, Recent
  <2>5. QED
    BY <2>2, <2>3, <2>4 DEF SampleInv
<1>9. QED
  BY <1>6, <1>7, <1>8 DEF RollupInv

\* The series goes only when its last row is past the retention, and then all of
\* its rows are.
LEMMA PruneSeriesInv ==
  ASSUME RollupInv, PruneSeries
  PROVE  RollupInv'
<1>1. /\ maint.phase = "pruneSeries" /\ maint' = NoRound
      /\ UNCHANGED <<clock, raw, owed, tsFaults>>
      /\ \/ aggLast' = aggLast /\ rows' = rows
         \/ /\ aggLast > 0 /\ aggLast < clock - AggKeep /\ aggLast' = 0
            /\ rows' = [b \in BucketStart |-> <<>>]
  BY DEF PruneSeries
<1>2. raw \subseteq Ticks /\ owed \subseteq Ticks /\ clock \in Nat /\ aggLast \in Nat
  BY DEF RollupInv, RollupType
<1>3. maint'.phase = "idle" /\ maint'.got = {}
  BY <1>1 DEF NoRound
<1>4. \A t : Outdated(t)' <=> Outdated(t)
  BY <1>1 DEF Outdated
<1>5. RollupType'
  <2>1. maint' \in [phase : {"idle", "write", "mark", "pruneRaw", "pruneAgg", "pruneSeries"},
                    at : Nat, got : SUBSET Ticks]
    BY <1>1 DEF NoRound
  <2>2. rows' \in [BucketStart -> Seq(SUBSET Ticks)] /\ aggLast' \in Nat
    <3>1. rows \in [BucketStart -> Seq(SUBSET Ticks)] /\ <<>> \in Seq(SUBSET Ticks)
      BY DEF RollupInv, RollupType
    <3>2. [b \in BucketStart |-> <<>>] \in [BucketStart -> Seq(SUBSET Ticks)]
      BY <3>1
    <3>3. aggLast' \in Nat
      BY <1>1, <1>2
    <3>4. QED
      BY <1>1, <3>1, <3>2, <3>3
  <2>3. QED
    BY <1>1, <2>1, <2>2 DEF RollupInv, RollupType
<1>6. Horizon' = Horizon
  BY <1>1 DEF Horizon
<1>7. CASE aggLast' = aggLast /\ rows' = rows
  <2>1. \A t : Averaged(t)' <=> Averaged(t)
    BY <1>7 DEF Averaged
  <2>2. RoundInv'
    BY <1>3, <1>6, <1>7, <2>1 DEF RollupInv, RoundInv, Rolling
  <2>3. ASSUME NEW t \in owed' PROVE SampleInv(t)'
    <3>1. t \in owed /\ SampleInv(t) /\ (Outdated(t)' <=> Outdated(t))
          /\ (Averaged(t)' <=> Averaged(t))
      BY <1>1, <1>4, <2>1 DEF RollupInv
    <3>2. Held(t)' /\ Closed(t)' /\ Marked(t)'
      BY <1>1, <1>7, <3>1 DEF SampleInv, Held, Closed, Marked
    <3>3. /\ Read(t)' /\ MarkedByRound(t)' /\ ReadAgain(t)' /\ Written(t)' /\ Recent(t)'
          /\ AllMarked(t)'
      BY <1>3 DEF Read, MarkedByRound, ReadAgain, Written, Rolling, Recent, AllMarked, Pruning
    <3>4. QED
      BY <3>2, <3>3 DEF SampleInv
  <2>4. QED
    BY <1>5, <2>2, <2>3 DEF RollupInv
<1>8. CASE /\ aggLast > 0 /\ aggLast < clock - AggKeep /\ aggLast' = 0
           /\ rows' = [b \in BucketStart |-> <<>>]
  <2>1. \A t \in Ticks : ~Averaged(t)'
    BY <1>8, TicksFacts DEF Averaged
  <2>2. RoundInv'
    <3>1. aggLast' % Bucket = 0
      BY <1>8, Parameters
    <3>2. QED
      BY <1>3, <1>8, <2>1, <3>1 DEF RoundInv, Rolling
  <2>3. ASSUME NEW t \in owed' PROVE SampleInv(t)'
    <3>1. t \in owed /\ t \in Ticks /\ t \in Nat /\ Grid(t, Bucket) \in Nat /\ SampleInv(t)
          /\ (Outdated(t)' <=> Outdated(t)) /\ ~Averaged(t)'
      BY <1>1, <1>2, <1>4, <2>1, TicksFacts DEF RollupInv
    <3>2. Averaged(t) => Outdated(t)
      <4>1. Averaged(t) => Grid(t, Bucket) <= aggLast \/ Outdated(t)
        BY <1>1, <3>1 DEF SampleInv, AllMarked, Pruning
      <4>2. Grid(t, Bucket) <= aggLast => Outdated(t)
        BY <1>2, <1>8, <3>1, Parameters DEF Outdated
      <4>3. QED
        BY <4>1, <4>2
    <3>3. t >= aggLast'
      BY <1>8, <3>1
    <3>4. Held(t)' /\ Closed(t)' /\ Marked(t)'
      BY <1>1, <3>1, <3>2, <3>3 DEF SampleInv, Held, Closed, Marked
    <3>5. /\ Read(t)' /\ MarkedByRound(t)' /\ ReadAgain(t)' /\ Written(t)' /\ Recent(t)'
          /\ AllMarked(t)'
      BY <1>3 DEF Read, MarkedByRound, ReadAgain, Written, Rolling, Recent, AllMarked, Pruning
    <3>6. QED
      BY <3>4, <3>5 DEF SampleInv
  <2>4. QED
    BY <1>5, <2>2, <2>3 DEF RollupInv
<1>9. QED
  BY <1>1, <1>7, <1>8

\* A round that is given up, wherever it was.
LEMMA RoundFailsInv ==
  ASSUME RollupInv, RoundFails
  PROVE  RollupInv'
<1>1. maint' = NoRound /\ tsFaults' = tsFaults + 1 /\ UNCHANGED <<clock, raw, rows, aggLast, owed>>
  BY DEF RoundFails
<1>2. maint'.phase = "idle"
  BY <1>1 DEF NoRound
<1>3. \A t : (Averaged(t)' <=> Averaged(t)) /\ (Outdated(t)' <=> Outdated(t))
  BY <1>1 DEF Averaged, Outdated
<1>4. RollupType'
  BY <1>1 DEF RollupInv, RollupType, NoRound
<1>5. RoundInv'
  <2>1. Horizon' = Horizon
    BY <1>1 DEF Horizon
  <2>2. QED
    BY <1>1, <1>2, <1>3, <2>1 DEF RollupInv, RoundInv, Rolling
<1>6. ASSUME NEW t \in owed' PROVE SampleInv(t)'
  <2>1. t \in owed /\ SampleInv(t) /\ (Averaged(t)' <=> Averaged(t))
        /\ (Outdated(t)' <=> Outdated(t))
    BY <1>1, <1>3 DEF RollupInv
  <2>2. Held(t)' /\ Closed(t)' /\ Marked(t)'
    BY <1>1, <2>1 DEF SampleInv, Held, Closed, Marked
  <2>3. /\ Read(t)' /\ MarkedByRound(t)' /\ ReadAgain(t)' /\ Written(t)' /\ Recent(t)'
        /\ AllMarked(t)'
    BY <1>2 DEF Read, MarkedByRound, ReadAgain, Written, Rolling, Recent, AllMarked, Pruning
  <2>4. QED
    BY <2>2, <2>3 DEF SampleInv
<1>7. QED
  BY <1>4, <1>5, <1>6 DEF RollupInv

LEMMA RollupStutter == RollupInv /\ UNCHANGED rollupVars => RollupInv'
<1> SUFFICES ASSUME RollupInv, UNCHANGED rollupVars PROVE RollupInv'
  OBVIOUS
<1>1. UNCHANGED <<clock, raw, rows, aggLast, maint, owed, tsFaults>>
  BY DEF rollupVars
<1>2. \A t : (Averaged(t)' <=> Averaged(t)) /\ (Outdated(t)' <=> Outdated(t))
  BY <1>1 DEF Averaged, Outdated
<1>3. Horizon' = Horizon /\ \A c : HorizonAt(c)' = HorizonAt(c)
  BY <1>1 DEF Horizon, HorizonAt
<1>4. RollupType' /\ RoundInv'
  BY <1>1, <1>2, <1>3 DEF RollupInv, RollupType, RoundInv, Rolling, Ticks, BucketStart
<1>5. ASSUME NEW t \in owed' PROVE SampleInv(t)'
  <2>1. t \in owed /\ SampleInv(t) /\ (Averaged(t)' <=> Averaged(t))
        /\ (Outdated(t)' <=> Outdated(t))
    BY <1>1, <1>2 DEF RollupInv
  <2>2. QED
    BY <1>1, <1>3, <2>1
    DEF SampleInv, Held, Closed, Marked, Read, MarkedByRound, ReadAgain, Written, Rolling,
        Recent, AllMarked, Pruning
<1>6. QED
  BY <1>4, <1>5 DEF RollupInv

\* In every reachable state a sample that is owed to the aggregate tier is in a row,
\* or in the raw tier where the round under way, or the next one, reads it.
THEOREM RollupInvariant == RollupSpec => []RollupInv
<1>1. RollupInv /\ RollupNext => RollupInv'
  BY TimeInv, WriteInv, ReadInv, WriteRowsInv, MarkInv, PruneRawInv, PruneAggInv,
     PruneSeriesInv, RoundFailsInv DEF RollupNext
<1>2. RollupInv /\ [RollupNext]_rollupVars => RollupInv'
  BY <1>1, RollupStutter
<1>3. QED
  BY <1>2, RollupInitInv, PTL DEF RollupSpec

\* A sample written before its bucket fell behind the horizon is never lost to the
\* aggregate tier, wherever rounds of maintenance fail.
THEOREM RollupLosesNothing == RollupSpec => []RollupComplete
<1>1. RollupInv => RollupComplete
  <2> SUFFICES ASSUME RollupInv, NEW t \in owed
               PROVE  \/ t \in raw /\ t >= aggLast
                      \/ \E i \in DOMAIN rows[Grid(t, Bucket)] : t \in rows[Grid(t, Bucket)][i]
                      \/ Grid(t, Bucket) < clock - AggKeep
    BY DEF RollupComplete
  <2>1. QED
    BY DEF RollupInv, SampleInv, Held, Averaged, Outdated
<1>2. QED
  BY <1>1, RollupInvariant, PTL
-----------------------------------------------------------------------------
(* Chunks of raw points *)

\* The words there may be, and the bytes of a word that are not zero.
Words == [1..Bytes -> {0, 1}]
Significant(x) == {i \in 1..Bytes : x[i] = 1}
FirstOf(x) == CHOOSE i \in Significant(x) : \A j \in Significant(x) : i <= j
LastOf(x) == CHOOSE i \in Significant(x) : \A j \in Significant(x) : j <= i

-----------------------------------------------------------------------------
\* A set of natural numbers that is not empty has a least member.
LEMMA LeastOne ==
  ASSUME NEW S, S \subseteq Nat, S # {}
  PROVE  \E m \in S : \A r \in S : m <= r
BY MinIsLeast

\* And a greatest one, if it is bounded.
LEMMA GreatestOne ==
  ASSUME NEW n \in Nat, NEW S, S \subseteq 0..n, S # {}
  PROVE  \E m \in S : \A r \in S : r <= m
BY MaxIsGreatest

-----------------------------------------------------------------------------
(* The code of one value *)

LEMMA XorOfWords ==
  ASSUME NEW v \in Words, NEW prev \in Words
  PROVE  /\ Xor(v, prev) \in Words
         /\ Xor(Xor(v, prev), prev) = v
         /\ Xor(v, prev) = Zero => v = prev
<1> DEFINE x == Xor(v, prev)
<1>1. x = [i \in 1..Bytes |-> IF v[i] = prev[i] THEN 0 ELSE 1]
  BY DEF Xor
<1>2. x \in Words
  BY <1>1 DEF Words
<1>3. \A i \in 1..Bytes : v[i] \in {0, 1} /\ prev[i] \in {0, 1}
  BY DEF Words
<1>4. ASSUME NEW i \in 1..Bytes PROVE (IF x[i] = prev[i] THEN 0 ELSE 1) = v[i]
  BY <1>1, <1>3
<1>5. Xor(x, prev) = [i \in 1..Bytes |-> v[i]]
  BY <1>4 DEF Xor
<1>6. v = [i \in 1..Bytes |-> v[i]] /\ prev = [i \in 1..Bytes |-> prev[i]]
  BY DEF Words
<1>7. ASSUME x = Zero PROVE v = prev
  <2>1. ASSUME NEW i \in 1..Bytes PROVE v[i] = prev[i]
    BY <1>1, <1>7 DEF Zero
  <2>2. QED
    BY <1>6, <2>1
<1>8. QED
  BY <1>2, <1>5, <1>6, <1>7

\* The bytes outside the first and the last significant one are zero.
LEMMA SignificantBytes ==
  ASSUME NEW x \in Words, x # Zero
  PROVE  /\ FirstOf(x) \in 1..Bytes /\ LastOf(x) \in 1..Bytes /\ FirstOf(x) <= LastOf(x)
         /\ \A i \in 1..Bytes : i \notin FirstOf(x)..LastOf(x) => x[i] = 0
<1> DEFINE S == Significant(x)
<1>0. Bytes \in Nat \ {0}
  BY ChunksAssumption DEF ChunksAssumption
<1>1. S \subseteq 0..Bytes /\ S \subseteq Nat /\ S \subseteq 1..Bytes
  BY <1>0 DEF Significant
<1>2. S # {}
  <2>1. SUFFICES ASSUME S = {} PROVE FALSE
    OBVIOUS
  <2>2. \A i \in 1..Bytes : x[i] = 0
    BY <2>1 DEF Words, Significant
  <2>3. x = [i \in 1..Bytes |-> 0]
    BY <2>2 DEF Words
  <2>4. QED
    BY <2>3 DEF Zero
<1>3. \A i \in 1..Bytes : x[i] = 0 \/ i \in S
  BY DEF Words, Significant
<1> HIDE DEF S
<1>4. \E m \in S : \A r \in S : m <= r
  BY <1>1, <1>2, LeastOne
<1>5. \E m \in S : \A r \in S : r <= m
  BY <1>0, <1>1, <1>2, GreatestOne
<1>6. FirstOf(x) \in S /\ \A r \in S : FirstOf(x) <= r
  BY <1>4 DEF FirstOf, S
<1>7. LastOf(x) \in S /\ \A r \in S : r <= LastOf(x)
  BY <1>5 DEF LastOf, S
<1>8. ASSUME NEW i \in 1..Bytes, i \notin FirstOf(x)..LastOf(x) PROVE x[i] = 0
  BY <1>1, <1>3, <1>6, <1>7, <1>8
<1>9. QED
  BY <1>1, <1>6, <1>7, <1>8

\* What AppendXOR writes.
LEMMA CodeOfValue ==
  ASSUME NEW v \in Words, NEW prev \in Words
  PROVE  LET x == Xor(v, prev)
             code == AppendXOR(v, prev)
             f == FirstOf(x)
             l == LastOf(x)
         IN  /\ code \in Seq(Nat) /\ Len(code) \in Nat \ {0}
             /\ x = Zero => Len(code) = 1 /\ code[1] = 0
             /\ x # Zero =>
                  /\ Len(code) = l - f + 4
                  /\ code[1] = 1 /\ code[2] = f - 1 /\ code[3] = l - f + 1
                  /\ \A i \in f..l : code[4 + i - f] = x[i]
<1> DEFINE x == Xor(v, prev)
           code == AppendXOR(v, prev)
           f == FirstOf(x)
           l == LastOf(x)
<1>1. code = IF x = Zero THEN <<0>> ELSE <<1, f - 1, l - f + 1>> \o SubSeq(x, f, l)
  BY DEF AppendXOR, FirstOf, LastOf, Significant
<1>2. x \in Words
  BY XorOfWords
<1>3. x # Zero => /\ f \in 1..Bytes /\ l \in 1..Bytes /\ f <= l
                  /\ \A i \in 1..Bytes : i \notin f..l => x[i] = 0
  BY <1>2, SignificantBytes
<1>4. Bytes \in Nat
  BY ChunksAssumption DEF ChunksAssumption
<1> HIDE DEF x, code, f, l
<1>5. CASE x = Zero
  BY <1>1, <1>5 DEF x, code, f, l
<1>6. CASE x # Zero
  <2> DEFINE head == <<1, f - 1, l - f + 1>>
             tail == SubSeq(x, f, l)
  <2>1. f \in Nat \ {0} /\ l \in Nat /\ f <= l /\ l <= Bytes
    BY <1>3, <1>4, <1>6
  <2>2. f - 1 \in Nat /\ l - f + 1 \in Nat
    BY <2>1
  <2>3. /\ head \in Seq(Nat) /\ Len(head) = 3
        /\ head[1] = 1 /\ head[2] = f - 1 /\ head[3] = l - f + 1
    BY <2>2
  <2>4. ASSUME NEW i \in f..l PROVE x[i] \in Nat
    <3>1. i \in 1..Bytes
      BY <1>4, <2>1
    <3>2. x[i] \in {0, 1}
      BY <1>2, <3>1 DEF Words
    <3>3. QED
      BY <3>2
  <2>5. f \in Int /\ l \in Int
    BY <2>1
  <2>6. /\ tail \in Seq(Nat)
        /\ Len(tail) = IF f <= l THEN l - f + 1 ELSE 0
        /\ \A i \in 1..(l - f + 1) : tail[i] = x[f + i - 1]
    BY <2>4, <2>5, SubSeqProperties
  <2>7. Len(tail) = l - f + 1
    BY <2>1, <2>6
  <2>8. code = head \o tail
    BY <1>1, <1>6
  <2> HIDE DEF head, tail
  <2>9. /\ code \in Seq(Nat) /\ Len(code) = 3 + (l - f + 1)
        /\ \A i \in 1..(3 + (l - f + 1)) : code[i] = IF i <= 3 THEN head[i] ELSE tail[i - 3]
    <3>1. /\ head \o tail \in Seq(Nat)
          /\ Len(head \o tail) = Len(head) + Len(tail)
          /\ \A i \in 1..(Len(head) + Len(tail)) :
               (head \o tail)[i] = IF i <= Len(head) THEN head[i] ELSE tail[i - Len(head)]
      BY <2>3, <2>6, ConcatProperties
    <3>2. QED
      BY <2>3, <2>7, <2>8, <3>1
  <2>10. code[1] = 1 /\ code[2] = f - 1 /\ code[3] = l - f + 1
    BY <2>1, <2>3, <2>9
  <2>11. ASSUME NEW i \in f..l PROVE code[4 + i - f] = x[i]
    <3>1. 4 + i - f \in 1..(3 + (l - f + 1)) /\ ~(4 + i - f <= 3)
      BY <2>1
    <3>2. code[4 + i - f] = tail[(4 + i - f) - 3]
      BY <2>9, <3>1
    <3>3. (4 + i - f) - 3 \in 1..(l - f + 1) /\ f + ((4 + i - f) - 3) - 1 = i
      BY <2>1
    <3>4. tail[(4 + i - f) - 3] = x[f + ((4 + i - f) - 3) - 1]
      BY <2>6, <3>3
    <3>5. QED
      BY <3>2, <3>3, <3>4
  <2>12. Len(code) = l - f + 4 /\ Len(code) \in Nat \ {0}
    BY <2>1, <2>9
  <2>13. QED
    BY <1>6, <2>9, <2>10, <2>11, <2>12 DEF x, code, f, l
<1>7. QED
  BY <1>5, <1>6

\* A value is read back from wherever its code stands, and the next one begins
\* where that code ends.
LEMMA ValueReadsBack ==
  ASSUME NEW v \in Words, NEW prev \in Words, NEW data, NEW pos \in Nat,
         \A i \in 1..Len(AppendXOR(v, prev)) : data[pos + i - 1] = AppendXOR(v, prev)[i]
  PROVE  ReadXOR(data, pos, prev) = [pos |-> pos + Len(AppendXOR(v, prev)), v |-> v]
<1> DEFINE x == Xor(v, prev)
           code == AppendXOR(v, prev)
           f == FirstOf(x)
           l == LastOf(x)
<1>1. /\ x \in Words /\ Xor(x, prev) = v /\ (x = Zero => v = prev)
  BY XorOfWords
<1>2. /\ Len(code) \in Nat \ {0}
      /\ x = Zero => Len(code) = 1 /\ code[1] = 0
      /\ x # Zero =>
           /\ Len(code) = l - f + 4
           /\ code[1] = 1 /\ code[2] = f - 1 /\ code[3] = l - f + 1
           /\ \A i \in f..l : code[4 + i - f] = x[i]
  BY CodeOfValue
<1>3. x # Zero => /\ f \in 1..Bytes /\ l \in 1..Bytes /\ f <= l
                  /\ \A i \in 1..Bytes : i \notin f..l => x[i] = 0
  BY <1>1, SignificantBytes
<1>4. \A i \in 1..Len(code) : data[pos + i - 1] = code[i]
  OBVIOUS
<1>5. Bytes \in Nat
  BY ChunksAssumption DEF ChunksAssumption
<1> HIDE DEF x, code, f, l
<1>6. data[pos] = code[1]
  <2>1. 1 \in 1..Len(code) /\ pos + 1 - 1 = pos
    BY <1>2
  <2>2. QED
    BY <1>4, <2>1
<1>7. CASE x = Zero
  BY <1>1, <1>2, <1>6, <1>7 DEF ReadXOR, code
<1>8. CASE x # Zero
  <2>1. f \in Nat \ {0} /\ l \in Nat /\ f <= l /\ l <= Bytes
    BY <1>3, <1>5, <1>8
  <2>2. data[pos + 1] = f - 1
    <3>1. 2 \in 1..Len(code) /\ pos + 2 - 1 = pos + 1
      BY <1>2, <1>8, <2>1
    <3>2. QED
      BY <1>2, <1>4, <1>8, <3>1
  <2>3. data[pos + 2] = l - f + 1
    <3>1. 3 \in 1..Len(code) /\ pos + 3 - 1 = pos + 2
      BY <1>2, <1>8, <2>1
    <3>2. QED
      BY <1>2, <1>4, <1>8, <3>1
  <2> DEFINE lead == f - 1
             sig == l - f + 1
             y == [i \in 1..Bytes |->
                     IF i \in (lead + 1)..(lead + sig) THEN data[pos + 2 + i - lead] ELSE 0]
  <2>4. (lead + 1)..(lead + sig) = f..l
    BY <2>1
  <2>5. ASSUME NEW i \in 1..Bytes PROVE y[i] = x[i]
    <3>1. CASE i \in f..l
      <4>1. 4 + i - f \in 1..Len(code) /\ pos + (4 + i - f) - 1 = pos + 2 + i - lead
        BY <1>2, <1>8, <2>1, <3>1
      <4>2. data[pos + (4 + i - f) - 1] = code[4 + i - f]
        BY <1>4, <4>1
      <4>3. code[4 + i - f] = x[i]
        BY <1>2, <1>8, <3>1
      <4>4. QED
        BY <2>4, <3>1, <4>1, <4>2, <4>3
    <3>2. CASE i \notin f..l
      BY <1>3, <1>8, <2>4, <3>2
    <3>3. QED
      BY <3>1, <3>2
  <2>6. y = x
    <3>1. x = [i \in 1..Bytes |-> x[i]]
      BY <1>1 DEF Words
    <3>2. y = [i \in 1..Bytes |-> y[i]]
      OBVIOUS
    <3> HIDE DEF y
    <3>3. QED
      BY <2>5, <3>1, <3>2
  <2>7. ReadXOR(data, pos, prev) = [pos |-> pos + 3 + sig, v |-> Xor(y, prev)]
    <3>1. data[pos] = 1
      BY <1>2, <1>6, <1>8
    <3>2. ReadXOR(data, pos, prev) =
            LET lead1 == data[pos + 1]
                sig1 == data[pos + 2]
                y1 == [i \in 1..Bytes |->
                         IF i \in (lead1 + 1)..(lead1 + sig1) THEN data[pos + 2 + i - lead1] ELSE 0]
            IN  [pos |-> pos + 3 + sig1, v |-> Xor(y1, prev)]
      BY <3>1 DEF ReadXOR
    <3>3. QED
      BY <2>2, <2>3, <3>2
  <2>8. pos + 3 + sig = pos + Len(code)
    BY <1>2, <1>8, <2>1
  <2> HIDE DEF y, sig, lead
  <2>9. QED
    BY <1>1, <2>6, <2>7, <2>8 DEF code
<1>9. QED
  BY <1>7, <1>8

-----------------------------------------------------------------------------
(* The code of a sequence of points *)

\* What holds of 1 and passes from each number to the next holds up to n.
LEMMA UpTo ==
  ASSUME NEW n \in Nat, NEW S, 1 \in S, \A k \in 1..(n - 1) : k \in S => k + 1 \in S
  PROVE  1..n \subseteq S
<1> DEFINE bad == (1..n) \ S
<1>1. SUFFICES ASSUME bad # {} PROVE FALSE
  OBVIOUS
<1>2. bad \subseteq Nat
  OBVIOUS
<1>3. PICK m \in bad : \A r \in bad : m <= r
  BY <1>1, <1>2, LeastOne
<1>4. m \in 1..n /\ m # 1 /\ m \notin S
  OBVIOUS
<1>5. m - 1 \in 1..(n - 1) /\ m - 1 \in 1..n /\ ~(m <= m - 1) /\ (m - 1) + 1 = m
  BY <1>4
<1>6. m - 1 \in S
  BY <1>3, <1>5
<1>7. QED
  BY <1>4, <1>5, <1>6

\* FlattenSeq puts each sequence after the ones before it.
Chain(seqs, f, n) == f = [i \in 1..n |-> IF i = 1 THEN seqs[i] ELSE f[i - 1] \o seqs[i]]

LEMMA ChainExists ==
  ASSUME NEW n \in Nat \ {0}, NEW seqs
  PROVE  \E f : Chain(seqs, f, n)
<1> DEFINE S == {k \in 1..n : \E f : Chain(seqs, f, k)}
<1>1. 1 \in S
  <2> DEFINE f == [i \in 1..1 |-> seqs[1]]
  <2>1. Chain(seqs, f, 1)
    BY DEF Chain
  <2>2. 1 \in 1..n
    OBVIOUS
  <2> HIDE DEF f
  <2>3. QED
    BY <2>1, <2>2
<1>2. ASSUME NEW k \in 1..(n - 1), k \in S PROVE k + 1 \in S
  <2>1. PICK f : Chain(seqs, f, k)
    BY <1>2
  <2> DEFINE g == [i \in 1..(k + 1) |-> IF i <= k THEN f[i] ELSE f[k] \o seqs[k + 1]]
             h == [i \in 1..(k + 1) |-> IF i = 1 THEN seqs[i] ELSE g[i - 1] \o seqs[i]]
  <2>2. \A i \in 1..k : f[i] = IF i = 1 THEN seqs[i] ELSE f[i - 1] \o seqs[i]
    BY <2>1 DEF Chain
  <2>3. ASSUME NEW i \in 1..(k + 1) PROVE g[i] = h[i]
    <3>1. CASE i = k + 1
      <4>1. i # 1 /\ i - 1 \in 1..(k + 1) /\ i - 1 = k /\ ~(i <= k)
        BY <3>1
      <4>2. g[i - 1] = f[k]
        BY <4>1
      <4>3. QED
        BY <3>1, <4>1, <4>2
    <3>2. CASE i # k + 1
      <4>1. i \in 1..k
        BY <3>2
      <4>2. g[i] = f[i]
        BY <4>1
      <4>3. CASE i = 1
        BY <2>2, <4>1, <4>2, <4>3
      <4>4. CASE i # 1
        <5>1. i - 1 \in 1..(k + 1) /\ i - 1 <= k
          BY <4>1, <4>4
        <5>2. g[i - 1] = f[i - 1]
          BY <5>1
        <5>3. QED
          BY <2>2, <4>1, <4>2, <4>4, <5>2
      <4>5. QED
        BY <4>3, <4>4
    <3>3. QED
      BY <3>1, <3>2
  <2>4. g = h
    BY <2>3
  <2>5. Chain(seqs, g, k + 1)
    BY <2>4 DEF Chain
  <2>6. k + 1 \in 1..n
    OBVIOUS
  <2> HIDE DEF g
  <2>7. QED
    BY <2>5, <2>6
<1> HIDE DEF S
<1>3. 1..n \subseteq S
  BY <1>1, <1>2, UpTo
<1>4. n \in 1..n
  OBVIOUS
<1>5. QED
  BY <1>3, <1>4 DEF S

\* The second of two sequences follows the first.
LEMMA ConcatPlaces ==
  ASSUME NEW S, NEW s \in Seq(S), NEW t \in Seq(S)
  PROVE  /\ s \o t \in Seq(S) /\ Len(s) \in Nat /\ Len(t) \in Nat
         /\ Len(s \o t) = Len(s) + Len(t)
         /\ \A k \in 1..Len(s) : (s \o t)[k] = s[k]
         /\ \A k \in 1..Len(t) : (s \o t)[Len(s) + k] = t[k]
<1>1. Len(s) \in Nat /\ Len(t) \in Nat
  BY LenProperties
<1>2. /\ s \o t \in Seq(S) /\ Len(s \o t) = Len(s) + Len(t)
      /\ \A k \in 1..(Len(s) + Len(t)) :
           (s \o t)[k] = IF k <= Len(s) THEN s[k] ELSE t[k - Len(s)]
  BY ConcatProperties
<1>3. ASSUME NEW k \in 1..Len(s) PROVE (s \o t)[k] = s[k]
  <2>1. k \in 1..(Len(s) + Len(t)) /\ k <= Len(s)
    BY <1>1
  <2>2. QED
    BY <1>2, <2>1
<1>4. ASSUME NEW k \in 1..Len(t) PROVE (s \o t)[Len(s) + k] = t[k]
  <2>1. /\ Len(s) + k \in 1..(Len(s) + Len(t)) /\ ~(Len(s) + k <= Len(s))
        /\ (Len(s) + k) - Len(s) = k
    BY <1>1
  <2>2. QED
    BY <1>2, <2>1
<1>5. QED
  BY <1>1, <1>2, <1>3, <1>4

LEMMA Within ==
  \A lo, len, k, top \in Nat : k # 0 /\ k <= len /\ lo + len <= top => lo + k \in 1..top
OBVIOUS

\* Where the sequences begin that FlattenSeq puts together.
Offsets(seqs, n, off) ==
  /\ off \in [0..n -> Nat] /\ off[0] = 0
  /\ \A i \in 1..n :
       /\ off[i] = off[i - 1] + Len(seqs[i]) /\ off[i] <= Len(FlattenSeq(seqs))
       /\ \A k \in 1..Len(seqs[i]) : FlattenSeq(seqs)[off[i - 1] + k] = seqs[i][k]

LEMMA FlattenPlaces ==
  ASSUME NEW n \in Nat, NEW seqs \in [1..n -> Seq(Nat)]
  PROVE  FlattenSeq(seqs) \in Seq(Nat) /\ \E off : Offsets(seqs, n, off)
<1>1. Len(seqs) = n
  OBVIOUS
<1>2. CASE n = 0
  <2>1. FlattenSeq(seqs) = seqs
    BY <1>1, <1>2 DEF FlattenSeq
  <2>2. seqs = <<>>
    BY <1>2
  <2>3. FlattenSeq(seqs) \in Seq(Nat)
    BY <2>1, <2>2
  <2> DEFINE off == [i \in 0..n |-> 0]
  <2>4. Offsets(seqs, n, off)
    BY <1>2 DEF Offsets
  <2>5. QED
    BY <2>3, <2>4
<1>3. CASE n # 0
  <2> DEFINE f == CHOOSE g : Chain(seqs, g, n)
  <2>1. FlattenSeq(seqs) = f[n]
    BY <1>1, <1>3 DEF FlattenSeq, Chain
  <2>2. Chain(seqs, f, n)
    BY <1>3, ChainExists
  <2> HIDE DEF f
  <2>3. \A i \in 1..n : f[i] = IF i = 1 THEN seqs[i] ELSE f[i - 1] \o seqs[i]
    BY <2>2 DEF Chain
  <2>4. \A i \in 1..n : seqs[i] \in Seq(Nat) /\ Len(seqs[i]) \in Nat
    BY LenProperties
  <2>5. f[1] = seqs[1] /\ 1 \in 1..n
    BY <1>3, <2>3
  <2>6. \A k \in 1..(n - 1) : f[k + 1] = f[k] \o seqs[k + 1] /\ k + 1 \in 1..n /\ k \in 1..n
    <3>1. ASSUME NEW k \in 1..(n - 1)
          PROVE  f[k + 1] = f[k] \o seqs[k + 1] /\ k + 1 \in 1..n /\ k \in 1..n
      <4>1. k \in 1..n /\ k + 1 \in 1..n /\ k + 1 # 1 /\ (k + 1) - 1 = k
        OBVIOUS
      <4>2. QED
        BY <2>3, <4>1
    <3>2. QED
      BY <3>1
  <2> DEFINE off == [i \in 0..n |-> IF i = 0 THEN 0 ELSE Len(f[i])]
             Placed(j) == /\ f[j] \in Seq(Nat)
                          /\ \A i \in 0..j : off[i] \in Nat /\ off[i] <= Len(f[j])
                          /\ \A i \in 1..j : /\ off[i] = off[i - 1] + Len(seqs[i])
                                             /\ \A k \in 1..Len(seqs[i]) :
                                                  f[j][off[i - 1] + k] = seqs[i][k]
             S == {j \in 1..n : Placed(j)}
  <2>7. off[0] = 0 /\ \A i \in 1..n : off[i] = Len(f[i])
    BY <1>3
  <2>15. off = [i \in 0..n |-> off[i]]
    OBVIOUS
  <2> HIDE DEF off
  <2>8. 1 \in S
    <3>1. f[1] \in Seq(Nat) /\ off[1] = Len(f[1]) /\ Len(f[1]) \in Nat /\ off[0] = 0
      BY <2>4, <2>5, <2>7
    <3>2. \A k \in 1..Len(f[1]) : off[0] + k = k
      BY <3>1
    <3>3. ASSUME NEW i \in 1..1
          PROVE  /\ off[i] = off[i - 1] + Len(seqs[i])
                 /\ \A k \in 1..Len(seqs[i]) : f[1][off[i - 1] + k] = seqs[i][k]
      <4>1. i = 1 /\ i - 1 = 0
        OBVIOUS
      <4>2. off[1] = off[0] + Len(seqs[1])
        BY <2>5, <3>1
      <4>3. QED
        BY <2>5, <3>2, <4>1, <4>2
    <3>4. ASSUME NEW i \in 0..1 PROVE off[i] \in Nat /\ off[i] <= Len(f[1])
      <4>1. i = 0 \/ i = 1
        OBVIOUS
      <4>2. QED
        BY <3>1, <4>1
    <3>5. QED
      BY <2>5, <3>1, <3>3, <3>4
  <2>9. ASSUME NEW j \in 1..(n - 1), j \in S PROVE j + 1 \in S
    <3>1. /\ f[j] \in Seq(Nat) /\ Len(f[j]) \in Nat
          /\ f[j + 1] = f[j] \o seqs[j + 1] /\ j \in 1..n /\ j + 1 \in 1..n
          /\ seqs[j + 1] \in Seq(Nat) /\ Len(seqs[j + 1]) \in Nat
      BY <2>4, <2>6, <2>9, LenProperties
    <3> DEFINE a == f[j]
               b == seqs[j + 1]
    <3>11. a \in Seq(Nat) /\ b \in Seq(Nat)
      BY <3>1
    <3> HIDE DEF a, b
    <3>12. /\ a \o b \in Seq(Nat) /\ Len(a) \in Nat /\ Len(b) \in Nat
           /\ Len(a \o b) = Len(a) + Len(b)
           /\ \A k \in 1..Len(a) : (a \o b)[k] = a[k]
           /\ \A k \in 1..Len(b) : (a \o b)[Len(a) + k] = b[k]
      BY <3>11, ConcatPlaces
    <3>13. f[j + 1] = a \o b
      BY <3>1 DEF a, b
    <3>2. /\ f[j + 1] \in Seq(Nat) /\ Len(f[j + 1]) = Len(a) + Len(b)
          /\ \A k \in 1..Len(a) : f[j + 1][k] = a[k]
          /\ \A k \in 1..Len(b) : f[j + 1][Len(a) + k] = b[k]
      BY <3>12, <3>13
    <3>3. off[j] = Len(a) /\ off[j + 1] = Len(a) + Len(b)
      BY <2>7, <3>1, <3>2 DEF a
    <3>4. /\ \A i \in 0..j : off[i] \in Nat /\ off[i] <= Len(a)
          /\ \A i \in 1..j : /\ off[i] = off[i - 1] + Len(seqs[i])
                             /\ \A k \in 1..Len(seqs[i]) : a[off[i - 1] + k] = seqs[i][k]
      BY <2>9 DEF a
    <3>5. ASSUME NEW i \in 0..(j + 1) PROVE off[i] \in Nat /\ off[i] <= Len(f[j + 1])
      <4>1. CASE i = j + 1
        BY <3>12, <3>2, <3>3, <4>1
      <4>2. CASE i # j + 1
        <5>1. i \in 0..j
          BY <4>2
        <5>2. off[i] \in Nat /\ off[i] <= Len(a)
          BY <3>4, <5>1
        <5>3. QED
          BY <3>12, <3>2, <5>2
      <4>3. QED
        BY <4>1, <4>2
    <3>6. ASSUME NEW i \in 1..j, NEW k \in 1..Len(seqs[i])
          PROVE  f[j + 1][off[i - 1] + k] = seqs[i][k]
      <4>1. i \in 1..n /\ i \in 0..j /\ i - 1 \in 0..j
        BY <3>1
      <4>2. /\ Len(seqs[i]) \in Nat /\ off[i - 1] \in Nat /\ off[i] <= Len(a)
            /\ off[i] = off[i - 1] + Len(seqs[i])
        BY <2>4, <3>4, <4>1
      <4>6. Len(a) \in Nat /\ k \in Nat \ {0} /\ k <= Len(seqs[i])
        BY <3>12, <4>2
      <4>3. off[i - 1] + k \in 1..Len(a)
        <5>1. off[i - 1] + Len(seqs[i]) <= Len(a)
          BY <4>2
        <5>2. QED
          BY <4>2, <4>6, <5>1, Within
      <4>4. f[j + 1][off[i - 1] + k] = a[off[i - 1] + k]
        BY <3>2, <4>3
      <4>5. QED
        BY <3>4, <4>4
    <3>7. ASSUME NEW k \in 1..Len(seqs[j + 1])
          PROVE  f[j + 1][off[j] + k] = seqs[j + 1][k]
      BY <3>2, <3>3 DEF b
    <3>8. ASSUME NEW i \in 1..(j + 1)
          PROVE  /\ off[i] = off[i - 1] + Len(seqs[i])
                 /\ \A k \in 1..Len(seqs[i]) : f[j + 1][off[i - 1] + k] = seqs[i][k]
      <4>1. CASE i = j + 1
        <5>1. i - 1 = j
          BY <4>1
        <5>2. off[j + 1] = off[j] + Len(seqs[j + 1])
          BY <3>3 DEF b
        <5>3. QED
          BY <3>7, <4>1, <5>1, <5>2
      <4>2. CASE i # j + 1
        <5>1. i \in 1..j
          BY <4>2
        <5>2. QED
          BY <3>4, <3>6, <5>1
      <4>3. QED
        BY <4>1, <4>2
    <3>9. Placed(j + 1)
      BY <3>2, <3>5, <3>8
    <3> HIDE DEF Placed
    <3>10. QED
      BY <3>1, <3>9
  <2> HIDE DEF S
  <2>10. 1..n \subseteq S
    BY <2>8, <2>9, UpTo
  <2>11. n \in 1..n
    BY <1>3
  <2>12. Placed(n)
    BY <2>10, <2>11 DEF S
  <2>13. off \in [0..n -> Nat]
    BY <2>12, <2>15
  <2>14. Offsets(seqs, n, off)
    BY <2>1, <2>7, <2>12, <2>13 DEF Offsets
  <2>16. QED
    BY <2>1, <2>12, <2>14
<1>4. QED
  BY <1>2, <1>3
\* The parts of the code of a chunk and their places.
Points == Seq([ts : Nat, v : Words])
Codes(pts) == [i \in 1..(Len(pts) - 1) |-> AppendXOR(pts[i + 1].v, pts[i].v)]

LEMMA FunctionIsSeq ==
  ASSUME NEW S, NEW n \in Nat, NEW f \in [1..n -> S]
  PROVE  f \in Seq(S) /\ Len(f) = n
OBVIOUS

LEMMA PointFields ==
  ASSUME NEW pts \in Points, pts # <<>>
  PROVE  /\ Len(pts) \in Nat \ {0} /\ pts = [i \in 1..Len(pts) |-> pts[i]]
         /\ \A i \in 1..Len(pts) :
              pts[i].ts \in Nat /\ pts[i].v \in Words /\ pts[i] = [ts |-> pts[i].ts, v |-> pts[i].v]
<1>1. Len(pts) \in Nat \ {0}
  BY EmptySeq DEF Points
<1>2. pts \in [1..Len(pts) -> [ts : Nat, v : Words]]
  BY LenProperties DEF Points
<1>3. ASSUME NEW i \in 1..Len(pts)
      PROVE  pts[i].ts \in Nat /\ pts[i].v \in Words /\ pts[i] = [ts |-> pts[i].ts, v |-> pts[i].v]
  <2>1. pts[i] \in [ts : Nat, v : Words]
    BY <1>2
  <2>2. QED
    BY <2>1
<1>4. QED
  BY <1>1, <1>2, <1>3

LEMMA CodesAreSeqs ==
  ASSUME NEW pts \in Points, pts # <<>>
  PROVE  Codes(pts) \in [1..(Len(pts) - 1) -> Seq(Nat)]
<1>1. ASSUME NEW i \in 1..(Len(pts) - 1) PROVE AppendXOR(pts[i + 1].v, pts[i].v) \in Seq(Nat)
  <2>1. i \in 1..Len(pts) /\ i + 1 \in 1..Len(pts)
    BY PointFields
  <2>2. pts[i].v \in Words /\ pts[i + 1].v \in Words
    BY <2>1, PointFields
  <2>3. QED
    BY <2>2, CodeOfValue
<1>2. QED
  BY <1>1 DEF Codes

LEMMA Layout ==
  ASSUME NEW pts \in Points, pts # <<>>
  PROVE  LET n == Len(pts)
             data == EncodeChunk(pts)
             rest == FlattenSeq(Codes(pts))
         IN  /\ data \in Seq(Int) /\ Len(data) = n + 1 + Bytes + Len(rest)
             /\ data[1] = encodeVersion /\ data[2] = pts[1].ts
             /\ \A i \in 1..(n - 1) : data[2 + i] = pts[i + 1].ts - pts[i].ts
             /\ \A i \in 1..Bytes : data[n + 1 + i] = pts[1].v[i]
             /\ \A k \in 1..Len(rest) : data[n + 1 + Bytes + k] = rest[k]
<1> DEFINE n == Len(pts)
           head == <<encodeVersion, pts[1].ts>>
           steps == [i \in 1..(n - 1) |-> pts[i + 1].ts - pts[i].ts]
           first == pts[1].v
           rest == FlattenSeq(Codes(pts))
<1>1. /\ n \in Nat \ {0}
      /\ \A i \in 1..n : pts[i].ts \in Nat /\ pts[i].v \in Words
  BY PointFields
<1>2. Bytes \in Nat
  BY ChunksAssumption DEF ChunksAssumption
<1>3. 1 \in 1..n
  BY <1>1
<1>4. /\ head \in Seq(Int) /\ Len(head) = 2 /\ head[1] = encodeVersion /\ head[2] = pts[1].ts
  BY <1>1, <1>3 DEF encodeVersion
<1>5. steps \in Seq(Int) /\ Len(steps) = n - 1
  <2>1. ASSUME NEW i \in 1..(n - 1) PROVE pts[i + 1].ts - pts[i].ts \in Int
    <3>1. i \in 1..n /\ i + 1 \in 1..n
      BY <1>1
    <3>2. pts[i].ts \in Nat /\ pts[i + 1].ts \in Nat
      BY <1>1, <3>1
    <3>3. QED
      BY <3>2
  <2>2. steps \in [1..(n - 1) -> Int] /\ n - 1 \in Nat
    BY <1>1, <2>1
  <2> HIDE DEF steps
  <2>3. QED
    BY <2>2, FunctionIsSeq
<1>6. first \in Seq(Int) /\ Len(first) = Bytes
  <2>1. first \in [1..Bytes -> Int]
    BY <1>1, <1>3 DEF Words
  <2>2. QED
    BY <1>2, <2>1, FunctionIsSeq
<1>7. rest \in Seq(Int)
  <2>1. Codes(pts) \in [1..(n - 1) -> Seq(Nat)] /\ n - 1 \in Nat
    BY <1>1, CodesAreSeqs
  <2>2. rest \in Seq(Nat)
    BY <2>1, FlattenPlaces
  <2>3. QED
    BY <2>2, SeqMonotonic
<1>8. EncodeChunk(pts) = ((head \o steps) \o first) \o rest
  <2>1. [i \in 1..(Len(pts) - 1) |-> AppendXOR(pts[i + 1].v, Previous(pts, i + 1))] = Codes(pts)
    <3>1. \A i \in 1..(Len(pts) - 1) : Previous(pts, i + 1) = pts[i].v
      BY <1>1 DEF Previous
    <3>2. QED
      BY <3>1 DEF Codes
  <2>2. QED
    BY <2>1 DEF EncodeChunk
<1>9. \A i \in 1..(n - 1) : steps[i] = pts[i + 1].ts - pts[i].ts
  OBVIOUS
<1> DEFINE one == head \o steps
           two == one \o first
           data == two \o rest
<1> HIDE DEF one, two, data
<1> HIDE DEF n, head, steps, first, rest
<1>10. /\ one \in Seq(Int) /\ Len(one) = n + 1
       /\ \A k \in 1..2 : one[k] = head[k]
       /\ \A k \in 1..(n - 1) : one[2 + k] = steps[k]
  <2>1. /\ one \in Seq(Int) /\ Len(one) = Len(head) + Len(steps)
        /\ \A k \in 1..Len(head) : one[k] = head[k]
        /\ \A k \in 1..Len(steps) : one[Len(head) + k] = steps[k]
    <3>1. one = head \o steps
      BY DEF one
    <3>2. head \in Seq(Int)
      BY <1>4, <1>5
    <3>3. steps \in Seq(Int)
      BY <1>4, <1>5
    <3>4. /\ (head \o steps) \in Seq(Int) /\ Len((head \o steps)) = Len(head) + Len(steps)
          /\ \A k \in 1..Len(head) : (head \o steps)[k] = head[k]
          /\ \A k \in 1..Len(steps) : (head \o steps)[Len(head) + k] = steps[k]
      BY <3>2, <3>3, ConcatPlaces
    <3>5. QED
      BY <3>1, <3>4, Zenon
  <2>2. Len(head) + Len(steps) = n + 1
    BY <1>1, <1>4, <1>5
  <2>3. QED
    BY <1>4, <1>5, <2>1, <2>2
<1>11. /\ two \in Seq(Int) /\ Len(two) = n + 1 + Bytes
       /\ \A k \in 1..(n + 1) : two[k] = one[k]
       /\ \A k \in 1..Bytes : two[n + 1 + k] = first[k]
  <2>1. /\ two \in Seq(Int) /\ Len(two) = Len(one) + Len(first)
        /\ \A k \in 1..Len(one) : two[k] = one[k]
        /\ \A k \in 1..Len(first) : two[Len(one) + k] = first[k]
    <3>1. two = one \o first
      BY DEF two
    <3>2. one \in Seq(Int)
      BY <1>6, <1>10
    <3>3. first \in Seq(Int)
      BY <1>6, <1>10
    <3>4. /\ (one \o first) \in Seq(Int) /\ Len((one \o first)) = Len(one) + Len(first)
          /\ \A k \in 1..Len(one) : (one \o first)[k] = one[k]
          /\ \A k \in 1..Len(first) : (one \o first)[Len(one) + k] = first[k]
      BY <3>2, <3>3, ConcatPlaces
    <3>5. QED
      BY <3>1, <3>4, Zenon
  <2>2. QED
    BY <1>6, <1>10, <2>1
<1>12. /\ data \in Seq(Int) /\ Len(data) = n + 1 + Bytes + Len(rest)
       /\ \A k \in 1..(n + 1 + Bytes) : data[k] = two[k]
       /\ \A k \in 1..Len(rest) : data[n + 1 + Bytes + k] = rest[k]
  <2>1. /\ data \in Seq(Int) /\ Len(data) = Len(two) + Len(rest)
        /\ \A k \in 1..Len(two) : data[k] = two[k]
        /\ \A k \in 1..Len(rest) : data[Len(two) + k] = rest[k]
    <3>1. data = two \o rest
      BY DEF data
    <3>2. two \in Seq(Int)
      BY <1>7, <1>11
    <3>3. rest \in Seq(Int)
      BY <1>7, <1>11
    <3>4. /\ (two \o rest) \in Seq(Int) /\ Len((two \o rest)) = Len(two) + Len(rest)
          /\ \A k \in 1..Len(two) : (two \o rest)[k] = two[k]
          /\ \A k \in 1..Len(rest) : (two \o rest)[Len(two) + k] = rest[k]
      BY <3>2, <3>3, ConcatPlaces
    <3>5. QED
      BY <3>1, <3>4, Zenon
  <2>2. QED
    BY <1>11, <2>1
<1>13. ASSUME NEW k \in 1..(n + 1) PROVE data[k] = one[k]
  <2>1. k \in 1..(n + 1 + Bytes)
    BY <1>1, <1>2
  <2>2. QED
    BY <1>11, <1>12, <2>1
<1>14. data[1] = encodeVersion /\ data[2] = pts[1].ts
  <2>1. 1 \in 1..(n + 1) /\ 2 \in 1..(n + 1) /\ 1 \in 1..2 /\ 2 \in 1..2
    BY <1>1
  <2>2. QED
    BY <1>4, <1>10, <1>13, <2>1
<1>15. ASSUME NEW i \in 1..(n - 1) PROVE data[2 + i] = pts[i + 1].ts - pts[i].ts
  <2>1. 2 + i \in 1..(n + 1)
    BY <1>1
  <2>2. QED
    BY <1>9, <1>10, <1>13, <2>1
<1>16. ASSUME NEW i \in 1..Bytes PROVE data[n + 1 + i] = pts[1].v[i]
  <2>1. n + 1 + i \in 1..(n + 1 + Bytes)
    BY <1>1, <1>2
  <2>2. QED
    BY <1>11, <1>12, <2>1 DEF first
<1>17. EncodeChunk(pts) = data
  BY <1>8 DEF data, two, one
<1>18. QED
  BY <1>12, <1>14, <1>15, <1>16, <1>17 DEF n, rest

\* The times and the values that DecodeChunk computes, one from the other.
Times(data, n, f) == f = [i \in 1..n |-> IF i = 1 THEN data[2] ELSE f[i - 1] + data[i + 1]]
Values(data, n, f) ==
  f = [i \in 1..n |->
         IF i = 1
         THEN [pos |-> n + 2 + Bytes, v |-> SubSeq(data, n + 2, n + 1 + Bytes)]
         ELSE ReadXOR(data, f[i - 1].pos, f[i - 1].v)]

LEMMA DecodedBy ==
  ASSUME NEW data, NEW n
  PROVE  DecodeChunk(data, n) =
           [i \in 1..n |-> [ts |-> (CHOOSE f : Times(data, n, f))[i],
                            v |-> (CHOOSE f : Values(data, n, f))[i].v]]
BY DEF DecodeChunk, Times, Values

\* The times are read back.
LEMMA TimesReadBack ==
  ASSUME NEW pts \in Points, pts # <<>>
  PROVE  \A i \in 1..Len(pts) :
           (CHOOSE f : Times(EncodeChunk(pts), Len(pts), f))[i] = pts[i].ts
<1> DEFINE n == Len(pts)
           data == EncodeChunk(pts)
           g == [i \in 1..n |-> pts[i].ts]
           h == [i \in 1..n |-> IF i = 1 THEN data[2] ELSE g[i - 1] + data[i + 1]]
           t == CHOOSE f : Times(data, n, f)
<1>1. /\ n \in Nat \ {0}
      /\ \A i \in 1..n : pts[i].ts \in Nat
  BY PointFields
<1>2. data[2] = pts[1].ts /\ \A i \in 1..(n - 1) : data[2 + i] = pts[i + 1].ts - pts[i].ts
  BY Layout
<1> HIDE DEF n, data
<1>3. ASSUME NEW i \in 1..n, i # 1 PROVE i - 1 \in 1..n /\ pts[i - 1].ts + data[i + 1] = pts[i].ts
  <2>1. i - 1 \in 1..(n - 1) /\ i - 1 \in 1..n /\ 2 + (i - 1) = i + 1 /\ (i - 1) + 1 = i
    BY <1>1, <1>3
  <2>2. data[i + 1] = pts[i].ts - pts[i - 1].ts
    BY <1>2, <2>1
  <2>3. pts[i].ts \in Nat /\ pts[i - 1].ts \in Nat
    BY <1>1, <2>1
  <2>4. QED
    BY <2>1, <2>2, <2>3
<1>4. ASSUME NEW i \in 1..n PROVE g[i] = h[i]
  BY <1>2, <1>3
<1>5. g = h
  BY <1>4
<1>6. Times(data, n, g)
  BY <1>5 DEF Times
<1> HIDE DEF g, h
<1>7. Times(data, n, t)
  BY <1>6
<1> HIDE DEF t
<1>8. \A i \in 1..n : t[i] = IF i = 1 THEN data[2] ELSE t[i - 1] + data[i + 1]
  BY <1>7 DEF Times
<1> DEFINE S == {i \in 1..n : t[i] = pts[i].ts}
<1>9. 1 \in S
  BY <1>1, <1>2, <1>8
<1>10. ASSUME NEW k \in 1..(n - 1), k \in S PROVE k + 1 \in S
  <2>1. k + 1 \in 1..n /\ k + 1 # 1 /\ (k + 1) - 1 = k
    BY <1>1
  <2>2. t[k + 1] = t[(k + 1) - 1] + data[(k + 1) + 1]
    BY <1>8, <2>1
  <2>3. pts[(k + 1) - 1].ts + data[(k + 1) + 1] = pts[k + 1].ts
    BY <1>3, <2>1
  <2>4. QED
    BY <1>10, <2>1, <2>2, <2>3
<1> HIDE DEF S
<1>11. 1..n \subseteq S
  BY <1>1, <1>9, <1>10, UpTo
<1>12. QED
  BY <1>11 DEF S, t, n, data

\* The values are read back.
LEMMA ValuesReadBack ==
  ASSUME NEW pts \in Points, pts # <<>>
  PROVE  \A i \in 1..Len(pts) :
           (CHOOSE f : Values(EncodeChunk(pts), Len(pts), f))[i].v = pts[i].v
<1> DEFINE n == Len(pts)
           data == EncodeChunk(pts)
           rest == FlattenSeq(Codes(pts))
           at == CHOOSE f : Values(data, n, f)
<1>1. /\ n \in Nat \ {0}
      /\ \A i \in 1..n : pts[i].v \in Words
  BY PointFields
<1>2. /\ data \in Seq(Int)
      /\ \A i \in 1..Bytes : data[n + 1 + i] = pts[1].v[i]
      /\ \A k \in 1..Len(rest) : data[n + 1 + Bytes + k] = rest[k]
  BY Layout
<1>3. Codes(pts) \in [1..(n - 1) -> Seq(Nat)] /\ n - 1 \in Nat
  BY <1>1, CodesAreSeqs
<1>4. rest \in Seq(Nat) /\ \E off : Offsets(Codes(pts), n - 1, off)
  BY <1>3, FlattenPlaces
<1>5. PICK off : Offsets(Codes(pts), n - 1, off)
  BY <1>4
<1>6. \A i \in 1..(n - 1) : Codes(pts)[i] = AppendXOR(pts[i + 1].v, pts[i].v)
  BY DEF Codes
<1>7. Bytes \in Nat
  BY ChunksAssumption DEF ChunksAssumption
<1> HIDE DEF n, data, rest
<1>8. SubSeq(data, n + 2, n + 1 + Bytes) = pts[1].v
  <2> DEFINE sub == SubSeq(data, n + 2, n + 1 + Bytes)
             bit == {0, 1}
  <2>1. pts[1].v \in [1..Bytes -> bit]
    <3>1. 1 \in 1..n
      BY <1>1
    <3>2. QED
      BY <1>1, <3>1 DEF Words
  <2>2. pts[1].v \in Seq(bit) /\ Len(pts[1].v) = Bytes
    BY <1>7, <2>1, FunctionIsSeq
  <2>3. ASSUME NEW i \in (n + 2)..(n + 1 + Bytes) PROVE data[i] \in bit
    <3>1. i - (n + 1) \in 1..Bytes /\ n + 1 + (i - (n + 1)) = i
      BY <1>1, <1>7
    <3>2. data[i] = pts[1].v[i - (n + 1)]
      BY <1>2, <3>1
    <3>3. QED
      BY <2>1, <3>1, <3>2
  <2>4. n + 2 \in Int /\ n + 1 + Bytes \in Int
    BY <1>1, <1>7
  <2>5. /\ sub \in Seq(bit)
        /\ Len(sub) = IF n + 2 <= n + 1 + Bytes THEN (n + 1 + Bytes) - (n + 2) + 1 ELSE 0
        /\ \A i \in 1..((n + 1 + Bytes) - (n + 2) + 1) : sub[i] = data[n + 2 + i - 1]
    BY <2>3, <2>4, SubSeqProperties
  <2> HIDE DEF sub
  <2>6. Len(sub) = Bytes /\ (n + 1 + Bytes) - (n + 2) + 1 = Bytes
    BY <1>1, <1>7, <2>5
  <2>7. ASSUME NEW i \in 1..Bytes PROVE sub[i] = pts[1].v[i]
    <3>1. i \in 1..((n + 1 + Bytes) - (n + 2) + 1) /\ n + 2 + i - 1 = n + 1 + i
      BY <1>1, <2>6
    <3>2. sub[i] = data[n + 1 + i]
      BY <2>5, <3>1
    <3>3. QED
      BY <1>2, <3>2
  <2>8. sub = pts[1].v
    BY <2>2, <2>5, <2>6, <2>7, SeqEqual
  <2>9. QED
    BY <2>8 DEF sub
<1> DEFINE place(i) == n + 2 + Bytes + off[i - 1]
           g == [i \in 1..n |-> [pos |-> place(i), v |-> pts[i].v]]
<1>9. off[0] = 0 /\ \A i \in 0..(n - 1) : off[i] \in Nat
  BY <1>5 DEF Offsets
<1>10. ASSUME NEW i \in 1..(n - 1)
       PROVE  ReadXOR(data, place(i), pts[i].v) = [pos |-> place(i + 1), v |-> pts[i + 1].v]
  <2> DEFINE code == AppendXOR(pts[i + 1].v, pts[i].v)
  <2>1. i \in 1..n /\ i + 1 \in 1..n /\ (i + 1) - 1 = i /\ i - 1 \in 0..(n - 1)
    BY <1>1
  <2>2. pts[i].v \in Words /\ pts[i + 1].v \in Words
    BY <1>1, <2>1
  <2>3. Codes(pts)[i] = code
    BY <1>6
  <2>4. code \in Seq(Nat) /\ Len(code) \in Nat
    BY <2>2, CodeOfValue
  <2> HIDE DEF code
  <2>5. /\ off[i] = off[i - 1] + Len(code) /\ off[i] <= Len(rest)
        /\ \A k \in 1..Len(code) : rest[off[i - 1] + k] = code[k]
    BY <1>5, <2>3 DEF Offsets, rest
  <2>6. Len(rest) \in Nat
    BY <1>4, LenProperties
  <2>7. off[i - 1] \in Nat /\ place(i) \in Nat
    BY <1>1, <1>7, <1>9, <2>1
  <2>8. ASSUME NEW k \in 1..Len(code) PROVE data[place(i) + k - 1] = code[k]
    <3>1. off[i - 1] + k \in 1..Len(rest)
      <4>1. off[i - 1] + Len(code) <= Len(rest) /\ k \in Nat /\ k # 0 /\ k <= Len(code)
        BY <2>4, <2>5
      <4>2. QED
        BY <2>4, <2>6, <2>7, <4>1, Within
    <3>2. data[n + 1 + Bytes + (off[i - 1] + k)] = rest[off[i - 1] + k]
      BY <1>2, <3>1
    <3>3. place(i) + k - 1 = n + 1 + Bytes + (off[i - 1] + k)
      BY <1>1, <1>7, <2>7
    <3>4. QED
      BY <2>5, <3>2, <3>3
  <2>9. place(i) + Len(code) = place(i + 1)
    BY <1>1, <1>7, <2>1, <2>4, <2>5, <2>7
  <2> HIDE DEF place
  <2>10. ReadXOR(data, place(i), pts[i].v) =
           [pos |-> place(i) + Len(code), v |-> pts[i + 1].v]
    BY <2>2, <2>7, <2>8, ValueReadsBack DEF code
  <2>11. QED
    BY <2>9, <2>10
<1>11. place(1) = n + 2 + Bytes
  BY <1>1, <1>7, <1>9
<1> HIDE DEF place
<1>12. ASSUME NEW i \in 1..n, i # 1
       PROVE  /\ i - 1 \in 1..n
              /\ ReadXOR(data, place(i - 1), pts[i - 1].v) = [pos |-> place(i), v |-> pts[i].v]
  <2>1. i - 1 \in 1..(n - 1) /\ i - 1 \in 1..n /\ (i - 1) + 1 = i
    BY <1>1, <1>12
  <2>2. QED
    BY <1>10, <2>1
<1> DEFINE h == [i \in 1..n |->
                   IF i = 1
                   THEN [pos |-> n + 2 + Bytes, v |-> SubSeq(data, n + 2, n + 1 + Bytes)]
                   ELSE ReadXOR(data, g[i - 1].pos, g[i - 1].v)]
<1>13. ASSUME NEW i \in 1..n PROVE g[i] = h[i]
  <2>1. CASE i = 1
    BY <1>8, <1>11, <2>1
  <2>2. CASE i # 1
    <3>1. g[i - 1].pos = place(i - 1) /\ g[i - 1].v = pts[i - 1].v
      BY <1>12, <2>2
    <3>2. QED
      BY <1>12, <2>2, <3>1
  <2>3. QED
    BY <2>1, <2>2
<1>14. g = h
  BY <1>13
<1>15. Values(data, n, g)
  BY <1>14 DEF Values
<1>16. \A i \in 1..n : g[i].pos = place(i) /\ g[i].v = pts[i].v
  OBVIOUS
<1> HIDE DEF g, h
<1>17. Values(data, n, at)
  BY <1>15
<1> HIDE DEF at
<1>18. \A i \in 1..n :
         at[i] = IF i = 1
                 THEN [pos |-> n + 2 + Bytes, v |-> SubSeq(data, n + 2, n + 1 + Bytes)]
                 ELSE ReadXOR(data, at[i - 1].pos, at[i - 1].v)
  BY <1>17 DEF Values
<1> DEFINE S == {i \in 1..n : at[i].pos = place(i) /\ at[i].v = pts[i].v}
<1>19. 1 \in S
  <2>1. 1 \in 1..n
    BY <1>1
  <2>2. at[1] = [pos |-> n + 2 + Bytes, v |-> SubSeq(data, n + 2, n + 1 + Bytes)]
    BY <1>18, <2>1
  <2>3. at[1].pos = n + 2 + Bytes /\ at[1].v = SubSeq(data, n + 2, n + 1 + Bytes)
    <3> DEFINE end == n + 2 + Bytes
               sub == SubSeq(data, n + 2, n + 1 + Bytes)
    <3>1. at[1] = [pos |-> end, v |-> sub]
      BY <2>2
    <3> HIDE DEF end, sub
    <3>2. at[1].pos = end /\ at[1].v = sub
      BY <3>1
    <3>3. QED
      BY <3>2 DEF end, sub
  <2>4. at[1].pos = place(1) /\ at[1].v = pts[1].v
    BY <1>8, <1>11, <2>3
  <2>5. QED
    BY <2>1, <2>4
<1>20. ASSUME NEW k \in 1..(n - 1), k \in S PROVE k + 1 \in S
  <2>1. k + 1 \in 1..n /\ k + 1 # 1 /\ (k + 1) - 1 = k
    BY <1>1
  <2>2. at[k + 1] = ReadXOR(data, at[k].pos, at[k].v)
    BY <1>18, <2>1
  <2>3. at[k + 1] = [pos |-> place(k + 1), v |-> pts[k + 1].v]
    BY <1>10, <1>20, <2>2
  <2>4. QED
    BY <2>1, <2>3
<1> HIDE DEF S
<1>21. 1..n \subseteq S
  BY <1>1, <1>19, <1>20, UpTo
<1>22. \A i \in 1..n : at[i].v = pts[i].v
  BY <1>21 DEF S
<1>23. QED
  BY <1>22 DEF at, n, data

\* Any points that are coded are decoded as they were: any number of them, with
\* any times and any values.
THEOREM ChunkDecodesAsEncoded ==
  ASSUME NEW pts \in Seq([ts : Nat, v : [1..Bytes -> {0, 1}]]), pts # <<>>
  PROVE  /\ ~BadChunk(EncodeChunk(pts), Len(pts))
         /\ DecodeChunk(EncodeChunk(pts), Len(pts)) = pts
<1>1. pts \in Points
  BY DEF Points, Words
<1> DEFINE n == Len(pts)
           data == EncodeChunk(pts)
<1>2. /\ n \in Nat \ {0} /\ pts = [i \in 1..n |-> pts[i]]
      /\ \A i \in 1..n : pts[i] = [ts |-> pts[i].ts, v |-> pts[i].v]
  BY <1>1, PointFields
<1>3. /\ data \in Seq(Int) /\ data[1] = encodeVersion
      /\ Len(data) = n + 1 + Bytes + Len(FlattenSeq(Codes(pts)))
  BY <1>1, Layout
<1>4. data # <<>>
  <2>1. Codes(pts) \in [1..(n - 1) -> Seq(Nat)] /\ n - 1 \in Nat
    BY <1>1, <1>2, CodesAreSeqs
  <2>2. FlattenSeq(Codes(pts)) \in Seq(Nat)
    BY <2>1, FlattenPlaces
  <2>3. Len(FlattenSeq(Codes(pts))) \in Nat /\ Bytes \in Nat
    BY <2>2, LenProperties, ChunksAssumption DEF ChunksAssumption
  <2> HIDE DEF data
  <2>4. Len(data) # 0
    BY <1>2, <1>3, <2>3
  <2>5. QED
    BY <2>4
<1>5. ASSUME NEW i \in 1..n
      PROVE  /\ (CHOOSE f : Times(data, n, f))[i] = pts[i].ts
             /\ (CHOOSE f : Values(data, n, f))[i].v = pts[i].v
  BY <1>1, TimesReadBack, ValuesReadBack
<1> HIDE DEF n, data
<1>6. DecodeChunk(data, n) = [i \in 1..n |-> pts[i]]
  BY <1>2, <1>5, DecodedBy
<1>7. ~BadChunk(data, n)
  BY <1>2, <1>3, <1>4 DEF BadChunk
<1>8. QED
  BY <1>2, <1>6, <1>7 DEF n, data

-----------------------------------------------------------------------------
(* The chunks of a series *)

PointRecord == [ts : Nat, v : Words]
Ascending(pts) == \A i, j \in 1..Len(pts) : i < j => pts[i].ts < pts[j].ts
TimesDiffer(S) == \A p, q \in S : p.ts = q.ts => p = q

\* What a row holds, when its data is not damaged.
Intact == {c \in chunks : ~BadChunk(c.data, c.points)}
PointsOf(c) == DecodeChunk(c.data, c.points)

\* An intact row has its points in the order of their times, between its start
\* and its end, and all in one window.
SoundRow(c) ==
  LET pts == PointsOf(c)
  IN  /\ pts \in Points /\ pts # <<>> /\ Len(pts) = c.points /\ Ascending(pts)
      /\ c.start = pts[1].ts /\ c.end = pts[Len(pts)].ts
      /\ WindowOf(c.start) = WindowOf(c.end)
OneRowPerWindow == \A c, d \in Intact : WindowOf(c.start) = WindowOf(d.start) => c = d

\* What the history says is held is found in a row, and nothing else is.
HeldIsFound ==
  \A t \in DOMAIN held : \E c \in Intact : \E i \in 1..c.points :
    PointsOf(c)[i].ts = t /\ PointsOf(c)[i].v = held[t]
FoundIsHeld ==
  \A c \in Intact : \A i \in 1..c.points :
    /\ PointsOf(c)[i].ts \in DOMAIN held
    /\ held[PointsOf(c)[i].ts] = PointsOf(c)[i].v

ChunkRow == [start : Nat, end : Nat, points : Nat, data : Seq(Int)]

ChunksInv ==
  /\ chunks \subseteq ChunkRow
  /\ IsFiniteSet(DOMAIN held) /\ DOMAIN held \subseteq Nat
  /\ \A c \in Intact : SoundRow(c)
  /\ OneRowPerWindow /\ HeldIsFound /\ FoundIsHeld

-----------------------------------------------------------------------------
\* The window of a time, and which times have the same.
LEMMA WindowFacts ==
  ASSUME NEW t \in Nat
  PROVE  /\ WindowOf(t) \in Nat /\ WindowOf(t) <= t /\ t < WindowOf(t) + Window
         /\ WindowOf(WindowOf(t)) = WindowOf(t)
<1>1. Window \in Nat \ {0}
  BY ChunksAssumption DEF ChunksAssumption
<1>2. \A u : WindowOf(u) = Grid(u, Window)
  BY DEF WindowOf, Grid
<1>3. t \in Int /\ t \in Nat
  OBVIOUS
<1>4. Grid(t, Window) <= t /\ t < Grid(t, Window) + Window
  BY <1>1, <1>3, GridFacts
<1>5. Grid(t, Window) \in Nat
  BY <1>1, <1>3, GridFacts, Zenon
<1>6. Grid(t, Window) % Window = 0
  BY <1>1, <1>3, GridFacts, Zenon
<1>7. Grid(t, Window) \in Int
  BY <1>5
<1>8. Grid(Grid(t, Window), Window) = Grid(t, Window)
  BY <1>1, <1>6, <1>7, GridFacts, Zenon
<1>9. QED
  BY <1>2, <1>4, <1>8, <1>5

LEMMA WindowMonotone ==
  ASSUME NEW t \in Nat, NEW u \in Nat, t <= u
  PROVE  WindowOf(t) <= WindowOf(u)
<1>1. Window \in Nat \ {0} /\ t \in Int /\ u \in Int
  BY ChunksAssumption DEF ChunksAssumption
<1>2. Grid(t, Window) <= Grid(u, Window)
  BY <1>1, GridMonotone
<1>3. QED
  BY <1>2 DEF WindowOf, Grid

\* A time is in a window just if it lies between its bounds.
LEMMA WindowBounds ==
  ASSUME NEW t \in Nat, NEW w \in Nat, WindowOf(w) = w
  PROVE  WindowOf(t) = w <=> w <= t /\ t <= w + Window - 1
<1>1. Window \in Nat \ {0}
  BY ChunksAssumption DEF ChunksAssumption
<1>2. /\ WindowOf(t) \in Nat /\ WindowOf(t) <= t /\ t < WindowOf(t) + Window
  BY WindowFacts
<1>3. ASSUME w <= t, t <= w + Window - 1 PROVE WindowOf(t) = w
  <2>1. Grid(t, Window) = WindowOf(t) /\ Grid(w, Window) = w
    BY DEF WindowOf, Grid
  <2>2. /\ t \div Window \in Int /\ w \div Window \in Int
        /\ WindowOf(t) = Window * (t \div Window) /\ w = Window * (w \div Window)
    <3>1. t \in Int /\ w \in Int
      OBVIOUS
    <3>2. t \div Window \in Int /\ Grid(t, Window) = Window * (t \div Window)
      BY <1>1, <3>1, GridFacts, Zenon
    <3>3. w \div Window \in Int /\ Grid(w, Window) = Window * (w \div Window)
      BY <1>1, <3>1, GridFacts, Zenon
    <3>4. QED
      BY <2>1, <3>2, <3>3, Zenon
  <2> DEFINE a == t \div Window
             b == w \div Window
  <2>3. a \in Int /\ b \in Int /\ WindowOf(t) = Window * a /\ w = Window * b
    BY <2>2
  <2> HIDE DEF a, b
  <2>4. w <= WindowOf(t)
    BY <1>3, <2>1, WindowMonotone
  <2>5. Window * a < Window * b + Window
    BY <1>1, <1>2, <1>3, <2>3
  <2>6. a <= b
    BY <1>1, <2>3, <2>5, Products
  <2>7. WindowOf(t) <= w
    BY <1>1, <2>3, <2>6, Products
  <2>8. QED
    BY <1>2, <2>4, <2>7
<1>4. QED
  BY <1>1, <1>2, <1>3

-----------------------------------------------------------------------------
(* The order of points *)

IsOrder(s, n, S) ==
  /\ s \in [1..n -> S]
  /\ \A i, j \in 1..n : i < j => s[i].ts < s[j].ts

\* A set of points that is not empty has an earliest one.
LEMMA EarliestPoint ==
  ASSUME NEW S, S \subseteq PointRecord, S # {}, TimesDiffer(S)
  PROVE  \E p \in S : \A q \in S \ {p} : p.ts < q.ts
<1> DEFINE T == {p.ts : p \in S}
<1>1. T \subseteq Nat /\ T # {}
  BY DEF PointRecord
<1>2. PICK t \in T : \A u \in T : t <= u
  BY <1>1, LeastOne
<1>3. PICK p \in S : p.ts = t
  OBVIOUS
<1>4. ASSUME NEW q \in S \ {p} PROVE p.ts < q.ts
  <2>1. p.ts # q.ts /\ p.ts \in Nat /\ q.ts \in Nat
    BY DEF TimesDiffer, PointRecord
  <2>2. p.ts <= q.ts
    BY <1>2, <1>3
  <2>3. QED
    BY <2>1, <2>2
<1>5. QED
  BY <1>4

\* A finite set of points of different times can be put in order.
LEMMA OrderExists ==
  ASSUME NEW P, P \subseteq PointRecord, P # {}, IsFiniteSet(P), TimesDiffer(P)
  PROVE  \E s : IsOrder(s, Cardinality(P), P)
<1> DEFINE n == Cardinality(P)
           Ordered(T) == \E s : IsOrder(s, Cardinality(T), T)
           S == {k \in 1..n : \A T \in SUBSET P : Cardinality(T) = k => Ordered(T)}
<1>1. n \in Nat /\ n # 0
  BY FS_CardinalityType, FS_EmptySet
<1>2. ASSUME NEW T \in SUBSET P, T # {}
      PROVE  \E p \in T : /\ \A q \in T \ {p} : p.ts < q.ts
                          /\ IsFiniteSet(T) /\ IsFiniteSet(T \ {p})
                          /\ Cardinality(T \ {p}) = Cardinality(T) - 1
  <2>1. T \subseteq PointRecord /\ TimesDiffer(T)
    BY DEF TimesDiffer
  <2>2. PICK p \in T : \A q \in T \ {p} : p.ts < q.ts
    BY <1>2, <2>1, EarliestPoint
  <2>3. IsFiniteSet(T)
    BY FS_Subset
  <2>4. IsFiniteSet(T \ {p}) /\ Cardinality(T \ {p}) = Cardinality(T) - 1
    BY <2>3, FS_RemoveElement
  <2>5. QED
    BY <2>2, <2>3, <2>4
<1>3. ASSUME NEW T \in SUBSET P, Cardinality(T) = 1 PROVE Ordered(T)
  <2>1. IsFiniteSet(T)
    BY FS_Subset
  <2>2. PICK p : T = {p}
    BY <1>3, <2>1, FS_Singleton
  <2> DEFINE s == [i \in 1..1 |-> p]
  <2>3. IsOrder(s, 1, T)
    BY <2>2 DEF IsOrder
  <2>4. QED
    BY <1>3, <2>3
<1>4. 1 \in S
  <2>1. 1 \in 1..n
    BY <1>1
  <2> HIDE DEF n, Ordered
  <2>2. QED
    BY <1>3, <2>1
<1>5. ASSUME NEW k \in 1..(n - 1), k \in S PROVE k + 1 \in S
  <2>1. ASSUME NEW T \in SUBSET P, Cardinality(T) = k + 1 PROVE Ordered(T)
    <3>1. k \in Nat
      BY <1>1
    <3>2. T # {}
      BY <2>1, <3>1, FS_EmptySet
    <3>3. PICK p \in T : /\ \A q \in T \ {p} : p.ts < q.ts
                         /\ Cardinality(T \ {p}) = Cardinality(T) - 1
      BY <1>2, <3>2
    <3>4. Cardinality(T \ {p}) = k /\ T \ {p} \in SUBSET P
      BY <2>1, <3>1, <3>3
    <3>5. PICK r : IsOrder(r, k, T \ {p})
      BY <1>5, <3>4
    <3> DEFINE s == [i \in 1..(k + 1) |-> IF i = 1 THEN p ELSE r[i - 1]]
    <3>6. ASSUME NEW i \in 1..(k + 1), i # 1
          PROVE  i - 1 \in 1..k /\ s[i] = r[i - 1] /\ s[i] \in T \ {p}
      <4>1. i - 1 \in 1..k
        BY <3>1, <3>6
      <4>2. QED
        BY <3>5, <3>6, <4>1 DEF IsOrder
    <3>7. 1 \in 1..(k + 1) /\ s[1] = p
      BY <3>1
    <3>8. s \in [1..(k + 1) -> T]
      BY <3>6
    <3> HIDE DEF s
    <3>9. ASSUME NEW i \in 1..(k + 1), NEW j \in 1..(k + 1), i < j PROVE s[i].ts < s[j].ts
      <4>1. j # 1
        BY <3>1, <3>9
      <4>2. CASE i = 1
        BY <3>3, <3>6, <3>7, <4>1, <4>2
      <4>3. CASE i # 1
        <5>1. /\ s[i] = r[i - 1] /\ s[j] = r[j - 1]
              /\ i - 1 \in 1..k /\ j - 1 \in 1..k /\ i - 1 < j - 1
          BY <3>1, <3>6, <3>9, <4>1, <4>3
        <5>2. r[i - 1].ts < r[j - 1].ts
          BY <3>5, <5>1 DEF IsOrder
        <5>3. QED
          BY <5>1, <5>2
      <4>4. QED
        BY <4>2, <4>3
    <3>10. QED
      BY <2>1, <3>8, <3>9 DEF IsOrder
  <2>2. k + 1 \in 1..n
    BY <1>1
  <2> HIDE DEF n, Ordered
  <2>3. QED
    BY <2>1, <2>2
<1> HIDE DEF S
<1>6. 1..n \subseteq S
  BY <1>1, <1>4, <1>5, UpTo
<1>7. n \in S
  BY <1>1, <1>6
<1>8. QED
  BY <1>7 DEF S

\* What MergedChunk sorts: all the points, each once.
LEMMA SortedPoints ==
  ASSUME NEW P, P \subseteq PointRecord, P # {}, IsFiniteSet(P), TimesDiffer(P)
  PROVE  LET s == InOrderOfTime(P)
         IN  /\ s \in Points /\ s # <<>> /\ Len(s) = Cardinality(P) /\ Ascending(s)
             /\ \A p \in P : \E i \in 1..Len(s) : s[i] = p
             /\ \A i \in 1..Len(s) : s[i] \in P
<1> DEFINE n == Cardinality(P)
           s == InOrderOfTime(P)
<1>1. n \in Nat /\ n # 0
  BY FS_CardinalityType, FS_EmptySet
<1>2. PICK r : IsOrder(r, n, P)
  BY OrderExists
<1>3. r \in [1..n -> P] /\ \A i, j \in DOMAIN r : i < j => r[i].ts < r[j].ts
  BY <1>2 DEF IsOrder
<1>4. s \in [1..n -> P] /\ \A i, j \in DOMAIN s : i < j => s[i].ts < s[j].ts
  BY <1>3 DEF InOrderOfTime
<1> HIDE DEF s
<1>5. s \in [1..n -> P] /\ \A i, j \in 1..n : i < j => s[i].ts < s[j].ts
  BY <1>4
<1>6. s \in Seq(P) /\ Len(s) = n
  BY <1>1, <1>5, FunctionIsSeq
<1>7. s \in Points
  <2>1. s \in [1..n -> PointRecord]
    BY <1>5
  <2>2. QED
    BY <1>1, <2>1, FunctionIsSeq DEF Points, PointRecord
<1>8. s # <<>>
  BY <1>1, <1>6
<1>9. s \in Injection(1..n, P)
  <2>1. ASSUME NEW i \in 1..n, NEW j \in 1..n, i < j PROVE s[i] # s[j]
    <3>1. s[i].ts \in Nat /\ s[i].ts < s[j].ts
      BY <1>5, <2>1 DEF PointRecord
    <3>2. QED
      BY <3>1
  <2>2. \A i, j \in 1..n : s[i] = s[j] => i = j
    BY <1>1, <2>1
  <2>3. QED
    BY <1>5, <2>2 DEF Injection, IsInjective
<1>10. s \in Surjection(1..n, P)
  <2>1. Cardinality(1..n) = n
    BY <1>1, FS_Interval
  <2> HIDE DEF n
  <2>2. QED
    BY <1>9, <2>1, FS_Injection DEF n
<1>11. \A p \in P : \E i \in 1..n : s[i] = p
  BY <1>10 DEF Surjection
<1>12. QED
  BY <1>1, <1>5, <1>6, <1>7, <1>8, <1>11 DEF Ascending, s

-----------------------------------------------------------------------------
(* Rows *)

\* Where the points of an intact row are.
LEMMA RowFacts ==
  ASSUME NEW c, SoundRow(c)
  PROVE  /\ c.points \in Nat \ {0}
         /\ c.start \in Nat /\ c.end \in Nat /\ c.start <= c.end
         /\ \A i \in 1..c.points :
              /\ PointsOf(c)[i] \in PointRecord
              /\ PointsOf(c)[i] = [ts |-> PointsOf(c)[i].ts, v |-> PointsOf(c)[i].v]
              /\ c.start <= PointsOf(c)[i].ts /\ PointsOf(c)[i].ts <= c.end
              /\ WindowOf(PointsOf(c)[i].ts) = WindowOf(c.start)
<1> DEFINE pts == PointsOf(c)
           n == c.points
<1>1. /\ pts \in Points /\ pts # <<>> /\ Len(pts) = n /\ Ascending(pts)
      /\ c.start = pts[1].ts /\ c.end = pts[n].ts /\ WindowOf(c.start) = WindowOf(c.end)
  BY DEF SoundRow
<1> HIDE DEF pts, n
<1>2. /\ n \in Nat \ {0}
      /\ \A i \in 1..n :
           pts[i].ts \in Nat /\ pts[i].v \in Words /\ pts[i] = [ts |-> pts[i].ts, v |-> pts[i].v]
  BY <1>1, PointFields
<1>3. 1 \in 1..n /\ n \in 1..n
  BY <1>2
<1>4. ASSUME NEW i \in 1..n PROVE c.start <= pts[i].ts /\ pts[i].ts <= c.end
  <2>1. i # 1 => pts[1].ts < pts[i].ts
    BY <1>1, <1>2, <1>3 DEF Ascending
  <2>2. i # n => pts[i].ts < pts[n].ts
    BY <1>1, <1>2, <1>3 DEF Ascending
  <2>3. pts[1].ts \in Nat /\ pts[i].ts \in Nat /\ pts[n].ts \in Nat
    BY <1>2, <1>3
  <2>4. QED
    BY <1>1, <2>1, <2>2, <2>3
<1>5. c.start \in Nat /\ c.end \in Nat
  BY <1>1, <1>2, <1>3
<1>6. ASSUME NEW i \in 1..n PROVE WindowOf(pts[i].ts) = WindowOf(c.start)
  <2>1. pts[i].ts \in Nat /\ c.start <= pts[i].ts /\ pts[i].ts <= c.end
    BY <1>2, <1>4
  <2>2. WindowOf(c.start) <= WindowOf(pts[i].ts) /\ WindowOf(pts[i].ts) <= WindowOf(c.end)
    BY <1>5, <2>1, WindowMonotone
  <2>3. WindowOf(c.start) \in Nat /\ WindowOf(pts[i].ts) \in Nat
    BY <1>5, <2>1, WindowFacts
  <2>4. QED
    BY <1>1, <2>2, <2>3
<1>7. c.start <= c.end
  <2>1. c.start <= pts[1].ts /\ pts[1].ts <= c.end /\ c.start = pts[1].ts
    BY <1>1, <1>3, <1>4
  <2>2. QED
    BY <2>1
<1>8. \A i \in 1..n : pts[i] \in PointRecord
  <2>1. pts \in [1..Len(pts) -> PointRecord]
    BY <1>1, LenProperties DEF Points, PointRecord
  <2>2. QED
    BY <1>1, <2>1
<1>9. ASSUME NEW i \in 1..n
      PROVE  /\ pts[i] \in PointRecord /\ pts[i] = [ts |-> pts[i].ts, v |-> pts[i].v]
             /\ c.start <= pts[i].ts /\ pts[i].ts <= c.end
             /\ WindowOf(pts[i].ts) = WindowOf(c.start)
  <2>1. pts[i] = [ts |-> pts[i].ts, v |-> pts[i].v]
    BY <1>2
  <2>2. QED
    BY <1>4, <1>6, <1>8, <2>1
<1>10. n \in Nat \ {0}
  BY <1>2
<1>11. QED
  BY <1>5, <1>7, <1>9, <1>10, Zenon DEF pts, n

\* What Write loads for a window: the intact row of this window.
LEMMA LoadedRows ==
  ASSUME \A c \in Intact : SoundRow(c), NEW w \in Nat, WindowOf(w) = w
  PROVE  LoadChunks(w, w + Window - 1) = {c \in Intact : WindowOf(c.start) = w}
<1>1. Window \in Nat \ {0}
  BY ChunksAssumption DEF ChunksAssumption
<1>2. w + Window - 1 \in Nat /\ WindowOf(w + Window - 1) = w
  <2>1. w + Window - 1 \in Nat /\ w <= w + Window - 1 /\ w + Window - 1 <= w + Window - 1
    BY <1>1
  <2> DEFINE z == w + Window - 1
  <2>2. z \in Nat /\ w <= z /\ z <= w + Window - 1
    BY <2>1
  <2> HIDE DEF z
  <2>3. WindowOf(z) = w
    BY <2>2, WindowBounds
  <2>4. QED
    BY <2>1, <2>3 DEF z
<1>3. ASSUME NEW c \in Intact
      PROVE  c.start <= w + Window - 1 /\ c.end >= w <=> WindowOf(c.start) = w
  <2>1. /\ c.start \in Nat /\ c.end \in Nat /\ c.start <= c.end
        /\ WindowOf(c.start) = WindowOf(c.end)
    BY RowFacts DEF SoundRow
  <2>2. ASSUME WindowOf(c.start) = w PROVE c.start <= w + Window - 1 /\ c.end >= w
    <3>1. c.start <= w + Window - 1 /\ w <= c.end
      BY <2>1, <2>2, WindowBounds
    <3>2. QED
      BY <2>1, <3>1
  <2>3. ASSUME c.start <= w + Window - 1, c.end >= w PROVE WindowOf(c.start) = w
    <3>1. WindowOf(c.start) <= w
      BY <1>2, <2>1, <2>3, WindowMonotone
    <3>2. w <= WindowOf(c.end)
      <4>1. w <= c.end
        BY <2>1, <2>3
      <4>2. QED
        BY <2>1, <4>1, WindowMonotone
    <3>3. WindowOf(c.start) \in Nat
      BY <2>1, WindowFacts
    <3>4. QED
      BY <2>1, <3>1, <3>2, <3>3
  <2>4. QED
    BY <2>2, <2>3
<1>4. QED
  BY <1>3 DEF LoadChunks, Overlapping, Intact

-----------------------------------------------------------------------------
(* A batch *)

\* The last point of its time in a batch.
LastAt(b, i) == \A k \in 1..Len(b) : b[k].ts = b[i].ts => k <= i

LEMMA BatchPoints ==
  ASSUME NEW b \in Batches
  PROVE  /\ Len(b) \in Nat
         /\ \A i \in 1..Len(b) :
              b[i] \in PointRecord /\ b[i].ts \in Nat /\ WindowOf(b[i].ts) \in Nat
<1>1. b \in Seq([ts : Moment, v : Word]) /\ Moment \subseteq Nat /\ Word \subseteq Words
  BY ChunksAssumption DEF ChunksAssumption, Words
<1>2. Len(b) \in Nat /\ b \in [1..Len(b) -> [ts : Moment, v : Word]]
  BY <1>1, LenProperties
<1>3. ASSUME NEW i \in 1..Len(b) PROVE b[i] \in PointRecord /\ b[i].ts \in Nat
  <2>1. b[i] \in [ts : Moment, v : Word]
    BY <1>2
  <2>2. b[i] \in PointRecord
    BY <1>1, <2>1 DEF PointRecord
  <2>3. QED
    BY <2>2 DEF PointRecord
<1>4. QED
  BY <1>2, <1>3, WindowFacts

LEMMA LastOfTime ==
  ASSUME NEW b \in Batches, NEW i \in 1..Len(b)
  PROVE  \E j \in 1..Len(b) : b[j].ts = b[i].ts /\ LastAt(b, j)
<1> DEFINE T == {k \in 1..Len(b) : b[k].ts = b[i].ts}
<1>1. Len(b) \in Nat
  BY BatchPoints
<1>2. T \subseteq 0..Len(b) /\ T # {}
  BY <1>1
<1>3. PICK j \in T : \A r \in T : r <= j
  BY <1>1, <1>2, GreatestOne
<1>4. QED
  BY <1>3 DEF LastAt

\* What the history says after the batch.
LEMMA HeldAfterBatch ==
  ASSUME NEW b \in Batches, WriteBatch(b)
  PROVE  /\ DOMAIN held' = DOMAIN held \cup {b[i].ts : i \in 1..Len(b)}
         /\ \A j \in 1..Len(b) : LastAt(b, j) => held'[b[j].ts] = b[j].v
         /\ \A t \in DOMAIN held : (\A i \in 1..Len(b) : b[i].ts # t) => held'[t] = held[t]
<1> DEFINE last(t) == CHOOSE i \in 1..Len(b) :
                        b[i].ts = t /\ \A j \in (i + 1)..Len(b) : b[j].ts # t
           D == DOMAIN held \cup {b[i].ts : i \in 1..Len(b)}
<1>1. held' = [t \in D |-> IF \E i \in 1..Len(b) : b[i].ts = t THEN b[last(t)].v ELSE held[t]]
  BY DEF WriteBatch
<1>2. Len(b) \in Nat
  BY BatchPoints
<1>3. ASSUME NEW j \in 1..Len(b), LastAt(b, j) PROVE last(b[j].ts) = j
  <2>1. \A k \in (j + 1)..Len(b) : b[k].ts # b[j].ts
    BY <1>2, <1>3 DEF LastAt
  <2>2. ASSUME NEW i \in 1..Len(b), b[i].ts = b[j].ts,
               \A k \in (i + 1)..Len(b) : b[k].ts # b[j].ts
        PROVE  i = j
    <3>1. i <= j
      BY <1>3, <2>2 DEF LastAt
    <3>2. ~(j \in (i + 1)..Len(b))
      BY <2>2
    <3>3. QED
      BY <1>2, <3>1, <3>2
  <2>3. QED
    BY <2>1, <2>2
<1> HIDE DEF last
<1>4. ASSUME NEW j \in 1..Len(b), LastAt(b, j) PROVE held'[b[j].ts] = b[j].v
  <2>1. b[j].ts \in D
    OBVIOUS
  <2>2. QED
    BY <1>1, <1>3, <1>4, <2>1
<1>5. ASSUME NEW t \in DOMAIN held, \A i \in 1..Len(b) : b[i].ts # t PROVE held'[t] = held[t]
  <2>1. t \in D
    OBVIOUS
  <2>2. QED
    BY <1>1, <1>5, <2>1
<1>6. DOMAIN held' = D
  BY <1>1
<1>7. QED
  BY <1>4, <1>5, <1>6

\* What a window holds after a batch: points it has held whose time the batch does
\* not name, and the last one of each time in the batch.
LEMMA MergedPoint ==
  ASSUME ChunksInv, NEW b \in Batches, NEW w \in GroupWindows(b), NEW p
  PROVE  p \in Merged(b, w) <=>
           \/ /\ \E c \in Intact : \E i \in 1..c.points :
                   WindowOf(c.start) = w /\ p = PointsOf(c)[i]
              /\ \A k \in 1..Len(b) : b[k].ts # p.ts
           \/ \E j \in 1..Len(b) : LastAt(b, j) /\ WindowOf(b[j].ts) = w /\ p = b[j]
<1> DEFINE loaded == LoadChunks(w, w + Window - 1)
           old == UNION {ToSet(DecodeChunk(c.data, c.points)) : c \in loaded}
           new == {i \in 1..Len(b) : WindowOf(b[i].ts) = w}
<1>1. \A c \in Intact : SoundRow(c)
  BY DEF ChunksInv
<1>2. w \in Nat /\ WindowOf(w) = w
  <2>1. PICK i \in 1..Len(b) : w = WindowOf(b[i].ts)
    BY DEF GroupWindows
  <2>2. b[i].ts \in Nat
    BY BatchPoints
  <2>3. QED
    BY <2>1, <2>2, WindowFacts
<1>3. loaded = {c \in Intact : WindowOf(c.start) = w}
  BY <1>1, <1>2, LoadedRows
<1> HIDE DEF loaded
<1>4. p \in Merged(b, w) <=>
        \/ p \in old /\ \A i \in new : b[i].ts # p.ts
        \/ \E j \in new : p = b[j] /\ \A k \in new : b[k].ts = b[j].ts => k <= j
  BY DEF Merged, loaded
<1>5. ASSUME NEW c \in loaded
      PROVE  p \in ToSet(DecodeChunk(c.data, c.points)) <=>
               \E i \in 1..c.points : p = PointsOf(c)[i]
  <2> DEFINE pts == PointsOf(c)
  <2>1. SoundRow(c)
    BY <1>1, <1>3
  <2>2. pts \in Points /\ Len(pts) = c.points
    BY <2>1 DEF SoundRow
  <2>3. DecodeChunk(c.data, c.points) = pts
    BY DEF PointsOf
  <2> HIDE DEF pts
  <2>4. DOMAIN pts = 1..c.points
    BY <2>2, LenProperties DEF Points
  <2>5. p \in ToSet(pts) <=> \E i \in 1..c.points : p = pts[i]
    BY <2>4 DEF ToSet
  <2>6. QED
    BY <2>3, <2>5 DEF pts
<1>6. p \in old <=> \E c \in loaded : \E i \in 1..c.points : p = PointsOf(c)[i]
  BY <1>5
<1> HIDE DEF old
<1>7. p \in old => WindowOf(p.ts) = w
  <2>1. ASSUME NEW c \in loaded, NEW i \in 1..c.points, p = PointsOf(c)[i] PROVE WindowOf(p.ts) = w
    BY <1>1, <1>3, <2>1, RowFacts
  <2>2. QED
    BY <1>6, <2>1
<1>8. p \in old => ((\A i \in new : b[i].ts # p.ts) <=> \A k \in 1..Len(b) : b[k].ts # p.ts)
  BY <1>7
<1>9. ASSUME NEW j \in new
      PROVE  (\A k \in new : b[k].ts = b[j].ts => k <= j) <=> LastAt(b, j)
  BY DEF LastAt
<1>10. p \in Merged(b, w) <=>
         \/ p \in old /\ \A k \in 1..Len(b) : b[k].ts # p.ts
         \/ \E j \in new : p = b[j] /\ LastAt(b, j)
  BY <1>4, <1>8, <1>9
<1>11. QED
  BY <1>3, <1>6, <1>10

\* The image of the indices of a batch is finite.
LEMMA TimesFinite ==
  ASSUME NEW b \in Batches
  PROVE  /\ IsFiniteSet({b[i].ts : i \in 1..Len(b)})
         /\ {b[i].ts : i \in 1..Len(b)} \subseteq Nat
<1> DEFINE n == Len(b)
           T == {b[i].ts : i \in 1..n}
           f == [i \in 1..n |-> b[i].ts]
<1>1. n \in Nat /\ \A i \in 1..n : b[i].ts \in Nat
  BY BatchPoints
<1>2. f \in Surjection(1..n, T)
  BY DEF Surjection
<1>3. IsFiniteSet(1..n)
  BY <1>1, FS_Interval
<1> HIDE DEF f
<1>4. IsFiniteSet(T)
  BY <1>2, <1>3, FS_Surjection
<1>5. QED
  BY <1>1, <1>4

\* The points of a window after a batch are those of this window that the history
\* names afterwards.
LEMMA MergedFacts ==
  ASSUME ChunksInv, NEW b \in Batches, WriteBatch(b), NEW w \in GroupWindows(b)
  PROVE  LET M == Merged(b, w)
         IN  /\ M \subseteq PointRecord /\ M # {} /\ IsFiniteSet(M) /\ TimesDiffer(M)
             /\ \A p \in M : /\ WindowOf(p.ts) = w
                             /\ p.ts \in DOMAIN held' /\ held'[p.ts] = p.v
             /\ \A t \in DOMAIN held' : WindowOf(t) = w => \E p \in M : p.ts = t
<1> DEFINE M == Merged(b, w)
           D == {b[i].ts : i \in 1..Len(b)}
           fromRow(p) ==
             /\ \E c \in Intact : \E i \in 1..c.points :
                  WindowOf(c.start) = w /\ p = PointsOf(c)[i]
             /\ \A k \in 1..Len(b) : b[k].ts # p.ts
           fromBatch(p) == \E j \in 1..Len(b) : LastAt(b, j) /\ WindowOf(b[j].ts) = w /\ p = b[j]
<1>1. \A p : p \in M <=> fromRow(p) \/ fromBatch(p)
  BY MergedPoint
<1> HIDE DEF M
<1>2. /\ DOMAIN held' = DOMAIN held \cup D
      /\ \A j \in 1..Len(b) : LastAt(b, j) => held'[b[j].ts] = b[j].v
      /\ \A t \in DOMAIN held : (\A i \in 1..Len(b) : b[i].ts # t) => held'[t] = held[t]
  BY HeldAfterBatch
<1>3. ASSUME NEW p, fromRow(p)
      PROVE  /\ p \in PointRecord /\ WindowOf(p.ts) = w
             /\ p.ts \in DOMAIN held' /\ held'[p.ts] = p.v
  <2>1. PICK c \in Intact : \E i \in 1..c.points : WindowOf(c.start) = w /\ p = PointsOf(c)[i]
    BY <1>3
  <2>2. PICK i \in 1..c.points : WindowOf(c.start) = w /\ p = PointsOf(c)[i]
    BY <2>1
  <2>3. SoundRow(c)
    BY DEF ChunksInv
  <2>4. p \in PointRecord /\ WindowOf(p.ts) = w
    BY <2>2, <2>3, RowFacts
  <2>5. p.ts \in DOMAIN held /\ held[p.ts] = p.v
    BY <2>2 DEF ChunksInv, FoundIsHeld
  <2>6. \A k \in 1..Len(b) : b[k].ts # p.ts
    BY <1>3
  <2>7. QED
    BY <1>2, <2>4, <2>5, <2>6
<1>4. ASSUME NEW p, fromBatch(p)
      PROVE  /\ p \in PointRecord /\ WindowOf(p.ts) = w
             /\ p.ts \in DOMAIN held' /\ held'[p.ts] = p.v
  <2>1. PICK j \in 1..Len(b) : LastAt(b, j) /\ WindowOf(b[j].ts) = w /\ p = b[j]
    BY <1>4
  <2>2. p \in PointRecord
    BY <2>1, BatchPoints
  <2>3. p.ts \in D
    BY <2>1
  <2>4. QED
    BY <1>2, <2>1, <2>2, <2>3
<1> HIDE DEF fromRow, fromBatch
<1>5. \A p \in M : /\ p \in PointRecord /\ WindowOf(p.ts) = w
                   /\ p.ts \in DOMAIN held' /\ held'[p.ts] = p.v
  BY <1>1, <1>3, <1>4
<1>6. ASSUME NEW t \in DOMAIN held', WindowOf(t) = w PROVE \E p \in M : p.ts = t
  <2>1. CASE t \in D
    <3>1. PICK i \in 1..Len(b) : b[i].ts = t
      BY <2>1
    <3>2. PICK j \in 1..Len(b) : b[j].ts = t /\ LastAt(b, j)
      BY <3>1, LastOfTime
    <3>3. fromBatch(b[j])
      BY <1>6, <3>2 DEF fromBatch
    <3>4. QED
      BY <1>1, <3>2, <3>3
  <2>2. CASE t \notin D
    <3>1. t \in DOMAIN held
      BY <1>2, <1>6, <2>2
    <3>2. PICK c \in Intact : \E i \in 1..c.points : PointsOf(c)[i].ts = t
      BY <3>1 DEF ChunksInv, HeldIsFound
    <3>3. PICK i \in 1..c.points : PointsOf(c)[i].ts = t
      BY <3>2
    <3>4. SoundRow(c)
      BY DEF ChunksInv
    <3>5. WindowOf(c.start) = w
      BY <1>6, <3>3, <3>4, RowFacts
    <3>6. fromRow(PointsOf(c)[i])
      BY <2>2, <3>3, <3>5 DEF fromRow
    <3>7. QED
      BY <1>1, <3>3, <3>6
  <2>3. QED
    BY <2>1, <2>2
<1>7. M # {}
  <2>1. PICK i \in 1..Len(b) : w = WindowOf(b[i].ts)
    BY DEF GroupWindows
  <2>2. b[i].ts \in DOMAIN held'
    BY <1>2
  <2>3. QED
    BY <1>6, <2>1, <2>2
<1>8. TimesDiffer(M)
  <2>1. ASSUME NEW p \in M, NEW q \in M, p.ts = q.ts PROVE p = q
    <3>1. p \in PointRecord /\ q \in PointRecord /\ p.v = q.v
      BY <1>5, <2>1
    <3>2. p = [ts |-> p.ts, v |-> p.v] /\ q = [ts |-> q.ts, v |-> q.v]
      BY <3>1 DEF PointRecord
    <3>3. QED
      BY <2>1, <3>1, <3>2
  <2>2. QED
    BY <2>1 DEF TimesDiffer
<1>9. IsFiniteSet(M)
  <2> DEFINE f == [p \in M |-> p.ts]
  <2>1. f \in Injection(M, DOMAIN held')
    <3>1. f \in [M -> DOMAIN held']
      BY <1>5
    <3>2. \A p, q \in M : f[p] = f[q] => p = q
      BY <1>8 DEF TimesDiffer
    <3>3. QED
      BY <3>1, <3>2 DEF Injection, IsInjective
  <2>2. IsFiniteSet(DOMAIN held')
    <3>1. IsFiniteSet(D) /\ IsFiniteSet(DOMAIN held)
      BY TimesFinite DEF ChunksInv
    <3> HIDE DEF D
    <3>2. IsFiniteSet(DOMAIN held \cup D)
      BY <3>1, FS_Union
    <3>3. QED
      BY <1>2, <3>2
  <2> HIDE DEF f
  <2>3. QED
    BY <2>1, <2>2, FS_Injection
<1>10. QED
  BY <1>5, <1>6, <1>7, <1>8, <1>9 DEF M

\* The row that a window gets holds just these points.
LEMMA MergedRow ==
  ASSUME NEW P, P \subseteq PointRecord, P # {}, IsFiniteSet(P), TimesDiffer(P),
         NEW w, \A p \in P : WindowOf(p.ts) = w
  PROVE  LET c == MergedChunk(P)
         IN  /\ c \in ChunkRow /\ ~BadChunk(c.data, c.points)
             /\ SoundRow(c) /\ WindowOf(c.start) = w
             /\ \A i \in 1..c.points : PointsOf(c)[i] \in P
             /\ \A p \in P : \E i \in 1..c.points : PointsOf(c)[i] = p
<1> DEFINE s == InOrderOfTime(P)
           n == Len(s)
           code == EncodeChunk(s)
           c == MergedChunk(P)
<1>1. /\ s \in Points /\ s # <<>> /\ Ascending(s)
      /\ \A p \in P : \E i \in 1..n : s[i] = p
      /\ \A i \in 1..n : s[i] \in P
  BY SortedPoints
<1>2. c = [start |-> s[1].ts, end |-> s[n].ts, points |-> n, data |-> code]
  BY DEF MergedChunk
<1> HIDE DEF c, s
<1>3. ~BadChunk(code, n) /\ DecodeChunk(code, n) = s
  BY <1>1, ChunkDecodesAsEncoded DEF Points, Words
<1>4. code \in Seq(Int)
  BY <1>1, Layout
<1> HIDE DEF code, n
<1>5. c.start = s[1].ts /\ c.end = s[n].ts /\ c.points = n /\ c.data = code
  BY <1>2
<1>6. PointsOf(c) = s /\ ~BadChunk(c.data, c.points)
  BY <1>3, <1>5 DEF PointsOf
<1>7. n \in Nat \ {0}
  BY <1>1, PointFields DEF n
<1>8. 1 \in 1..n /\ n \in 1..n
  BY <1>7
<1>9. WindowOf(c.start) = w /\ WindowOf(c.end) = w
  BY <1>1, <1>5, <1>8
<1>10. Len(s) = n
  BY DEF n
<1>11. SoundRow(c)
  BY <1>1, <1>5, <1>6, <1>9, <1>10 DEF SoundRow
<1>12. c \in ChunkRow
  <2>1. s[1].ts \in Nat /\ s[n].ts \in Nat
    BY <1>1, <1>8, <1>10, PointFields
  <2>2. QED
    BY <1>2, <1>7, <1>4, <2>1 DEF ChunkRow
<1>13. QED
  BY <1>1, <1>5, <1>6, <1>9, <1>11, <1>12 DEF c

-----------------------------------------------------------------------------
(* The steps *)

LEMMA ChunksInitInv == ChunksInit => ChunksInv
<1> SUFFICES ASSUME ChunksInit PROVE ChunksInv
  OBVIOUS
<1>1. Intact = {} /\ DOMAIN held = {}
  BY DEF ChunksInit, Intact
<1>2. IsFiniteSet(DOMAIN held)
  BY <1>1, FS_EmptySet
<1>3. QED
  BY <1>1, <1>2 DEF ChunksInit, ChunksInv, OneRowPerWindow, HeldIsFound, FoundIsHeld

\* The row of a window that the batch names is the merged one, and the others stay.
LEMMA IntactAfterBatch ==
  ASSUME ChunksInv, NEW b \in Batches, WriteBatch(b)
  PROVE  /\ \A c : c \in Intact' <=>
              \/ c \in Intact /\ WindowOf(c.start) \notin GroupWindows(b)
              \/ \E w \in GroupWindows(b) : c = MergedChunk(Merged(b, w))
         /\ chunks' \subseteq ChunkRow
<1> DEFINE G == GroupWindows(b)
           row(w) == MergedChunk(Merged(b, w))
           gone == UNION {LoadChunks(w, w + Window - 1) : w \in G}
<1>1. chunks' = (chunks \ gone) \cup {row(w) : w \in G}
  BY DEF WriteBatch
<1>2. \A w \in G : row(w) \in ChunkRow /\ ~BadChunk(row(w).data, row(w).points)
  <2> SUFFICES ASSUME NEW w \in G
               PROVE  row(w) \in ChunkRow /\ ~BadChunk(row(w).data, row(w).points)
    OBVIOUS
  <2> DEFINE M == Merged(b, w)
  <2>1. /\ M \subseteq PointRecord /\ M # {} /\ IsFiniteSet(M) /\ TimesDiffer(M)
        /\ \A p \in M : WindowOf(p.ts) = w
    BY MergedFacts
  <2> HIDE DEF M
  <2>2. /\ MergedChunk(M) \in ChunkRow
        /\ ~BadChunk(MergedChunk(M).data, MergedChunk(M).points)
    BY <2>1, MergedRow
  <2>3. QED
    BY <2>2 DEF M
<1>3. \A w \in G : LoadChunks(w, w + Window - 1) = {c \in Intact : WindowOf(c.start) = w}
  <2> SUFFICES ASSUME NEW w \in G
               PROVE  LoadChunks(w, w + Window - 1) = {c \in Intact : WindowOf(c.start) = w}
    OBVIOUS
  <2>1. PICK i \in 1..Len(b) : w = WindowOf(b[i].ts)
    BY DEF GroupWindows
  <2>2. b[i].ts \in Nat
    BY BatchPoints
  <2>3. w \in Nat /\ WindowOf(w) = w
    BY <2>1, <2>2, WindowFacts
  <2>4. \A c \in Intact : SoundRow(c)
    BY DEF ChunksInv
  <2>5. QED
    BY <2>3, <2>4, LoadedRows
<1> HIDE DEF G, row
<1>4. \A c : c \in gone <=> c \in Intact /\ WindowOf(c.start) \in G
  BY <1>3
<1> HIDE DEF gone
<1>5. Intact' = {c \in chunks' : ~BadChunk(c.data, c.points)}
  BY DEF Intact
<1>6. \A c : c \in Intact' <=>
        \/ c \in Intact /\ WindowOf(c.start) \notin G
        \/ \E w \in G : c = row(w)
  BY <1>1, <1>2, <1>4, <1>5 DEF Intact
<1>7. chunks' \subseteq ChunkRow
  BY <1>1, <1>2 DEF ChunksInv
<1>8. QED
  BY <1>6, <1>7 DEF G, row

LEMMA WriteBatchInv ==
  ASSUME ChunksInv, NEW b \in Batches, WriteBatch(b)
  PROVE  ChunksInv'
<1> DEFINE G == GroupWindows(b)
           row(w) == MergedChunk(Merged(b, w))
           D == {b[i].ts : i \in 1..Len(b)}
<1>1. /\ DOMAIN held' = DOMAIN held \cup D
      /\ \A t \in DOMAIN held : (\A i \in 1..Len(b) : b[i].ts # t) => held'[t] = held[t]
  BY HeldAfterBatch
<1>2. /\ \A c : c \in Intact' <=>
           (c \in Intact /\ WindowOf(c.start) \notin G) \/ \E w \in G : c = row(w)
      /\ chunks' \subseteq ChunkRow
  BY IntactAfterBatch
<1>3. ASSUME NEW w \in G
      PROVE  /\ SoundRow(row(w)) /\ WindowOf(row(w).start) = w
             /\ \A i \in 1..row(w).points :
                  LET p == PointsOf(row(w))[i]
                  IN  p.ts \in DOMAIN held' /\ held'[p.ts] = p.v
             /\ \A t \in DOMAIN held' : WindowOf(t) = w =>
                  \E i \in 1..row(w).points :
                    PointsOf(row(w))[i].ts = t /\ PointsOf(row(w))[i].v = held'[t]
  <2> DEFINE M == Merged(b, w)
             c == MergedChunk(M)
  <2>1. /\ M \subseteq PointRecord /\ M # {} /\ IsFiniteSet(M) /\ TimesDiffer(M)
        /\ \A p \in M : WindowOf(p.ts) = w /\ p.ts \in DOMAIN held' /\ held'[p.ts] = p.v
        /\ \A t \in DOMAIN held' : WindowOf(t) = w => \E p \in M : p.ts = t
    BY MergedFacts
  <2> HIDE DEF M
  <2>2. /\ SoundRow(c) /\ WindowOf(c.start) = w
        /\ \A i \in 1..c.points : PointsOf(c)[i] \in M
        /\ \A p \in M : \E i \in 1..c.points : PointsOf(c)[i] = p
    BY <2>1, MergedRow
  <2> HIDE DEF c
  <2>3. \A i \in 1..c.points :
          PointsOf(c)[i].ts \in DOMAIN held' /\ held'[PointsOf(c)[i].ts] = PointsOf(c)[i].v
    BY <2>1, <2>2
  <2>4. ASSUME NEW t \in DOMAIN held', WindowOf(t) = w
        PROVE  \E i \in 1..c.points : PointsOf(c)[i].ts = t /\ PointsOf(c)[i].v = held'[t]
    <3>1. PICK p \in M : p.ts = t
      BY <2>1, <2>4
    <3>2. PICK i \in 1..c.points : PointsOf(c)[i] = p
      BY <2>2
    <3>3. held'[t] = p.v
      BY <2>1, <3>1
    <3>4. QED
      BY <3>1, <3>2, <3>3
  <2>5. row(w) = c
    BY DEF c, M
  <2> HIDE DEF row
  <2>6. QED
    BY <2>2, <2>3, <2>4, <2>5
<1> HIDE DEF row
<1>4. \A c \in Intact : SoundRow(c)
  BY DEF ChunksInv
<1>5. \A i \in 1..Len(b) : WindowOf(b[i].ts) \in G
  BY DEF GroupWindows
<1> HIDE DEF G
<1>6. IsFiniteSet(DOMAIN held') /\ DOMAIN held' \subseteq Nat
  <2>1. IsFiniteSet(D) /\ D \subseteq Nat
    BY TimesFinite
  <2>2. IsFiniteSet(DOMAIN held) /\ DOMAIN held \subseteq Nat
    BY DEF ChunksInv
  <2> HIDE DEF D
  <2>3. QED
    BY <1>1, <2>1, <2>2, FS_Union
<1>7. ASSUME NEW c \in Intact' PROVE SoundRow(c)
  BY <1>2, <1>3, <1>4
<1>8. ASSUME NEW c \in Intact', NEW d \in Intact', WindowOf(c.start) = WindowOf(d.start)
      PROVE  c = d
  <2>1. CASE WindowOf(c.start) \in G
    <3>1. PICK w \in G : c = row(w)
      BY <1>2, <2>1
    <3>2. PICK u \in G : d = row(u)
      BY <1>2, <1>8, <2>1
    <3>3. QED
      BY <1>3, <1>8, <3>1, <3>2
  <2>2. CASE WindowOf(c.start) \notin G
    <3>1. c \in Intact /\ d \in Intact
      BY <1>2, <1>3, <1>8, <2>2
    <3>2. QED
      BY <1>8, <3>1 DEF ChunksInv, OneRowPerWindow
  <2>3. QED
    BY <2>1, <2>2
<1>9. ASSUME NEW t \in DOMAIN held'
      PROVE  \E c \in Intact' : \E i \in 1..c.points :
               PointsOf(c)[i].ts = t /\ PointsOf(c)[i].v = held'[t]
  <2>1. CASE WindowOf(t) \in G
    <3>1. row(WindowOf(t)) \in Intact'
      BY <1>2, <2>1
    <3>2. QED
      BY <1>3, <2>1, <3>1
  <2>2. CASE WindowOf(t) \notin G
    <3>1. \A i \in 1..Len(b) : b[i].ts # t
      BY <1>5, <2>2
    <3>2. t \in DOMAIN held /\ held'[t] = held[t]
      BY <1>1, <3>1
    <3>3. PICK c \in Intact :
            \E i \in 1..c.points : PointsOf(c)[i].ts = t /\ PointsOf(c)[i].v = held[t]
      BY <3>2 DEF ChunksInv, HeldIsFound
    <3>4. PICK i \in 1..c.points : PointsOf(c)[i].ts = t /\ PointsOf(c)[i].v = held[t]
      BY <3>3
    <3>5. WindowOf(c.start) = WindowOf(t)
      BY <1>4, <3>4, RowFacts
    <3>6. c \in Intact'
      BY <1>2, <2>2, <3>5
    <3>7. QED
      BY <3>2, <3>4, <3>6
  <2>3. QED
    BY <2>1, <2>2
<1>10. ASSUME NEW c \in Intact', NEW i \in 1..c.points
       PROVE  /\ PointsOf(c)[i].ts \in DOMAIN held'
              /\ held'[PointsOf(c)[i].ts] = PointsOf(c)[i].v
  <2>1. CASE \E w \in G : c = row(w)
    BY <1>3, <2>1
  <2>2. CASE c \in Intact /\ WindowOf(c.start) \notin G
    <3> DEFINE t == PointsOf(c)[i].ts
    <3>1. t \in DOMAIN held /\ held[t] = PointsOf(c)[i].v
      BY <2>2 DEF ChunksInv, FoundIsHeld
    <3>2. WindowOf(t) = WindowOf(c.start)
      BY <1>4, <2>2, RowFacts
    <3>3. \A k \in 1..Len(b) : b[k].ts # t
      BY <1>5, <2>2, <3>2
    <3> HIDE DEF t
    <3>4. t \in DOMAIN held' /\ held'[t] = held[t]
      BY <1>1, <3>1, <3>3
    <3>5. QED
      BY <3>1, <3>4 DEF t
  <2>3. QED
    BY <1>2, <2>1, <2>2
<1>11. \A c : SoundRow(c)' <=> SoundRow(c)
  BY DEF SoundRow
<1>12. QED
  BY <1>2, <1>6, <1>7, <1>8, <1>9, <1>10, <1>11
  DEF ChunksInv, OneRowPerWindow, HeldIsFound, FoundIsHeld

LEMMA DamageInv ==
  ASSUME ChunksInv, NEW c \in chunks, Damage(c)
  PROVE  ChunksInv'
<1> DEFINE bad == [c EXCEPT !.data = <<>>]
<1>1. /\ ~BadChunk(c.data, c.points) /\ chunks' = (chunks \ {c}) \cup {bad}
      /\ held' = [t \in {u \in DOMAIN held : u \notin c.start..c.end} |-> held[t]]
  BY DEF Damage
<1>2. c \in Intact /\ SoundRow(c)
  BY <1>1 DEF Intact, ChunksInv
<1>3. bad \in ChunkRow /\ BadChunk(bad.data, bad.points)
  <2>1. c \in ChunkRow /\ <<>> \in Seq(Int)
    BY DEF ChunksInv
  <2>2. bad = [start |-> c.start, end |-> c.end, points |-> c.points, data |-> <<>>]
    BY <2>1 DEF ChunkRow
  <2>3. bad \in ChunkRow
    BY <2>1, <2>2 DEF ChunkRow
  <2>4. bad.data = <<>>
    BY <2>2
  <2> HIDE DEF bad
  <2>5. QED
    BY <2>3, <2>4 DEF BadChunk
<1> HIDE DEF bad
<1>4. Intact' = {d \in chunks' : ~BadChunk(d.data, d.points)}
  BY DEF Intact
<1>5. Intact' = Intact \ {c}
  BY <1>1, <1>3, <1>4 DEF Intact
<1>6. DOMAIN held' = {u \in DOMAIN held : u \notin c.start..c.end}
  BY <1>1
<1>7. \A t \in DOMAIN held' : t \in DOMAIN held /\ held'[t] = held[t]
  BY <1>1
<1>8. /\ c.start \in Nat /\ c.end \in Nat /\ WindowOf(c.start) = WindowOf(c.end)
      /\ \A i \in 1..c.points :
           PointsOf(c)[i].ts \in Nat /\ c.start <= PointsOf(c)[i].ts /\ PointsOf(c)[i].ts <= c.end
  BY <1>2, RowFacts DEF SoundRow, PointRecord
<1>9. chunks' \subseteq ChunkRow /\ IsFiniteSet(DOMAIN held') /\ DOMAIN held' \subseteq Nat
  BY <1>1, <1>3, <1>6, FS_Subset DEF ChunksInv
<1>10. \A d \in Intact' : SoundRow(d)
  BY <1>5 DEF ChunksInv
<1>11. \A d, e \in Intact' : WindowOf(d.start) = WindowOf(e.start) => d = e
  BY <1>5 DEF ChunksInv, OneRowPerWindow
<1>12. ASSUME NEW t \in DOMAIN held'
       PROVE  \E d \in Intact' : \E i \in 1..d.points :
                PointsOf(d)[i].ts = t /\ PointsOf(d)[i].v = held'[t]
  <2>1. PICK d \in Intact :
          \E i \in 1..d.points : PointsOf(d)[i].ts = t /\ PointsOf(d)[i].v = held[t]
    BY <1>7 DEF ChunksInv, HeldIsFound
  <2>2. PICK i \in 1..d.points : PointsOf(d)[i].ts = t /\ PointsOf(d)[i].v = held[t]
    BY <2>1
  <2>3. d # c
    <3>1. SUFFICES ASSUME d = c PROVE t \in c.start..c.end
      BY <1>6
    <3>2. t \in Nat /\ c.start <= t /\ t <= c.end
      BY <1>8, <2>2, <3>1
    <3>3. QED
      BY <1>8, <3>2
  <2>4. QED
    BY <1>5, <1>7, <2>2, <2>3
<1>13. ASSUME NEW d \in Intact', NEW i \in 1..d.points
       PROVE  /\ PointsOf(d)[i].ts \in DOMAIN held'
              /\ held'[PointsOf(d)[i].ts] = PointsOf(d)[i].v
  <2> DEFINE t == PointsOf(d)[i].ts
  <2>1. d \in Intact /\ d # c /\ SoundRow(d)
    BY <1>5, <1>10
  <2>2. t \in DOMAIN held /\ held[t] = PointsOf(d)[i].v
    BY <2>1 DEF ChunksInv, FoundIsHeld
  <2>3. t \in Nat /\ WindowOf(t) = WindowOf(d.start)
    BY <2>1, RowFacts DEF PointRecord
  <2>4. WindowOf(t) # WindowOf(c.start)
    BY <1>2, <2>1, <2>3 DEF ChunksInv, OneRowPerWindow
  <2> HIDE DEF t
  <2>5. t \notin c.start..c.end
    <3>1. SUFFICES ASSUME t \in c.start..c.end PROVE FALSE
      OBVIOUS
    <3>2. c.start <= t /\ t <= c.end
      BY <1>8, <3>1
    <3>3. WindowOf(c.start) <= WindowOf(t) /\ WindowOf(t) <= WindowOf(c.end)
      BY <1>8, <2>3, <3>2, WindowMonotone
    <3>4. WindowOf(t) \in Nat /\ WindowOf(c.start) \in Nat
      BY <1>8, <2>3, WindowFacts
    <3>5. QED
      BY <1>8, <2>4, <3>3, <3>4
  <2>6. t \in DOMAIN held' /\ held'[t] = held[t]
    BY <1>6, <1>7, <2>2, <2>5
  <2>7. QED
    BY <2>2, <2>6 DEF t
<1>14. \A d : SoundRow(d)' <=> SoundRow(d)
  BY DEF SoundRow
<1>15. QED
  BY <1>9, <1>10, <1>11, <1>12, <1>13, <1>14
  DEF ChunksInv, OneRowPerWindow, HeldIsFound, FoundIsHeld

LEMMA ChunksStepInv == ChunksInv /\ [ChunksNext]_chunksVars => ChunksInv'
<1> SUFFICES ASSUME ChunksInv, [ChunksNext]_chunksVars PROVE ChunksInv'
  OBVIOUS
<1>1. CASE \E b \in Batches : WriteBatch(b)
  BY <1>1, WriteBatchInv
<1>2. CASE \E c \in chunks : Damage(c)
  BY <1>2, DamageInv
<1>3. CASE UNCHANGED chunksVars
  BY <1>3 DEF chunksVars, ChunksInv, Intact, SoundRow, OneRowPerWindow, HeldIsFound, FoundIsHeld
<1>4. QED
  BY <1>1, <1>2, <1>3 DEF ChunksNext

ChunksSpec == ChunksInit /\ [][ChunksNext]_chunksVars

\* In every reachable state the intact rows hold what the history says, each in a
\* window of its own and in the order of their times.
THEOREM ChunksInvariant == ChunksSpec => []ChunksInv
<1>1. QED
  BY ChunksInitInv, ChunksStepInv, PTL DEF ChunksSpec

\* A query of any range finds each point of it once and with the value that was
\* written last, for any batches, windows, orders and damages.
THEOREM ChunksStoreAsWritten == ChunksSpec => []StoredAsWritten
<1>1. ChunksInv => StoredAsWritten
  <2> SUFFICES ASSUME ChunksInv, NEW start \in Moment, NEW end \in Moment
               PROVE  LET found == ReadPoints(start, end)
                          times == {t \in DOMAIN held : t \in start..end}
                      IN  /\ Cardinality(found) = Cardinality(times)
                          /\ \A r \in found :
                               LET p == DecodeChunk(r[1].data, r[1].points)[r[2]]
                               IN  p.ts \in times /\ p.v = held[p.ts]
    BY DEF StoredAsWritten
  <2> DEFINE found == ReadPoints(start, end)
             times == {t \in DOMAIN held : t \in start..end}
             loaded == LoadChunks(start, end)
             time(r) == PointsOf(r[1])[r[2]].ts
             f == [r \in found |-> time(r)]
  <2>1. start \in Nat /\ end \in Nat
    BY ChunksAssumption DEF ChunksAssumption
  <2>2. \A c : c \in loaded <=> c \in Intact /\ c.start <= end /\ c.end >= start
    BY DEF LoadChunks, Overlapping, Intact
  <2>3. \A r : r \in found <=>
          \E c \in loaded : \E i \in 1..c.points : r = <<c, i>> /\ time(r) \in start..end
    BY DEF ReadPoints, PointsOf
  <2> HIDE DEF loaded, found
  <2>4. ASSUME NEW r \in found
        PROVE  /\ r = <<r[1], r[2]>> /\ r[1] \in Intact /\ r[2] \in 1..r[1].points
               /\ time(r) \in times /\ PointsOf(r[1])[r[2]].v = held[time(r)]
    <3>1. PICK c \in loaded : \E i \in 1..c.points : r = <<c, i>> /\ time(r) \in start..end
      BY <2>3
    <3>2. PICK i \in 1..c.points : r = <<c, i>> /\ time(r) \in start..end
      BY <3>1
    <3>3. r[1] = c /\ r[2] = i /\ c \in Intact
      BY <2>2, <3>2
    <3>4. time(r) \in DOMAIN held /\ PointsOf(r[1])[r[2]].v = held[time(r)]
      BY <3>3 DEF ChunksInv, FoundIsHeld
    <3>5. QED
      BY <3>2, <3>3, <3>4
  <2>5. ASSUME NEW r \in found, NEW q \in found, time(r) = time(q) PROVE r = q
    <3>1. SoundRow(r[1]) /\ SoundRow(q[1])
      BY <2>4 DEF ChunksInv
    <3>2. WindowOf(r[1].start) = WindowOf(time(r)) /\ WindowOf(q[1].start) = WindowOf(time(q))
      BY <2>4, <3>1, RowFacts
    <3>3. r[1] = q[1]
      BY <2>4, <2>5, <3>2 DEF ChunksInv, OneRowPerWindow
    <3> DEFINE pts == PointsOf(r[1])
               i == r[2]
               j == q[2]
               n == r[1].points
    <3>4. n \in Nat /\ i \in 1..n /\ j \in 1..n
      BY <2>4, <3>1, <3>3, RowFacts
    <3>5. pts[i].ts \in Nat /\ pts[j].ts \in Nat /\ pts[i].ts = pts[j].ts
      BY <2>5, <3>1, <3>3, <3>4, RowFacts DEF PointRecord
    <3>6. Ascending(pts) /\ Len(pts) = n
      BY <3>1 DEF SoundRow
    <3> HIDE DEF pts, i, j, n
    <3>7. ~(i < j) /\ ~(j < i)
      BY <3>4, <3>5, <3>6 DEF Ascending
    <3>8. i = j
      BY <3>4, <3>7
    <3>9. QED
      BY <2>4, <3>3, <3>8 DEF i, j
  <2>6. ASSUME NEW t \in times PROVE \E r \in found : time(r) = t
    <3>1. PICK c \in Intact : \E i \in 1..c.points : PointsOf(c)[i].ts = t
      BY DEF ChunksInv, HeldIsFound
    <3>2. PICK i \in 1..c.points : PointsOf(c)[i].ts = t
      BY <3>1
    <3>3. SoundRow(c)
      BY DEF ChunksInv
    <3>4. /\ c.start \in Nat /\ c.end \in Nat /\ t \in Nat /\ c.start <= t /\ t <= c.end
      BY <3>2, <3>3, RowFacts DEF PointRecord
    <3>5. c \in loaded
      BY <2>1, <2>2, <3>4
    <3>6. time(<<c, i>>) = t
      BY <3>2
    <3> HIDE DEF time
    <3>7. <<c, i>> \in found
      BY <2>3, <3>5, <3>6
    <3>8. QED
      BY <3>6, <3>7
  <2> HIDE DEF time
  <2>7. IsFiniteSet(times)
    BY FS_Subset DEF ChunksInv
  <2> HIDE DEF times
  <2>8. f \in [found -> times]
    BY <2>4
  <2>9. f \in Injection(found, times)
    BY <2>5, <2>8 DEF Injection, IsInjective
  <2>10. f \in Surjection(found, times)
    BY <2>6, <2>8 DEF Surjection
  <2> HIDE DEF f
  <2>11. Cardinality(found) = Cardinality(times)
    BY <2>7, <2>9, <2>10, FS_Injection
  <2>12. ASSUME NEW r \in found
         PROVE  /\ DecodeChunk(r[1].data, r[1].points)[r[2]].ts \in times
                /\ DecodeChunk(r[1].data, r[1].points)[r[2]].v
                     = held[DecodeChunk(r[1].data, r[1].points)[r[2]].ts]
    BY <2>4 DEF time, PointsOf
  <2>13. QED
    BY <2>11, <2>12 DEF found, times
<1>2. QED
  BY <1>1, ChunksInvariant, PTL
=============================================================================
