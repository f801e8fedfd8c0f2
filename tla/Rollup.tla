------------------------------- MODULE Rollup -------------------------------
(***************************************************************************)
(* One time line of the embedded time-series store (adapter/tsdb): raw     *)
(* samples in chunks, the rollup that averages them into the rows of the   *)
(* 5-minute tier, and the pruning of both tiers.  A sample is its time in  *)
(* ticks; a row of the aggregate tier is the set of samples it averages.   *)
(***************************************************************************)
EXTENDS Integers, Sequences, FiniteSets, FiniteSetsExt

CONSTANTS
  FirstTick,          \* the first tick
  MaxTicks,       \* bound: the last tick
  Bucket,         \* aggBucket
  RawWindow,      \* rawChunkWindow
  AggWindow,      \* aggChunkWindow
  RawKeep,        \* rawDays
  AggKeep,        \* aggDays
  LateWindow,     \* how old a sample may be when it arrives
  MaxRaw,         \* bound: the samples of a behaviour
  RoundTicks,     \* bound: how long a round of maintenance may take
  MaxTSFaults     \* bound: rounds of maintenance that fail

\* Raw data is kept for two days at least.  The configuration accepts one, which
\* is the backfill window: after that a sample may arrive for a bucket whose other
\* samples are no longer in the raw tier, and the next round averages it alone.
ASSUME RollupAssumption ==
  /\ FirstTick \in Nat \ {0} /\ MaxTicks \in Nat /\ MaxRaw \in Nat /\ MaxTSFaults \in Nat /\ RoundTicks \in Nat
  /\ {Bucket, RawWindow, AggWindow, RawKeep, AggKeep, LateWindow} \subseteq Nat \ {0}
  /\ FirstTick % Bucket = 0 /\ RawWindow % Bucket = 0 /\ AggWindow % Bucket = 0
  /\ LateWindow + Bucket <= RawKeep /\ 2 * Bucket + RoundTicks <= RawKeep /\ RawKeep <= AggKeep

VARIABLES
  clock,    \* the time
  raw,      \* the samples of the raw tier
  rows,     \* the rows the aggregate tier holds for each bucket
  aggLast,  \* last_ts of the aggregate series; 0: no such series
  maint,    \* the round of maintenance under way: since when, its phase, what it read
  owed,      \* history: the samples written in time, owed to the aggregate tier
  tsFaults

rollupVars == <<clock, raw, rows, aggLast, maint, owed, tsFaults>>

Ticks == FirstTick..MaxTicks
Grid(t, width) == t - (t % width)
BucketStart == {Grid(t, Bucket) : t \in Ticks}
NoRound == [phase |-> "idle", at |-> 0, got |-> {}]

\* The end of the last bucket that is complete.
Horizon == Grid(clock, Bucket) - Bucket

\* The points of the aggregate tier between two times.
Query(from, to) ==
  {p \in BucketStart \X (1..2) : from <= p[1] /\ p[1] <= to /\ p[2] <= Len(rows[p[1]])}

RollupInit ==
  /\ clock = FirstTick /\ raw = {} /\ owed = {} /\ aggLast = 0 /\ tsFaults = 0
  /\ rows = [b \in BucketStart |-> <<>>]
  /\ maint = NoRound

\* A round of maintenance is over RoundTicks after it began, at the latest.
TimePasses ==
  /\ clock < MaxTicks
  /\ maint.phase # "idle" => clock < maint.at + RoundTicks
  /\ clock' = clock + 1
  /\ UNCHANGED <<raw, rows, aggLast, maint, owed, tsFaults>>

\* A batch is written: a sample may be as old as the backfill window.
WriteRaw(t) ==
  /\ Cardinality(owed) < MaxRaw /\ Cardinality(raw) < MaxRaw
  /\ t \in Ticks /\ clock - LateWindow <= t /\ t <= clock
  /\ raw' = raw \cup {t}
  /\ owed' = IF t > Horizon THEN owed \cup {t} ELSE owed
  /\ UNCHANGED <<clock, rows, aggLast, maint, tsFaults>>

From_NextBucket == IF aggLast = 0 THEN clock - RawKeep ELSE aggLast + Bucket
\* Where the rollup goes on: with the bucket of the last round, or, when there
\* is no aggregate series, with the oldest raw data that is kept.
From == IF aggLast = 0 THEN clock - RawKeep ELSE aggLast

\* A round begins: what it finds between the last round and the horizon.
ReadSamples ==
  LET got == {t \in raw : From < Horizon /\ From <= t /\ t <= Horizon} IN
  /\ maint.phase = "idle"
  /\ maint' = [phase |-> IF got = {} THEN "pruneRaw" ELSE "write", at |-> clock, got |-> got]
  /\ owed' = IF aggLast = 0 THEN {t \in owed : t >= From} ELSE owed
  /\ UNCHANGED <<clock, raw, rows, aggLast, tsFaults>>

\* The chunk of a window after the round's rows g went in.  The loop appends
\* to g the old rows before its first or after its LAST row; once it has
\* appended one, that one is the last, and every later old row comes after it.
Chunk(w, fresh, keep) ==
  LET g == {b \in fresh : Grid(b, AggWindow) = w}
      earlier == \E b \in BucketStart : Grid(b, AggWindow) = w /\ rows[b] # <<>> /\ b < Min(g)
      Kept(b) == IF b < Min(g) THEN rows[b]
                 ELSE IF rows[b] # <<>> /\ (earlier \/ b > Max(g))
                      THEN <<rows[b][IF keep <= Len(rows[b]) THEN keep ELSE 1]>> ELSE <<>>
      New(b) == IF b \in g THEN <<{t \in maint.got : Grid(t, Bucket) = b}>> ELSE <<>>
  IN [b \in {c \in BucketStart : Grid(c, AggWindow) = w} |->
        IF g = {} THEN rows[b] ELSE New(b) \o Kept(b)]

\* keep: which of two equal rows comes first is up to sort.Slice.
WriteRows ==
  LET fresh == {Grid(t, Bucket) : t \in maint.got} IN
  /\ maint.phase = "write"
  /\ \E keep \in 1..2 : rows' = [b \in BucketStart |-> Chunk(Grid(b, AggWindow), fresh, keep)[b]]
  /\ maint' = [maint EXCEPT !.phase = "mark"]
  /\ UNCHANGED <<clock, raw, aggLast, owed, tsFaults>>

MarkRolled ==
  /\ maint.phase = "mark"
  /\ aggLast' = Max({aggLast, Grid(Max(maint.got), Bucket)})
  /\ maint' = [maint EXCEPT !.phase = "pruneRaw", !.got = {}]
  /\ UNCHANGED <<clock, raw, rows, owed, tsFaults>>

\* Whole chunks are deleted, when their last point is past the retention.
PruneRaw ==
  /\ maint.phase = "pruneRaw"
  /\ raw' = {t \in raw : \E u \in raw : Grid(u, RawWindow) = Grid(t, RawWindow) /\ u >= clock - RawKeep}
  /\ maint' = [maint EXCEPT !.phase = "pruneAgg"]
  /\ UNCHANGED <<clock, rows, aggLast, owed, tsFaults>>
PruneAgg ==
  LET Live(w) == \E c \in BucketStart : Grid(c, AggWindow) = w /\ rows[c] # <<>> /\ c >= clock - AggKeep IN
  /\ maint.phase = "pruneAgg"
  /\ rows' = [b \in BucketStart |-> IF Live(Grid(b, AggWindow)) THEN rows[b] ELSE <<>>]
  /\ maint' = [maint EXCEPT !.phase = "pruneSeries"]
  /\ UNCHANGED <<clock, raw, aggLast, owed, tsFaults>>
\* A series whose last point is past the retention goes, and its chunks with it.
PruneSeries ==
  LET gone == aggLast > 0 /\ aggLast < clock - AggKeep IN
  /\ maint.phase = "pruneSeries"
  /\ aggLast' = IF gone THEN 0 ELSE aggLast
  /\ rows' = IF gone THEN [b \in BucketStart |-> <<>>] ELSE rows
  /\ maint' = NoRound
  /\ UNCHANGED <<clock, raw, owed, tsFaults>>

\* A statement fails, or the server stops: the round is over.
RoundFails ==
  /\ maint.phase # "idle" /\ tsFaults < MaxTSFaults
  /\ maint' = NoRound /\ tsFaults' = tsFaults + 1
  /\ UNCHANGED <<clock, raw, rows, aggLast, owed>>

RollupNext ==
  \/ TimePasses \/ \E t \in Ticks : WriteRaw(t)
  \/ ReadSamples \/ WriteRows \/ MarkRolled \/ PruneRaw \/ PruneAgg \/ PruneSeries \/ RoundFails

-----------------------------------------------------------------------------
\* A sample written before its bucket fell behind the horizon is never lost to
\* the aggregate tier: until a row averages it, it is in the raw tier where
\* the next round reads it, whichever rounds failed and wherever they did.
RollupComplete ==
  \A t \in owed :
    \/ t \in raw /\ t >= aggLast
    \/ \E i \in DOMAIN rows[Grid(t, Bucket)] : t \in rows[Grid(t, Bucket)][i]
    \/ Grid(t, Bucket) < clock - AggKeep

\* A round that averages a bucket again replaces its row: a query of the
\* aggregate tier never answers two points of one time.
OnePointPerBucket ==
  \A b \in BucketStart : Cardinality(Query(b, b)) <= 1
=============================================================================
