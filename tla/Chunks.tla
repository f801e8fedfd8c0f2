------------------------------- MODULE Chunks -------------------------------
(***************************************************************************)
(* The raw points of one series (adapter/tsdb): Write merges a batch into  *)
(* the chunks of its time windows, each chunk is coded as differences of   *)
(* times and XORs of neighbouring values (encode.go), and a query decodes  *)
(* the chunks that overlap its range. Points come late and again, and a    *)
(* chunk may be damaged on disk.                                           *)
(***************************************************************************)
EXTENDS Integers, Sequences, FiniteSets, SequencesExt

CONSTANTS
  Moment,        \* the sampling times, in milliseconds
  Word,        \* the values: sequences of Bytes digits 0 or 1, which stand for
  Bytes,       \* the 8 bytes of a float64 and their equality or difference
  Batches,     \* the batches that are written: sequences of points
  Window,      \* rawChunkWindow
  MaxDamages   \* bound: damaged chunks

ASSUME ChunksAssumption ==
  /\ Moment \subseteq Nat /\ Bytes \in Nat \ {0} /\ Word \subseteq [1..Bytes -> {0, 1}]
  /\ Batches \subseteq Seq([ts : Moment, v : Word]) /\ Window \in Nat \ {0}
  /\ MaxDamages \in Nat

VARIABLES
  chunks,   \* the rows of ts_chunk: start, end, number of points, data
  held,     \* history: the value last written for each time, if not damaged since
  damages   \* history, up to MaxDamages

chunksVars == <<chunks, held, damages>>

ChunksInit == chunks = {} /\ held = <<>> /\ damages = 0

-----------------------------------------------------------------------------
\* The code of a chunk. A variable-length integer is one element.

encodeVersion == 1
Zero == [i \in 1..Bytes |-> 0]
Xor(a, b) == [i \in 1..Bytes |-> IF a[i] = b[i] THEN 0 ELSE 1]

\* The bytes of the difference between its leading and its trailing zeros.
AppendXOR(v, prev) ==
  LET x == Xor(v, prev)
      significant == {i \in 1..Bytes : x[i] = 1}
      first == CHOOSE i \in significant : \A j \in significant : i <= j
      last == CHOOSE i \in significant : \A j \in significant : j <= i
  IN  IF x = Zero THEN <<0>>
      ELSE <<1, first - 1, last - first + 1>> \o SubSeq(x, first, last)

Previous_First(pts, i) == pts[1].v
Previous(pts, i) == pts[i - 1].v
EncodeChunk(pts) ==
  <<encodeVersion, pts[1].ts>>
  \o [i \in 1..(Len(pts) - 1) |-> pts[i + 1].ts - pts[i].ts]
  \o pts[1].v
  \o FlattenSeq([i \in 1..(Len(pts) - 1) |-> AppendXOR(pts[i + 1].v, Previous(pts, i + 1))])

\* Where the value after the one at pos ends, and what it is.
ReadXOR(data, pos, prev) ==
  IF data[pos] = 0 THEN [pos |-> pos + 1, v |-> prev]
  ELSE LET lead == data[pos + 1]
           sig == data[pos + 2]
           x == [i \in 1..Bytes |-> IF i \in (lead + 1)..(lead + sig) THEN data[pos + 2 + i - lead] ELSE 0]
       IN  [pos |-> pos + 3 + sig, v |-> Xor(x, prev)]

BadChunk(data, points) == data = <<>> \/ data[1] # encodeVersion \/ points = 0

DecodeChunk(data, points) ==
  LET ts[i \in 1..points] == IF i = 1 THEN data[2] ELSE ts[i - 1] + data[i + 1]
      at[i \in 1..points] ==
        IF i = 1
        THEN [pos |-> points + 2 + Bytes, v |-> SubSeq(data, points + 2, points + 1 + Bytes)]
        ELSE ReadXOR(data, at[i - 1].pos, at[i - 1].v)
  IN  [i \in 1..points |-> [ts |-> ts[i], v |-> at[i].v]]

-----------------------------------------------------------------------------
\* The rows that overlap a range, and of these the ones that decode.
Overlapping(start, end) == {c \in chunks : c.start <= end /\ c.end >= start}
LoadChunks(start, end) == {c \in Overlapping(start, end) : ~BadChunk(c.data, c.points)}

WindowOf(ts) == ts - (ts % Window)
GroupWindows(batch) == {WindowOf(batch[i].ts) : i \in 1..Len(batch)}

\* What the window holds after the batch: of two points of one time the one
\* that was written last.
Merged(batch, w) ==
  LET old == UNION {ToSet(DecodeChunk(c.data, c.points)) : c \in LoadChunks(w, w + Window - 1)}
      new == {i \in 1..Len(batch) : WindowOf(batch[i].ts) = w}
  IN  {p \in old : \A i \in new : batch[i].ts # p.ts}
      \cup {batch[i] : i \in {j \in new : \A k \in new : batch[k].ts = batch[j].ts => k <= j}}

\* Points of different times in the order of these.
InOrderOfTime(points) ==
  CHOOSE s \in [1..Cardinality(points) -> points] :
    \A i, j \in DOMAIN s : i < j => s[i].ts < s[j].ts

MergedChunk(points) ==
  LET sorted == InOrderOfTime(points)
  IN  [start |-> sorted[1].ts, end |-> sorted[Len(sorted)].ts,
       points |-> Len(sorted), data |-> EncodeChunk(sorted)]

\* One transaction: the first chunk that was loaded is replaced, the others
\* are deleted; one that does not decode stays as it is.
WriteBatch(batch) ==
  /\ chunks' = (chunks \ UNION {LoadChunks(w, w + Window - 1) : w \in GroupWindows(batch)})
               \cup {MergedChunk(Merged(batch, w)) : w \in GroupWindows(batch)}
  /\ held' = [t \in DOMAIN held \cup {batch[i].ts : i \in 1..Len(batch)} |->
                IF \E i \in 1..Len(batch) : batch[i].ts = t
                THEN batch[CHOOSE i \in 1..Len(batch) :
                       batch[i].ts = t /\ \A j \in (i + 1)..Len(batch) : batch[j].ts # t].v
                ELSE held[t]]
  /\ UNCHANGED damages

Damage(c) ==
  /\ damages < MaxDamages /\ damages' = damages + 1
  /\ ~BadChunk(c.data, c.points)
  /\ chunks' = (chunks \ {c}) \cup {[c EXCEPT !.data = <<>>]}
  /\ held' = [t \in {u \in DOMAIN held : u \notin c.start..c.end} |-> held[t]]

ChunksNext ==
  \/ \E batch \in Batches : WriteBatch(batch)
  \/ \E c \in chunks : Damage(c)

-----------------------------------------------------------------------------
\* readPoints: the points of all chunks in the range, as often as they come.
ReadPoints(start, end) ==
  {r \in UNION {{<<c, i>> : i \in 1..c.points} : c \in LoadChunks(start, end)} :
     DecodeChunk(r[1].data, r[1].points)[r[2]].ts \in start..end}

\* A query of any range finds each point of the range once and with the value
\* that was written last, through any order of late and repeated batches and
\* of merges that decode and code again; a damaged chunk costs its own points,
\* and what is written into its window afterwards is found.
StoredAsWritten ==
  \A start, end \in Moment :
    LET found == ReadPoints(start, end)
        times == {t \in DOMAIN held : t \in start..end}
    IN  /\ Cardinality(found) = Cardinality(times)
        /\ \A r \in found : LET p == DecodeChunk(r[1].data, r[1].points)[r[2]]
                            IN  p.ts \in times /\ p.v = held[p.ts]
=============================================================================
