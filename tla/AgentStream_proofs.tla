-------------------------- MODULE AgentStream_proofs --------------------------
(***************************************************************************)
(* Proofs about AgentStream, for any number of reports and streams, any    *)
(* limits of the spool, of a replay batch and of a stream's window, and    *)
(* any number of failures: sends are serialised, a report is ingested at   *)
(* most once, the spool is bounded, the session serves oldest first, and   *)
(* the path implements ReportDelivery.                                     *)
(***************************************************************************)
EXTENDS AgentStream, FiniteSetTheorems, SequenceTheorems, WellFoundedInduction, TLAPS

\* The reports that have been collected.
Known == 1..made

\* The variables of each part stay in their ranges, and a report is met only
\* after it was collected.
AgentRange ==
  /\ pc \in [Thread -> SessionStep \cup CollectorStep]
  /\ pc["session"] \in SessionStep /\ pc["collector"] \in CollectorStep
  /\ mu \in Thread \cup {"none"}
  /\ st \in StreamId \cup {None}
  /\ made \in 0..MaxReports
  /\ hand \in Known \cup {None}
  /\ spool \in SUBSET Known /\ todo \in SUBSET Known
  /\ sent \in SUBSET Known /\ acked \in SUBSET Known
  /\ failures \in 0..MaxFailures

NetRange ==
  /\ opened \in 0..MaxStreams
  /\ broken \in SUBSET StreamId
  /\ wire \in [StreamId -> Seq(Known)]

ServerRange ==
  /\ handling \in [StreamId -> Known \cup {None}]
  /\ seen \in SUBSET Known /\ unmarked \in SUBSET Known
  /\ ingested \in Seq(Known)

RangeInv == AgentRange /\ NetRange /\ ServerRange

\* Who sends, or is about to, holds Stream.mu.
Sending == {"peek", "resend", "send"}
LockInv == \A g \in Thread : pc[g] \in Sending <=> mu = g

\* A report in hand is enqueued, and none is when the next one is collected.
HandInv ==
  /\ pc["collector"] \in {"collect", "purge", "trim"} => hand = None
  /\ pc["collector"] = "enqueue" => hand # None

\* What was or is being processed has been marked, or its mark failed; what is
\* processed a second time is of the latter kind.
Marked(r) == r \in seen \/ r \in unmarked
OnceInv ==
  /\ \A r \in Range(ingested) : Marked(r)
  /\ \A s \in StreamId : handling[s] # None => Marked(handling[s])
  /\ \A s \in StreamId : handling[s] \in Range(ingested) => handling[s] \in unmarked
  /\ \A s1, s2 \in StreamId :
       s1 # s2 /\ handling[s1] = handling[s2] /\ handling[s1] # None
       => handling[s1] \in unmarked
  /\ IngestedOnce

IInv == RangeInv /\ LockInv /\ HandInv /\ OnceInv

-----------------------------------------------------------------------------
(* What the streams hold *)

\* Sending adds the report to those on the stream.
LEMMA AppendRange ==
  ASSUME NEW S, NEW q \in Seq(S), NEW x \in S
  PROVE  Append(q, x) \in Seq(S) /\ Range(Append(q, x)) = Range(q) \cup {x}
<1> DEFINE last == <<x>>
<1>1. last \in Seq(S) /\ Append(q, x) = q \o last /\ Len(last) = 1 /\ last[1] = x
  BY AppendIsConcat
<1> HIDE DEF last
<1>2. DOMAIN last = 1..1
  BY <1>1, LenProperties
<1>3. Range(last) = {x}
  BY <1>1, <1>2 DEF Range
<1>4. QED
  BY <1>1, <1>3, RangeConcatenation, AppendProperties

\* Receiving takes one report off.
LEMMA TailRange ==
  ASSUME NEW S, NEW q \in Seq(S), q # <<>>
  PROVE  /\ Head(q) \in S /\ Tail(q) \in Seq(S)
         /\ Range(q) = Range(Tail(q)) \cup {Head(q)}
<1>1. /\ Head(q) \in S /\ Tail(q) \in Seq(S) /\ Len(Tail(q)) = Len(q) - 1
      /\ \A i \in 1..Len(Tail(q)) : Tail(q)[i] = q[i + 1]
  BY HeadTailProperties
<1>2. Len(q) \in Nat \ {0} /\ DOMAIN q = 1..Len(q) /\ DOMAIN Tail(q) = 1..(Len(q) - 1)
  BY <1>1, EmptySeq, LenProperties
<1>3. Head(q) = q[1]
  OBVIOUS
<1>4. Range(Tail(q)) \cup {Head(q)} \subseteq Range(q)
  BY <1>1, <1>2, <1>3 DEF Range
<1>5. ASSUME NEW x \in Range(q) PROVE x \in Range(Tail(q)) \cup {Head(q)}
  <2>1. PICK i \in 1..Len(q) : x = q[i]
    BY <1>2, <1>5 DEF Range
  <2>2. CASE i = 1
    BY <1>3, <2>1, <2>2
  <2>3. CASE i # 1
    <3>1. i - 1 \in 1..(Len(q) - 1) /\ Tail(q)[i - 1] = q[i]
      BY <1>1, <1>2, <2>3
    <3>2. QED
      BY <1>2, <2>1, <3>1 DEF Range
  <2>4. QED
    BY <2>2, <2>3
<1>6. QED
  BY <1>1, <1>4, <1>5

\* What has reached the server of a broken stream was on the stream.
LEMMA PrefixRange ==
  ASSUME NEW S, NEW q \in Seq(S), NEW k \in Nat, k <= Len(q)
  PROVE  SubSeq(q, 1, k) \in Seq(S) /\ Range(SubSeq(q, 1, k)) \subseteq Range(q)
<1>1. Len(q) \in Nat /\ DOMAIN q = 1..Len(q) /\ \A i \in 1..Len(q) : q[i] \in S
  BY LenProperties, ElementOfSeq
<1>2. \A i \in 1..k : q[i] \in S
  BY <1>1
<1>3. /\ SubSeq(q, 1, k) \in Seq(S)
      /\ Len(SubSeq(q, 1, k)) = IF 1 <= k THEN k - 1 + 1 ELSE 0
      /\ \A i \in 1..(k - 1 + 1) : SubSeq(q, 1, k)[i] = q[1 + i - 1]
  BY <1>2, SubSeqProperties
<1>4. DOMAIN SubSeq(q, 1, k) = 1..k
  BY <1>3, LenProperties
<1>5. QED
  BY <1>1, <1>3, <1>4 DEF Range

-----------------------------------------------------------------------------
(* Every variable stays in its range. *)

\* A goroutine stays among its own steps.
PcRange ==
  /\ pc \in [Thread -> SessionStep \cup CollectorStep]
  /\ pc["session"] \in SessionStep /\ pc["collector"] \in CollectorStep

StepsOf(g) == IF g = "session" THEN SessionStep ELSE CollectorStep

LEMMA GotoRange ==
  ASSUME PcRange, NEW g \in Thread, NEW from, NEW to \in StepsOf(g), Goto(g, from, to)
  PROVE  PcRange'
BY DEF PcRange, Thread, StepsOf, Goto

\* Each step of drain and what follows it is a step of both goroutines.
LEMMA DrainSteps ==
  ASSUME NEW g \in Thread, NEW ok \in BOOLEAN
  PROVE  AfterDrain(g, ok) \in StepsOf(g) /\ "peek" \in StepsOf(g) /\ "resend" \in StepsOf(g)
BY DEF Thread, StepsOf, AfterDrain, SessionStep, CollectorStep, Draining

\* What leaves the drain leaves nothing behind.
LEMMA LeaveRange ==
  ASSUME PcRange, NEW g \in Thread, NEW from, NEW ok \in BOOLEAN, LeaveDrain(g, from, ok)
  PROVE  PcRange' /\ mu' = "none" /\ todo' = {} /\ sent' = {}
BY DrainSteps, GotoRange DEF LeaveDrain

\* A stream that ends keeps a part of what was on it.
LEMMA CutRange ==
  ASSUME RangeInv, NEW dead \in SUBSET StreamId, Cut(dead)
  PROVE  /\ broken' \in SUBSET StreamId
         /\ wire' \in [StreamId -> Seq(Known)]
         /\ \A s \in StreamId : Range(wire'[s]) \subseteq Range(wire[s])
<1>1. broken' \in SUBSET StreamId
  BY DEF RangeInv, NetRange, Cut
<1>2. PICK kept \in [dead -> 0..Window] :
        /\ \A s \in dead : kept[s] <= Len(wire[s])
        /\ wire' = [s \in StreamId |->
                      IF s \in dead THEN SubSeq(wire[s], 1, kept[s]) ELSE wire[s]]
  BY DEF Cut
<1>3. ASSUME NEW s \in StreamId
      PROVE  wire'[s] \in Seq(Known) /\ Range(wire'[s]) \subseteq Range(wire[s])
  <2>1. wire[s] \in Seq(Known)
    BY DEF RangeInv, NetRange
  <2>2. CASE s \in dead
    <3>1. kept[s] \in Nat /\ kept[s] <= Len(wire[s])
      BY <1>2, <2>2, StreamAssumption
    <3>2. QED
      BY <1>2, <2>1, <2>2, <3>1, PrefixRange
  <2>3. CASE s \notin dead
    BY <1>2, <2>1, <2>3
  <2>4. QED
    BY <2>2, <2>3
<1>4. wire' \in [StreamId -> Seq(Known)]
  BY <1>2, <1>3
<1>5. QED
  BY <1>1, <1>3, <1>4

\* The steps of drain.
LEMMA DrainRange ==
  ASSUME RangeInv, NEW g \in Thread, Drain(g)
  PROVE  RangeInv'
<1> USE DEF RangeInv, AgentRange
<1>1. PcRange
  BY DEF PcRange
<1>2. ASSUME NetRange', ServerRange', made' = made, PcRange', mu' \in Thread \cup {"none"},
             st' = st, hand' = hand, failures' = failures,
             spool' \subseteq Known, todo' \subseteq Known,
             sent' \subseteq Known, acked' \subseteq Known
      PROVE  RangeInv'
  BY <1>2 DEF PcRange, Known
<1>3. ASSUME UNCHANGED <<netVars, made>> PROVE NetRange'
  BY <1>3 DEF NetRange, netVars, Known
<1>4. ASSUME UNCHANGED <<serverVars, made>> PROVE ServerRange'
  BY <1>4 DEF ServerRange, serverVars, Known
<1>5. CASE StartDrain(g)
  <2>1. PcRange'
    BY <1>1, <1>5, DrainSteps, GotoRange DEF StartDrain
  <2>2. QED
    BY <1>2, <1>3, <1>4, <1>5, <2>1 DEF StartDrain
<1>6. CASE Peek(g)
  <2>1. /\ PcRange' /\ mu' \in Thread \cup {"none"}
        /\ todo' \subseteq Known /\ sent' \subseteq Known
    <3>1. CASE spool = {}
      BY <1>1, <1>6, <3>1, LeaveRange DEF Peek
    <3>2. CASE spool # {}
      BY <1>1, <1>6, <3>2, DrainSteps, GotoRange DEF Peek, Oldest
    <3>3. QED
      BY <3>1, <3>2
  <2>2. QED
    BY <1>2, <1>3, <1>4, <1>6, <2>1 DEF Peek
<1>7. CASE PeekFails(g)
  <2>1. PcRange' /\ mu' = "none" /\ todo' = {} /\ sent' = {}
    BY <1>1, <1>7, LeaveRange DEF PeekFails
  <2>2. QED
    BY <1>2, <1>3, <1>4, <1>7, <2>1 DEF PeekFails
<1>8. CASE Resend(g)
  <2>1. PICK r \in todo : /\ Put(st, r) /\ todo' = todo \ {r} /\ sent' = sent \cup {r}
    BY <1>8 DEF Resend, Oldest
  <2>2. st \in StreamId
    BY <1>8 DEF Resend, Up
  <2>3. Append(wire[st], r) \in Seq(Known)
    BY <2>1, <2>2, AppendRange DEF NetRange
  <2>4. NetRange'
    BY <1>8, <2>1, <2>3 DEF Resend, Put, NetRange, Known
  <2>5. QED
    BY <1>1, <1>2, <1>4, <1>8, <2>1, <2>4 DEF Resend, PcRange
<1>9. CASE ResendFails(g)
  <2>1. PcRange' /\ mu' = "none" /\ todo' = {} /\ sent' = {}
    BY <1>1, <1>9, LeaveRange DEF ResendFails
  <2>2. QED
    BY <1>2, <1>3, <1>4, <1>9, <2>1 DEF ResendFails, Ack
<1>10. CASE AckBatch(g)
  <2>1. PcRange'
    BY <1>1, <1>10, DrainSteps, GotoRange DEF AckBatch
  <2>2. QED
    BY <1>2, <1>3, <1>4, <1>10, <2>1 DEF AckBatch, Ack
<1>11. CASE AckFails(g)
  <2>1. PcRange' /\ mu' = "none" /\ todo' = {} /\ sent' = {}
    BY <1>1, <1>11, LeaveRange DEF AckFails
  <2>2. QED
    BY <1>2, <1>3, <1>4, <1>11, <2>1 DEF AckFails
<1>12. QED
  BY <1>5, <1>6, <1>7, <1>8, <1>9, <1>10, <1>11 DEF Drain

\* The steps of collectOnce besides drain.  Only a new report widens Known.
LEMMA CollectorRange ==
  ASSUME RangeInv, HandInv,
         Collect \/ TrySend \/ SendLive \/ SendFails \/ Enqueue \/ Purge \/ Trim
  PROVE  RangeInv'
<1> USE DEF RangeInv, AgentRange
<1>1. PcRange /\ "collector" \in Thread
  BY DEF PcRange, Thread
<1>2. ASSUME NetRange', ServerRange', made' = made, PcRange', mu' \in Thread \cup {"none"},
             st' = st, hand' \in Known \cup {None}, failures' \in 0..MaxFailures,
             spool' \subseteq Known, todo' = todo, sent' = sent, acked' = acked
      PROVE  RangeInv'
  BY <1>2 DEF PcRange, Known
<1>3. ASSUME UNCHANGED <<netVars, made>> PROVE NetRange'
  BY <1>3 DEF NetRange, netVars, Known
<1>4. ASSUME UNCHANGED <<serverVars, made>> PROVE ServerRange'
  BY <1>4 DEF ServerRange, serverVars, Known
<1>5. ASSUME NEW to \in CollectorStep, NEW from, Goto("collector", from, to) PROVE PcRange'
  BY <1>1, <1>5, GotoRange DEF StepsOf
<1>6. {"collect", "drain", "trysend", "send", "enqueue", "purge", "trim"} \subseteq CollectorStep
  BY DEF CollectorStep, Draining
<1>7. CASE Collect
  <2>1. PcRange'
    BY <1>5, <1>6, <1>7 DEF Collect
  <2>2. CASE made < MaxReports
    <3>1. made' = made + 1 /\ hand' = made + 1 /\ made' \in 0..MaxReports
      BY <1>7, <2>2, StreamAssumption DEF Collect
    <3>2. Known \subseteq Known' /\ hand' \in Known'
      BY <3>1 DEF Known
    <3>3. Seq(Known) \subseteq Seq(Known')
      BY <3>2, SeqMonotonic
    <3>4. NetRange'
      BY <1>7, <3>3 DEF Collect, NetRange, netVars
    <3>5. ServerRange'
      BY <1>7, <3>2, <3>3 DEF Collect, ServerRange, serverVars
    <3>6. QED
      BY <1>7, <2>1, <3>1, <3>2, <3>4, <3>5 DEF Collect, PcRange
  <2>3. CASE ~(made < MaxReports)
    BY <1>2, <1>3, <1>4, <1>7, <2>1, <2>3 DEF Collect
  <2>4. QED
    BY <2>2, <2>3
<1>8. CASE TrySend
  BY <1>1, <1>2, <1>3, <1>4, <1>5, <1>6, <1>8 DEF TrySend
<1>9. CASE SendLive
  <2>1. st \in StreamId
    BY <1>9 DEF SendLive, Up
  <2>2. NetRange'
    <3>1. CASE hand = None
      BY <1>9, <3>1 DEF SendLive, NetRange, Known
    <3>2. CASE hand # None
      <4>1. Append(wire[st], hand) \in Seq(Known)
        BY <2>1, <3>2, AppendRange DEF NetRange
      <4>2. QED
        BY <1>9, <3>2, <4>1 DEF SendLive, Put, NetRange, Known
    <3>3. QED
      BY <3>1, <3>2
  <2>3. PcRange'
    BY <1>5, <1>6, <1>9 DEF SendLive
  <2>4. QED
    BY <1>2, <1>4, <1>9, <2>2, <2>3 DEF SendLive
<1>10. CASE SendFails
  BY <1>2, <1>3, <1>4, <1>5, <1>6, <1>10 DEF SendFails
<1>11. CASE Enqueue
  <2>1. PcRange'
    BY <1>5, <1>6, <1>11 DEF Enqueue
  <2>2. spool' \subseteq Known
    BY <1>11 DEF Enqueue, Goto, HandInv
  <2>3. QED
    BY <1>2, <1>3, <1>4, <1>11, <2>1, <2>2 DEF Enqueue
<1>12. CASE Purge
  <2>1. PcRange' /\ spool' \subseteq spool
    BY <1>5, <1>6, <1>12 DEF Purge
  <2>2. QED
    BY <1>2, <1>3, <1>4, <1>12, <2>1 DEF Purge
<1>13. CASE Trim
  <2>1. PcRange' /\ spool' \subseteq spool
    BY <1>5, <1>6, <1>13 DEF Trim, Newest
  <2>2. failures' \in 0..MaxFailures
    BY <1>13, StreamAssumption DEF Trim
  <2>3. QED
    BY <1>2, <1>3, <1>4, <1>13, <2>1, <2>2 DEF Trim
<1>14. QED
  BY <1>7, <1>8, <1>9, <1>10, <1>11, <1>12, <1>13

\* The steps of serveSession besides drain, and a broken stream.
LEMMA SessionRange ==
  ASSUME RangeInv,
         Dial \/ Publish \/ Notice \/ Clear \/ (\E s \in StreamId : Break(s))
  PROVE  RangeInv'
<1> USE DEF RangeInv, AgentRange
<1>1. PcRange /\ "session" \in Thread
  BY DEF PcRange, Thread
<1>2. ASSUME NetRange', PcRange', st' \in StreamId \cup {None},
             UNCHANGED <<mu, made, hand, spool, todo, sent, acked, serverVars, failures>>
      PROVE  RangeInv'
  BY <1>2 DEF PcRange, ServerRange, serverVars, Known
<1>3. ASSUME UNCHANGED <<netVars, made>> PROVE NetRange'
  BY <1>3 DEF NetRange, netVars, Known
<1>4. ASSUME NEW to \in SessionStep, NEW from, Goto("session", from, to) PROVE PcRange'
  BY <1>1, <1>4, GotoRange DEF StepsOf
<1>5. {"dial", "publish", "drain", "serve", "clear"} \subseteq SessionStep
  BY DEF SessionStep, Draining
<1>6. CASE Dial
  <2>1. NetRange'
    BY <1>6, StreamAssumption DEF Dial, NetRange, Known
  <2>2. QED
    BY <1>2, <1>4, <1>5, <1>6, <2>1 DEF Dial
<1>7. CASE Publish
  <2>1. st' \in StreamId \cup {None}
    BY <1>7 DEF Publish, NetRange, StreamId, None
  <2>2. PcRange'
    BY <1>4, <1>5, <1>7 DEF Publish
  <2>3. QED
    BY <1>2, <1>3, <1>7, <2>1, <2>2 DEF Publish
<1>8. CASE Notice
  BY <1>2, <1>3, <1>4, <1>5, <1>8 DEF Notice
<1>9. CASE Clear
  <2>1. PcRange'
    BY <1>4, <1>5, <1>9 DEF Clear
  <2>2. NetRange'
    <3>1. CASE Up(st)
      BY <1>9, <3>1, CutRange DEF Clear, Up, NetRange, Known
    <3>2. CASE ~Up(st)
      BY <1>9, <3>2 DEF Clear, NetRange, Known
    <3>3. QED
      BY <3>1, <3>2
  <2>3. QED
    BY <1>2, <1>9, <2>1, <2>2 DEF Clear
<1>10. CASE \E s \in StreamId : Break(s)
  <2>1. PICK s \in StreamId : Break(s)
    BY <1>10
  <2>2. NetRange'
    BY <2>1, CutRange DEF Break, NetRange, agentVars, Known
  <2>3. QED
    BY <1>1, <1>2, <2>1, <2>2 DEF Break, agentVars, PcRange
<1>11. QED
  BY <1>6, <1>7, <1>8, <1>9, <1>10

\* The steps of the server, and the crashes.
LEMMA ServerCrashRange ==
  ASSUME RangeInv,
         (\E s \in StreamId : Server(s)) \/ AgentCrash \/ ServerCrash
  PROVE  RangeInv'
<1> USE DEF RangeInv
<1>1. ASSUME UNCHANGED <<agentVars, failures>> PROVE AgentRange'
  BY <1>1 DEF AgentRange, agentVars, Known
<1>2. ASSUME NEW s \in StreamId, handling[s] = None, wire[s] # <<>>
      PROVE  Head(wire[s]) \in Known /\ Tail(wire[s]) \in Seq(Known)
  BY <1>2, TailRange DEF NetRange
<1>3. CASE \E s \in StreamId : Receive(s)
  <2>1. PICK s \in StreamId : Receive(s)
    BY <1>3
  <2>2. Head(wire[s]) \in Known /\ Tail(wire[s]) \in Seq(Known)
    BY <1>2, <2>1 DEF Receive
  <2>3. made' = made
    BY <2>1 DEF Receive, agentVars
  <2>4. NetRange'
    BY <2>1, <2>2, <2>3 DEF Receive, NetRange, Known
  <2>5. ServerRange'
    BY <2>1, <2>2, <2>3 DEF Receive, ServerRange, Known
  <2>6. QED
    BY <1>1, <2>1, <2>4, <2>5 DEF Receive
<1>4. CASE \E s \in StreamId : Expire(s)
  <2>1. PICK s \in StreamId : Expire(s)
    BY <1>4
  <2>2. Tail(wire[s]) \in Seq(Known) /\ made' = made
    BY <1>2, <2>1 DEF Expire, agentVars
  <2>3. NetRange' /\ ServerRange'
    BY <2>1, <2>2 DEF Expire, NetRange, ServerRange, serverVars, Known
  <2>4. QED
    BY <1>1, <2>1, <2>3 DEF Expire
<1>5. CASE \E s \in StreamId : Ingest(s)
  <2>1. PICK s \in StreamId : Ingest(s)
    BY <1>5
  <2>2. made' = made /\ Append(ingested, handling[s]) \in Seq(Known)
    BY <2>1, AppendRange DEF Ingest, agentVars, ServerRange
  <2>3. NetRange' /\ ServerRange'
    BY <2>1, <2>2 DEF Ingest, NetRange, netVars, ServerRange, Known
  <2>4. QED
    BY <1>1, <2>1, <2>3 DEF Ingest
<1>6. CASE AgentCrash
  <2>1. \A s \in 1..opened : s \in StreamId
    BY StreamAssumption DEF NetRange, StreamId
  <2>2. {s \in 1..opened : Up(s)} \in SUBSET StreamId
    BY <2>1
  <2>3. NetRange' /\ ServerRange'
    BY <1>6, <2>2, CutRange DEF AgentCrash, NetRange, ServerRange, serverVars, Known
  <2>4. PcRange'
    BY <1>6 DEF AgentCrash, Started, PcRange, Thread, SessionStep, CollectorStep
  <2>5. AgentRange'
    BY <1>6, <2>4, StreamAssumption DEF AgentCrash, AgentRange, PcRange, Known
  <2>6. QED
    BY <2>3, <2>5
<1>7. CASE ServerCrash
  <2>1. broken' \in SUBSET StreamId
    BY <1>7, StreamAssumption DEF ServerCrash, NetRange, StreamId
  <2>2. made' = made /\ <<>> \in Seq(Known)
    BY <1>7, EmptySeq DEF ServerCrash, agentVars
  <2>3. NetRange' /\ ServerRange'
    BY <1>7, <2>1, <2>2 DEF ServerCrash, NetRange, ServerRange, Known
  <2>4. AgentRange'
    BY <1>7, StreamAssumption DEF ServerCrash, AgentRange, agentVars, Known
  <2>5. QED
    BY <2>3, <2>4
<1>8. QED
  BY <1>3, <1>4, <1>5, <1>6, <1>7 DEF Server

-----------------------------------------------------------------------------
(* The lock, the report in hand, and the batch table *)

LEMMA GotoEffect ==
  ASSUME RangeInv, NEW g \in Thread, NEW from, NEW to, Goto(g, from, to)
  PROVE  /\ pc[g] = from /\ pc'[g] = to
         /\ \A h \in Thread : h # g => pc'[h] = pc[h]
BY DEF RangeInv, AgentRange, Goto

\* After a drain nobody sends, and the collector has its report still in hand.
LEMMA AfterDrainIsQuiet ==
  ASSUME NEW g \in Thread, NEW ok \in BOOLEAN
  PROVE  /\ AfterDrain(g, ok) \notin Sending
         /\ AfterDrain("collector", ok) = "trysend"
BY DEF AfterDrain, Sending

\* mu is taken before a goroutine peeks or sends and given back afterwards.
LEMMA StepLock ==
  ASSUME RangeInv, LockInv, Next
  PROVE  LockInv'
<1> USE DEF LockInv
<1>1. "session" \in Thread /\ "collector" \in Thread /\ "none" \notin Thread
  BY DEF Thread
<1>2. ASSUME NEW g \in Thread, NEW from, NEW ok \in BOOLEAN, from \in Sending,
             LeaveDrain(g, from, ok)
      PROVE  LockInv'
  BY <1>1, <1>2, GotoEffect, AfterDrainIsQuiet DEF LeaveDrain
<1>3. ASSUME NEW g \in Thread, NEW from, NEW to, Goto(g, from, to), mu' = mu,
             from \in Sending <=> to \in Sending
      PROVE  LockInv'
  BY <1>3, GotoEffect
<1>4. ASSUME UNCHANGED <<pc, mu>> PROVE LockInv'
  BY <1>4
<1>5. ASSUME NEW g \in Thread, Drain(g) PROVE LockInv'
  <2>1. CASE StartDrain(g)
    <3>1. CASE st = None
      <4>1. Goto(g, "drain", AfterDrain(g, TRUE)) /\ mu' = mu
        BY <2>1, <3>1 DEF StartDrain
      <4>2. "drain" \notin Sending /\ AfterDrain(g, TRUE) \notin Sending
        BY AfterDrainIsQuiet DEF Sending
      <4>3. QED
        BY <1>3, <4>1, <4>2
    <3>2. CASE st # None
      <4>1. mu = "none" /\ mu' = g /\ Goto(g, "drain", "peek")
        BY <2>1, <3>2 DEF StartDrain
      <4>2. QED
        BY <1>1, <4>1, GotoEffect DEF Sending
    <3>3. QED
      BY <3>1, <3>2
  <2>2. CASE Peek(g)
    BY <1>2, <1>3, <2>2 DEF Peek, Sending
  <2>3. CASE PeekFails(g) \/ ResendFails(g) \/ AckFails(g)
    BY <1>2, <2>3 DEF PeekFails, ResendFails, AckFails, Sending
  <2>4. CASE Resend(g)
    BY <1>4, <2>4 DEF Resend
  <2>5. CASE AckBatch(g)
    BY <1>3, <2>5 DEF AckBatch, Sending
  <2>6. QED
    BY <1>5, <2>1, <2>2, <2>3, <2>4, <2>5 DEF Drain
<1>6. CASE Collector
  <2>1. CASE Collect \/ Enqueue \/ Purge \/ Trim
    BY <1>1, <1>3, <2>1 DEF Collect, Enqueue, Purge, Trim, Sending
  <2>2. CASE TrySend
    BY <1>1, <2>2, GotoEffect DEF TrySend, Sending
  <2>3. CASE SendLive \/ SendFails
    BY <1>1, <2>3, GotoEffect DEF SendLive, SendFails, Sending
  <2>4. QED
    BY <1>1, <1>5, <1>6, <2>1, <2>2, <2>3 DEF Collector
<1>7. CASE Session
  <2>1. CASE Dial \/ Publish \/ Notice \/ Clear
    BY <1>1, <1>3, <2>1 DEF Dial, Publish, Notice, Clear, Sending
  <2>2. QED
    BY <1>1, <1>5, <1>7, <2>1 DEF Session
<1>8. CASE \E s \in StreamId : Server(s) \/ Break(s)
  BY <1>4, <1>8 DEF Server, Receive, Expire, Ingest, Break, agentVars
<1>9. CASE AgentCrash
  BY <1>1, <1>9 DEF AgentCrash, Started, Sending, Thread
<1>10. CASE ServerCrash
  BY <1>4, <1>10 DEF ServerCrash, agentVars
<1>11. QED
  BY <1>6, <1>7, <1>8, <1>9, <1>10 DEF Next

\* A report stays in hand from Collect until it is sent or enqueued.
LEMMA StepHand ==
  ASSUME RangeInv, HandInv, Next
  PROVE  HandInv'
<1> USE DEF HandInv
<1>1. "session" \in Thread /\ "collector" \in Thread /\ "session" # "collector"
  BY DEF Thread
<1>2. ASSUME NEW from, NEW to, Goto("session", from, to), hand' = hand PROVE HandInv'
  BY <1>1, <1>2, GotoEffect
<1>3. ASSUME NEW from, NEW to, Goto("collector", from, to), hand' = hand,
             to \notin {"collect", "purge", "trim", "enqueue"}
      PROVE  HandInv'
  BY <1>1, <1>3, GotoEffect
<1>4. ASSUME UNCHANGED <<pc, hand>> PROVE HandInv'
  BY <1>4
<1>5. ASSUME NEW g \in Thread, NEW from, NEW ok \in BOOLEAN, hand' = hand,
             Goto(g, from, AfterDrain(g, ok))
      PROVE  HandInv'
  <2>1. g = "session" \/ g = "collector"
    BY DEF Thread
  <2>2. QED
    BY <1>2, <1>3, <1>5, <2>1, AfterDrainIsQuiet
<1>6. ASSUME NEW g \in Thread, Drain(g) PROVE HandInv'
  <2>1. g = "session" \/ g = "collector"
    BY DEF Thread
  <2>2. hand' = hand
    BY <1>6 DEF Drain, StartDrain, Peek, PeekFails, Resend, ResendFails, AckBatch, AckFails
  <2>3. \/ pc' = pc
        \/ \E from \in {"drain", "peek", "resend"}, ok \in BOOLEAN :
             Goto(g, from, AfterDrain(g, ok))
        \/ \E from \in {"drain", "peek", "resend"}, to \in {"peek", "resend"} :
             Goto(g, from, to)
    <3>1. CASE StartDrain(g) \/ Peek(g) \/ PeekFails(g)
      BY <3>1 DEF StartDrain, Peek, PeekFails, LeaveDrain
    <3>2. CASE Resend(g) \/ ResendFails(g) \/ AckBatch(g) \/ AckFails(g)
      BY <3>2 DEF Resend, ResendFails, AckBatch, AckFails, LeaveDrain
    <3>3. QED
      BY <1>6, <3>1, <3>2 DEF Drain
  <2>4. QED
    BY <1>2, <1>3, <1>4, <1>5, <2>1, <2>2, <2>3
<1>7. CASE Collector
  <2>1. CASE Collect \/ TrySend
    BY <1>1, <2>1, GotoEffect DEF Collect, TrySend
  <2>2. CASE SendLive \/ Enqueue
    BY <1>1, <2>2, GotoEffect DEF SendLive, Enqueue
  <2>3. CASE SendFails
    BY <1>1, <2>3, GotoEffect DEF SendFails
  <2>4. CASE Purge \/ Trim
    BY <1>1, <2>4, GotoEffect DEF Purge, Trim
  <2>5. QED
    BY <1>1, <1>6, <1>7, <2>1, <2>2, <2>3, <2>4 DEF Collector
<1>8. CASE Session
  BY <1>1, <1>2, <1>6, <1>8 DEF Session, Dial, Publish, Notice, Clear
<1>9. CASE \E s \in StreamId : Server(s) \/ Break(s)
  BY <1>4, <1>9 DEF Server, Receive, Expire, Ingest, Break, agentVars
<1>10. CASE AgentCrash
  BY <1>1, <1>10 DEF AgentCrash, Started
<1>11. CASE ServerCrash
  BY <1>4, <1>11 DEF ServerCrash, agentVars
<1>12. QED
  BY <1>7, <1>8, <1>9, <1>10, <1>11 DEF Next

\* Receive marks a report before it is processed; only one whose mark failed
\* can be processed again.
LEMMA StepOnce ==
  ASSUME RangeInv, OnceInv, Next
  PROVE  OnceInv'
<1> USE DEF OnceInv, Marked
<1>1. handling \in [StreamId -> Known \cup {None}] /\ ingested \in Seq(Known)
  BY DEF RangeInv, ServerRange
<1>2. None \notin Known /\ None \notin Range(ingested)
  <2>1. Range(ingested) \in SUBSET Known
    BY <1>1, RangeOfSeq
  <2>2. QED
    BY <2>1 DEF Known, None
<1>3. ASSUME UNCHANGED serverVars PROVE OnceInv'
  BY <1>3 DEF serverVars, IngestedOnce
<1>4. ASSUME NEW s \in StreamId, Receive(s) PROVE OnceInv'
  <2> DEFINE r == Head(wire[s])
  <2>1. ingested' = ingested
    BY <1>4 DEF Receive
  <2>2. r \in Known
    BY <1>4, TailRange DEF Receive, RangeInv, NetRange
  <2> HIDE DEF r
  <2>3. CASE UNCHANGED <<seen, handling, unmarked>>
    BY <2>1, <2>3 DEF IngestedOnce
  <2>4. CASE /\ r \notin seen /\ seen' = seen \cup {r}
             /\ handling' = [handling EXCEPT ![s] = r] /\ unmarked' = unmarked
    <3>1. r \in Range(ingested) => r \in unmarked
      BY <2>4
    <3>2. \A q \in StreamId : handling[q] = r => r \in unmarked
      BY <1>2, <2>2, <2>4
    <3>3. IngestedOnce'
      BY <2>1, <2>4 DEF IngestedOnce
    <3>4. \A q \in StreamId : handling'[q] = IF q = s THEN r ELSE handling[q]
      BY <1>1, <2>4
    <3>5. QED
      BY <1>1, <2>1, <2>4, <3>1, <3>2, <3>3, <3>4
  <2>5. CASE /\ handling' = [handling EXCEPT ![s] = r] /\ unmarked' = unmarked \cup {r}
             /\ seen' \in {seen, seen \cup {r}}
    <3>1. \A q \in StreamId : handling'[q] = IF q = s THEN r ELSE handling[q]
      BY <1>1, <2>5
    <3>2. IngestedOnce'
      BY <2>1, <2>5 DEF IngestedOnce
    <3>3. QED
      BY <1>1, <2>1, <2>5, <3>1, <3>2
  <2>6. QED
    BY <1>4, <2>3, <2>4, <2>5 DEF Receive, r
<1>5. ASSUME NEW s \in StreamId, Ingest(s) PROVE OnceInv'
  <2> DEFINE r == handling[s]
  <2>1. /\ r # None /\ r \in Known
        /\ ingested' = Append(ingested, r)
        /\ handling' = [handling EXCEPT ![s] = None]
        /\ UNCHANGED <<seen, unmarked>>
    BY <1>1, <1>5 DEF Ingest
  <2>2. Marked(r) /\ (r \in Range(ingested) => r \in unmarked)
    BY <2>1
  <2>3. \A q \in StreamId : q # s /\ handling[q] = r => r \in unmarked
    BY <2>1
  <2>4. \A q \in StreamId : handling'[q] = IF q = s THEN None ELSE handling[q]
    BY <1>1, <2>1
  <2> HIDE DEF r
  <2>5. Range(ingested') = Range(ingested) \cup {r}
    BY <1>1, <2>1, AppendRange
  <2>6. IngestedOnce'
    <3>1. /\ Len(ingested) \in Nat /\ DOMAIN ingested = 1..Len(ingested)
          /\ DOMAIN ingested' = 1..(Len(ingested) + 1)
          /\ \A i \in 1..Len(ingested) : ingested'[i] = ingested[i]
          /\ ingested'[Len(ingested) + 1] = r
      BY <1>1, <2>1, AppendProperties, LenProperties
    <3>2. ASSUME NEW i \in DOMAIN ingested', NEW j \in DOMAIN ingested',
                 i # j, ingested'[i] = ingested'[j]
          PROVE  ingested'[i] \in unmarked
      <4>1. CASE i \in DOMAIN ingested /\ j \in DOMAIN ingested
        BY <3>1, <3>2, <4>1 DEF IngestedOnce
      <4>2. CASE i \notin DOMAIN ingested \/ j \notin DOMAIN ingested
        <5>1. ingested'[i] = r /\ r \in Range(ingested)
          BY <3>1, <3>2, <4>2 DEF Range
        <5>2. QED
          BY <2>2, <5>1
      <4>3. QED
        BY <4>1, <4>2
    <3>3. QED
      BY <2>1, <3>2 DEF IngestedOnce
  <2>7. \A q \in Range(ingested') : Marked(q)'
    BY <2>1, <2>2, <2>5
  <2>8. \A q \in StreamId : handling'[q] \in Range(ingested') => handling'[q] \in unmarked'
    <3>1. None \notin Range(ingested')
      BY <1>2, <2>1, <2>5
    <3>2. QED
      BY <2>1, <2>3, <2>4, <2>5, <3>1
  <2>9. QED
    BY <2>1, <2>4, <2>6, <2>7, <2>8
<1>6. CASE ServerCrash
  <2>1. \A s \in StreamId : handling'[s] = None
    BY <1>6 DEF ServerCrash
  <2>2. UNCHANGED <<seen, ingested, unmarked>>
    BY <1>6 DEF ServerCrash
  <2>3. QED
    BY <1>2, <2>1, <2>2 DEF IngestedOnce
<1>7. Next => (\E s \in StreamId : Receive(s) \/ Ingest(s)) \/ ServerCrash \/ UNCHANGED serverVars
  BY DEF Next, Collector, Session, Server, Drain, Collect, TrySend, SendLive, SendFails,
         Enqueue, Purge, Trim, Dial, Publish, Notice, Clear, StartDrain, Peek, PeekFails,
         Resend, ResendFails, AckBatch, AckFails, Expire, Break, AgentCrash
<1>8. QED
  BY <1>3, <1>4, <1>5, <1>6, <1>7

-----------------------------------------------------------------------------
(* The theorems about AgentStream itself *)

\* New processes: nothing was collected, nothing is on the way.
LEMMA InitIInv == Init => IInv
<1>1. SUFFICES ASSUME Init PROVE IInv
  OBVIOUS
<1>2. AgentRange
  BY <1>1, StreamAssumption
  DEF Init, Started, AgentRange, Thread, SessionStep, CollectorStep, Draining
<1>3. <<>> \in Seq(Known)
  BY EmptySeq
<1>4. NetRange /\ ServerRange
  BY <1>1, <1>3, StreamAssumption DEF Init, NetRange, ServerRange
<1>5. LockInv /\ HandInv
  BY <1>1 DEF Init, Started, LockInv, HandInv, Sending, Thread
<1>6. DOMAIN ingested = {}
  BY <1>1, <1>3, EmptySeq, LenProperties DEF Init
<1>7. OnceInv
  BY <1>1, <1>6 DEF Init, OnceInv, IngestedOnce, Range
<1>8. QED
  BY <1>2, <1>4, <1>5, <1>7 DEF IInv, RangeInv

\* Every step keeps the inductive invariant.
LEMMA StepIInv == IInv /\ [Next]_streamVars => IInv'
<1>1. SUFFICES ASSUME IInv, [Next]_streamVars PROVE IInv'
  OBVIOUS
<1>2. CASE Next
  <2>1. "session" \in Thread /\ "collector" \in Thread
    BY DEF Thread
  <2>2. RangeInv'
    BY <1>1, <1>2, <2>1, DrainRange, CollectorRange, SessionRange, ServerCrashRange
    DEF IInv, Next, Collector, Session
  <2>3. QED
    BY <1>1, <1>2, <2>2, StepLock, StepHand, StepOnce DEF IInv
<1>3. CASE UNCHANGED streamVars
  BY <1>1, <1>3
  DEF IInv, RangeInv, AgentRange, NetRange, ServerRange, Known, LockInv, HandInv, OnceInv,
      Marked, IngestedOnce, streamVars, agentVars, netVars, serverVars
<1>4. QED
  BY <1>1, <1>2, <1>3

\* The inductive invariant of the path from an agent to the pipeline.
THEOREM StreamInvariant == Spec => []IInv
BY InitIInv, StepIInv, PTL DEF Spec

\* Every variable of the agent, the streams and the server stays in its range.
THEOREM StreamTypeCorrect == Spec => []TypeOK
<1>1. IInv => TypeOK
  <2>1. SUFFICES ASSUME IInv PROVE TypeOK
    OBVIOUS
  <2>2. Known \subseteq Report
    BY <2>1, StreamAssumption DEF IInv, RangeInv, AgentRange, Known, Report
  <2>3. Seq(Known) \subseteq Seq(Report)
    BY <2>2, SeqMonotonic
  <2>4. QED
    BY <2>1, <2>2, <2>3 DEF IInv, RangeInv, AgentRange, NetRange, ServerRange, TypeOK
<1>2. QED
  BY <1>1, StreamInvariant, PTL

\* The two goroutines never send on the stream at the same time.
THEOREM StreamSendsSerialised == Spec => []SendsSerialised
<1>1. IInv => SendsSerialised
  BY DEF IInv, LockInv, Sending, SendsSerialised, Thread
<1>2. QED
  BY <1>1, StreamInvariant, PTL

\* However often a report is sent, it is ingested once unless its mark failed.
THEOREM StreamIngestsOnce == Spec => []IngestedOnce
<1>1. IInv => IngestedOnce
  BY DEF IInv, OnceInv
<1>2. QED
  BY <1>1, StreamInvariant, PTL

-----------------------------------------------------------------------------
(* AgentStream implements ReportDelivery *)

\* A report is pending while the agent holds it or it is on the way, until it
\* is ingested.
Held == (spool \cup todo \cup {hand} \cup OnTheWay) \ {None}

\* A step after which the path holds no more than before loses some, or none.
LEMMA LoseStep ==
  ASSUME UNCHANGED <<made, ingested, unmarked>>, Held' \subseteq Held
  PROVE  Delivery!DeliveryNext
<1> DEFINE lost == Pending \ Pending'
<1>1. Pending' \subseteq Pending
  BY DEF Pending, Held, Delivered
<1>2. Pending' = Pending \ lost /\ lost \in SUBSET Pending
  BY <1>1
<1>3. Delivery!Lose(lost)
  BY <1>2 DEF Delivery!Lose
<1>4. \E gone \in SUBSET Pending : Delivery!Lose(gone)
  BY <1>2, <1>3
<1>5. QED
  BY <1>4 DEF Delivery!DeliveryNext

\* What is on the way afterwards was on the way or has been put there.
LEMMA WayFrom ==
  ASSUME NEW X, \A s \in StreamId :
           Range(wire'[s]) \cup {handling'[s]} \subseteq Range(wire[s]) \cup {handling[s]} \cup X
  PROVE  OnTheWay' \subseteq OnTheWay \cup X
BY DEF OnTheWay

\* The steps that move reports between the spool, a drain and the hand only.
LEMMA QuietStep ==
  ASSUME UNCHANGED <<made, ingested, unmarked, wire, handling>>,
         spool' \cup todo' \cup {hand'} \subseteq spool \cup todo \cup {hand, None}
  PROVE  Delivery!DeliveryNext
<1>1. OnTheWay' \subseteq OnTheWay
  BY DEF OnTheWay
<1>2. Held' \subseteq Held
  BY <1>1 DEF Held
<1>3. QED
  BY <1>2, LoseStep

\* A stream that ends takes reports with it.
LEMMA CutStep ==
  ASSUME RangeInv, NEW dead \in SUBSET StreamId, Cut(dead),
         UNCHANGED <<made, ingested, unmarked, handling>>,
         spool' \cup todo' \cup {hand'} \subseteq spool \cup todo \cup {hand, None}
  PROVE  Delivery!DeliveryNext
<1>1. OnTheWay' \subseteq OnTheWay
  BY CutRange, WayFrom
<1>2. QED
  BY <1>1, LoseStep DEF Held

\* A report that is sent goes on the way; drain and collectOnce let it go.
LEMMA SendStep ==
  ASSUME RangeInv, NEW s \in StreamId, NEW r \in Known, Put(s, r),
         r \in spool \cup todo \cup {hand},
         UNCHANGED <<made, ingested, unmarked, handling>>,
         spool' \cup todo' \cup {hand'} \subseteq spool \cup todo \cup {hand, None}
  PROVE  Delivery!DeliveryNext
<1>1. wire \in [StreamId -> Seq(Known)]
  BY DEF RangeInv, NetRange
<1>2. \A q \in StreamId : wire'[q] = IF q = s THEN Append(wire[s], r) ELSE wire[q]
  BY <1>1 DEF Put
<1>3. Range(Append(wire[s], r)) = Range(wire[s]) \cup {r}
  BY <1>1, AppendRange
<1>4. OnTheWay' \subseteq OnTheWay \cup {r}
  <2>1. \A q \in StreamId :
          Range(wire'[q]) \cup {handling'[q]} \subseteq Range(wire[q]) \cup {handling[q]} \cup {r}
    BY <1>2, <1>3
  <2>2. QED
    BY <2>1, WayFrom
<1>5. r \in Held
  <2>1. r # None
    BY DEF Known, None
  <2>2. QED
    BY <2>1 DEF Held
<1>6. Held' \subseteq Held
  BY <1>4, <1>5 DEF Held
<1>7. QED
  BY <1>6, LoseStep

\* The steps of drain hand reports from the spool to the stream.
LEMMA DrainImplements ==
  ASSUME RangeInv, NEW g \in Thread, Drain(g)
  PROVE  Delivery!DeliveryNext
<1>1. UNCHANGED <<made, ingested, unmarked, handling>>
  BY DEF Drain, StartDrain, Peek, PeekFails, Resend, ResendFails, AckBatch, AckFails, serverVars
<1>2. CASE Resend(g)
  <2>1. PICK r \in todo : Put(st, r) /\ todo' = todo \ {r}
    BY <1>2 DEF Resend, Oldest
  <2>2. st \in StreamId /\ r \in Known
    BY <1>2 DEF Resend, Up, RangeInv, AgentRange
  <2>3. spool' \cup todo' \cup {hand'} \subseteq spool \cup todo \cup {hand, None}
    BY <1>2, <2>1 DEF Resend
  <2>4. QED
    BY <1>1, <2>1, <2>2, <2>3, SendStep
<1>3. CASE StartDrain(g) \/ PeekFails(g) \/ Peek(g)
  <2>1. spool' \cup todo' \cup {hand'} \subseteq spool \cup todo \cup {hand, None}
    BY <1>3 DEF StartDrain, PeekFails, Peek, LeaveDrain, Oldest
  <2>2. wire' = wire
    BY <1>3 DEF StartDrain, PeekFails, Peek, netVars
  <2>3. QED
    BY <1>1, <2>1, <2>2, QuietStep
<1>4. CASE ResendFails(g) \/ AckBatch(g) \/ AckFails(g)
  <2>1. spool' \cup todo' \cup {hand'} \subseteq spool \cup todo \cup {hand, None}
    BY <1>4 DEF ResendFails, AckBatch, AckFails, LeaveDrain, Ack
  <2>2. wire' = wire
    BY <1>4 DEF ResendFails, AckBatch, AckFails, netVars
  <2>3. QED
    BY <1>1, <2>1, <2>2, QuietStep
<1>5. QED
  BY <1>2, <1>3, <1>4 DEF Drain

\* A new report: it is in hand, and was neither pending nor ingested before.
LEMMA CollectImplements ==
  ASSUME RangeInv, HandInv, Collect
  PROVE  Delivery!DeliveryNext
<1>1. UNCHANGED <<ingested, unmarked, wire, handling, spool, todo>>
  BY DEF Collect, netVars, serverVars
<1>2. CASE made < MaxReports
  <2>1. made' = made + 1 /\ hand' = made + 1 /\ hand = None
    BY <1>2 DEF Collect, Goto, HandInv
  <2>2. made + 1 # None /\ made + 1 \notin Range(ingested)
    <3>1. Range(ingested) \in SUBSET Known
      BY RangeOfSeq DEF RangeInv, ServerRange
    <3>2. QED
      BY <3>1 DEF RangeInv, AgentRange, Known, None
  <2>3. OnTheWay' = OnTheWay
    BY <1>1 DEF OnTheWay
  <2>4. Pending' = Pending \cup {made + 1}
    BY <1>1, <2>1, <2>2, <2>3 DEF Pending, Delivered
  <2>5. QED
    BY <1>1, <1>2, <2>1, <2>4 DEF Delivery!DeliveryNext, Delivery!CollectReport
<1>3. CASE ~(made < MaxReports)
  BY <1>1, <1>3, QuietStep DEF Collect
<1>4. QED
  BY <1>2, <1>3

\* The rest of collectOnce.
LEMMA CollectorImplements ==
  ASSUME RangeInv, HandInv,
         TrySend \/ SendLive \/ SendFails \/ Enqueue \/ Purge \/ Trim
  PROVE  Delivery!DeliveryNext
<1>1. UNCHANGED <<made, ingested, unmarked, handling>>
  BY DEF TrySend, SendLive, SendFails, Enqueue, Purge, Trim, serverVars
<1>2. CASE SendLive
  <2>1. spool' \cup todo' \cup {hand'} \subseteq spool \cup todo \cup {hand, None}
    BY <1>2 DEF SendLive
  <2>2. CASE hand = None
    BY <1>1, <1>2, <2>1, <2>2, QuietStep DEF SendLive
  <2>3. CASE hand # None
    <3>1. st \in StreamId /\ hand \in Known /\ Put(st, hand)
      BY <1>2, <2>3 DEF SendLive, Up, RangeInv, AgentRange
    <3>2. QED
      BY <1>1, <2>1, <3>1, SendStep
  <2>4. QED
    BY <2>2, <2>3
<1>3. CASE TrySend \/ SendFails \/ Enqueue \/ Purge \/ Trim
  <2>1. spool' \cup todo' \cup {hand'} \subseteq spool \cup todo \cup {hand, None}
    BY <1>3 DEF TrySend, SendFails, Enqueue, Purge, Trim, Newest
  <2>2. wire' = wire
    BY <1>3 DEF TrySend, SendFails, Enqueue, Purge, Trim, netVars
  <2>3. QED
    BY <1>1, <2>1, <2>2, QuietStep
<1>4. QED
  BY <1>2, <1>3

\* The steps of serveSession and the ways a stream ends.
LEMMA SessionImplements ==
  ASSUME RangeInv,
         Dial \/ Publish \/ Notice \/ Clear \/ (\E s \in StreamId : Break(s)) \/ AgentCrash
  PROVE  Delivery!DeliveryNext
<1>1. UNCHANGED <<made, ingested, unmarked, handling>>
  BY DEF Dial, Publish, Notice, Clear, Break, AgentCrash, agentVars, serverVars
<1>2. spool' \cup todo' \cup {hand'} \subseteq spool \cup todo \cup {hand, None}
  BY DEF Dial, Publish, Notice, Clear, Break, AgentCrash, agentVars
<1>3. \/ wire' = wire
      \/ \E dead \in SUBSET StreamId : Cut(dead)
  <2>1. CASE Dial \/ Publish \/ Notice
    BY <2>1 DEF Dial, Publish, Notice, netVars
  <2>2. CASE Clear
    <3>1. Up(st) => {st} \in SUBSET StreamId
      BY DEF Up, RangeInv, AgentRange
    <3>2. QED
      BY <2>2, <3>1 DEF Clear
  <2>3. CASE \E s \in StreamId : Break(s)
    <3>1. PICK s \in StreamId : Cut({s})
      BY <2>3 DEF Break
    <3>2. {s} \in SUBSET StreamId
      OBVIOUS
    <3>3. QED
      BY <3>1, <3>2
  <2>4. CASE AgentCrash
    <3>1. {s \in 1..opened : Up(s)} \in SUBSET StreamId
      BY StreamAssumption DEF RangeInv, NetRange, StreamId
    <3>2. QED
      BY <2>4, <3>1 DEF AgentCrash
  <2>5. QED
    BY <2>1, <2>2, <2>3, <2>4
<1>4. QED
  BY <1>1, <1>2, <1>3, QuietStep, CutStep

\* The server takes a report off the stream and marks it, or skips it.
LEMMA ReceiveImplements ==
  ASSUME RangeInv, NEW s \in StreamId, Receive(s)
  PROVE  Delivery!DeliveryNext
<1> DEFINE r == Head(wire[s])
<1>1. UNCHANGED <<made, ingested, spool, todo, hand>>
  BY DEF Receive, agentVars
<1>2. r \in Known /\ Range(wire[s]) = Range(Tail(wire[s])) \cup {r}
  BY TailRange DEF Receive, RangeInv, NetRange
<1>3. wire' = [wire EXCEPT ![s] = Tail(@)] /\ handling[s] = None
  BY DEF Receive
<1>4. \/ UNCHANGED <<handling, unmarked>>
      \/ handling' = [handling EXCEPT ![s] = r] /\ unmarked' = unmarked
      \/ handling' = [handling EXCEPT ![s] = r] /\ unmarked' = unmarked \cup {r}
  BY DEF Receive
<1> HIDE DEF r
<1>5. wire \in [StreamId -> Seq(Known)] /\ handling \in [StreamId -> Known \cup {None}]
  BY DEF RangeInv, NetRange, ServerRange
<1>6. \A q \in StreamId :
        Range(wire'[q]) \cup {handling'[q]} \subseteq Range(wire[q]) \cup {handling[q]}
  BY <1>2, <1>3, <1>4, <1>5
<1>7. OnTheWay' \subseteq OnTheWay
  BY <1>6 DEF OnTheWay
<1>8. CASE unmarked' = unmarked
  <2>1. Held' \subseteq Held
    BY <1>1, <1>7 DEF Held
  <2>2. QED
    BY <1>1, <1>8, <2>1, LoseStep
<1>9. CASE handling' = [handling EXCEPT ![s] = r] /\ unmarked' = unmarked \cup {r}
  <2>1. \A q \in StreamId :
          Range(wire[q]) \cup {handling[q]} \subseteq Range(wire'[q]) \cup {handling'[q], None}
    BY <1>2, <1>3, <1>5, <1>9
  <2>2. OnTheWay \subseteq OnTheWay' \cup {None}
    BY <2>1 DEF OnTheWay
  <2>3. Pending' = Pending
    BY <1>1, <1>7, <2>2 DEF Pending, Delivered
  <2>4. Delivery!Unmark(r) /\ r \in 1..made
    BY <1>1, <1>2, <1>9, <2>3 DEF Delivery!Unmark, Known
  <2>5. QED
    BY <2>4 DEF Delivery!DeliveryNext
<1>10. QED
  BY <1>4, <1>8, <1>9

\* What the server processed is ingested: for the first time, or its mark failed.
LEMMA IngestImplements ==
  ASSUME RangeInv, OnceInv, NEW s \in StreamId, Ingest(s)
  PROVE  Delivery!DeliveryNext
<1> DEFINE r == handling[s]
<1>1. /\ r # None
      /\ ingested' = Append(ingested, r)
      /\ handling' = [handling EXCEPT ![s] = None]
      /\ UNCHANGED <<made, unmarked, spool, todo, hand, wire>>
  BY DEF Ingest, agentVars, netVars
<1>2. handling \in [StreamId -> Known \cup {None}] /\ ingested \in Seq(Known)
  BY DEF RangeInv, ServerRange
<1>3. r \in Known /\ (r \in Range(ingested) => r \in unmarked) /\ r \in OnTheWay
  BY <1>1, <1>2 DEF OnceInv, OnTheWay
<1>4. \A q \in StreamId : handling'[q] = IF q = s THEN None ELSE handling[q]
  BY <1>1, <1>2
<1>5. handling[s] = r
  OBVIOUS
<1> HIDE DEF r
<1>6. Range(ingested') = Range(ingested) \cup {r}
  BY <1>1, <1>2, <1>3, AppendRange
<1>7. OnTheWay' \subseteq OnTheWay \cup {None} /\ OnTheWay \subseteq OnTheWay' \cup {r}
  BY <1>1, <1>4, <1>5 DEF OnTheWay
<1>8. Pending' = Pending \ {r}
  BY <1>1, <1>6, <1>7 DEF Pending, Delivered
<1>9. CASE r \notin Range(ingested)
  <2>1. r \in Pending
    BY <1>1, <1>3, <1>9 DEF Pending, Delivered
  <2>2. Delivery!Deliver(r)
    BY <1>1, <1>8, <2>1 DEF Delivery!Deliver
  <2>3. QED
    BY <2>1, <2>2 DEF Delivery!DeliveryNext
<1>10. CASE r \in Range(ingested)
  <2>1. Pending' = Pending
    BY <1>8, <1>10 DEF Pending, Delivered
  <2>2. Delivery!Repeat(r) /\ r \in 1..made
    BY <1>1, <1>3, <1>10, <2>1 DEF Delivery!Repeat, Known
  <2>3. QED
    BY <2>2 DEF Delivery!DeliveryNext
<1>11. QED
  BY <1>9, <1>10

\* Reports too old for the server, and what its crash takes with it, are lost.
LEMMA ServerLosesImplements ==
  ASSUME RangeInv, (\E s \in StreamId : Expire(s)) \/ ServerCrash
  PROVE  Delivery!DeliveryNext
<1>1. UNCHANGED <<made, ingested, unmarked, spool, todo, hand>>
  BY DEF Expire, ServerCrash, agentVars, serverVars
<1>2. wire \in [StreamId -> Seq(Known)]
  BY DEF RangeInv, NetRange
<1>3. \A q \in StreamId :
        Range(wire'[q]) \cup {handling'[q]} \subseteq Range(wire[q]) \cup {handling[q]} \cup {None}
  <2>1. CASE \E s \in StreamId : Expire(s)
    <3>1. PICK s \in StreamId : Expire(s)
      BY <2>1
    <3>2. Range(Tail(wire[s])) \subseteq Range(wire[s])
      BY <1>2, <3>1, TailRange DEF Expire
    <3>3. QED
      BY <1>2, <3>1, <3>2 DEF Expire, serverVars
  <2>2. CASE ServerCrash
    <3>1. Range(<<>>) = {}
      BY DEF Range
    <3>2. QED
      BY <2>2, <3>1 DEF ServerCrash
  <2>3. QED
    BY <2>1, <2>2
<1>4. OnTheWay' \subseteq OnTheWay \cup {None}
  BY <1>3, WayFrom
<1>5. Held' \subseteq Held
  BY <1>1, <1>4 DEF Held
<1>6. QED
  BY <1>1, <1>5, LoseStep

\* Whatever breaks, crashes or is repeated on the way, the path from an agent's
\* collection to the server's pipeline is one that ReportDelivery allows.
THEOREM StreamImplementsDelivery == Spec => ImplementsDelivery
<1>1. Init => Delivery!DeliveryInit
  <2>1. SUFFICES ASSUME Init PROVE Delivery!DeliveryInit
    OBVIOUS
  <2>2. Range(<<>>) = {}
    BY DEF Range
  <2>3. OnTheWay \subseteq {None}
    BY <2>1, <2>2 DEF Init, OnTheWay
  <2>4. Pending = {}
    BY <2>1, <2>3 DEF Init, Pending
  <2>5. QED
    BY <2>1, <2>4 DEF Init, Delivery!DeliveryInit
<1>2. ASSUME IInv, [Next]_streamVars
      PROVE  [Delivery!DeliveryNext]_(Delivery!deliveryVars)
  <2>1. CASE Next
    <3>1. "session" \in Thread /\ "collector" \in Thread
      BY DEF Thread
    <3>2. Delivery!DeliveryNext
      BY <1>2, <2>1, <3>1, DrainImplements, CollectImplements, CollectorImplements,
         SessionImplements, ReceiveImplements, IngestImplements, ServerLosesImplements
      DEF IInv, Next, Collector, Session, Server
    <3>3. QED
      BY <3>2
  <2>2. CASE UNCHANGED streamVars
    BY <2>2 DEF streamVars, agentVars, netVars, serverVars, Delivery!deliveryVars,
                Pending, OnTheWay, Delivered
  <2>3. QED
    BY <1>2, <2>1, <2>2
<1>3. QED
  BY <1>1, <1>2, StreamInvariant, PTL DEF Spec, ImplementsDelivery, Delivery!DeliverySpec


-----------------------------------------------------------------------------
(* The limit of the spool *)

\* A set of numbers that is not empty has a least member.
LEMMA LeastOf ==
  ASSUME NEW S, S \subseteq Nat, S # {}
  PROVE  \E m \in S : \A r \in S : m <= r
<1> DEFINE Less == {p \in Nat \X Nat : p[1] < p[2]}
<1>1. IsWellFoundedOn(Less, Nat)
  BY NatLessThanWellFounded DEF OpToRel
<1> HIDE DEF Less
<1>2. PICK m \in S : \A r \in S : ~(<<r, m>> \in Less)
  BY <1>1, WFMin
<1>3. ASSUME NEW r \in S PROVE m <= r
  <2>1. m \in Nat /\ r \in Nat
    OBVIOUS
  <2>2. r < m => <<r, m>> \in Less
    BY <2>1 DEF Less
  <2>3. QED
    BY <1>2, <2>1, <2>2
<1>4. QED
  BY <1>3

\* Trim leaves no more than the limit: all but the least of them are newer than
\* the least, and those are fewer than the limit.
LEMMA NewestIsSmall ==
  ASSUME NEW S, IsFiniteSet(S), S \subseteq Nat, NEW n \in Nat \ {0}
  PROVE  IsFiniteSet(Newest(S, n)) /\ Cardinality(Newest(S, n)) <= n
<1> DEFINE N == Newest(S, n)
<1>1. N \subseteq S
  BY DEF Newest
<1>2. IsFiniteSet(N)
  BY <1>1, FS_Subset
<1>3. CASE N = {}
  BY <1>2, <1>3, FS_EmptySet
<1>4. CASE N # {}
  <2>1. PICK m \in N : \A r \in N : m <= r
    BY <1>1, <1>4, LeastOf
  <2>2. m \in Nat
    BY <1>1
  <2> DEFINE newer == {q \in S : q > m}
  <2>3. newer \subseteq S /\ Cardinality(newer) < n
    BY <2>1 DEF Newest
  <2>4. IsFiniteSet(newer)
    BY <2>3, FS_Subset
  <2>5. Cardinality(newer) \in Nat
    BY <2>4, FS_CardinalityType
  <2>6. IsFiniteSet(newer \cup {m}) /\ Cardinality(newer \cup {m}) <= Cardinality(newer) + 1
    <3>1. m \notin newer
      BY <2>2
    <3> HIDE DEF newer, N
    <3>2. IsFiniteSet(newer \cup {m}) /\ Cardinality(newer \cup {m}) = Cardinality(newer) + 1
      BY <2>4, <3>1, FS_AddElement
    <3>3. QED
      BY <2>5, <3>2
  <2>7. N \subseteq newer \cup {m}
    <3>1. ASSUME NEW r \in N PROVE r = m \/ r > m
      <4>1. r \in Nat /\ m <= r
        BY <1>1, <2>1
      <4>2. QED
        BY <2>2, <4>1
    <3>2. QED
      BY <1>1, <3>1
  <2> HIDE DEF newer, N
  <2>8. Cardinality(N) <= Cardinality(newer \cup {m})
    BY <2>6, <2>7, FS_Subset
  <2>9. Cardinality(N) \in Nat /\ Cardinality(newer \cup {m}) \in Nat
    BY <1>2, <2>6, FS_CardinalityType
  <2>10. QED
    BY <1>2, <2>3, <2>5, <2>6, <2>8, <2>9 DEF N
<1>5. QED
  BY <1>3, <1>4

\* Between Enqueue and Trim there is one entry more.
Untrimmed == IF pc["collector"] \in {"purge", "trim"} THEN 1 ELSE 0
BoundInv == Cardinality(spool) <= MaxEntries + failures + Untrimmed

\* A queue of collected reports is finite.
LEMMA QueueIsFinite ==
  ASSUME NEW k \in 0..MaxReports, NEW queue \in SUBSET (1..k)
  PROVE  IsFiniteSet(queue) /\ Cardinality(queue) \in Nat /\ queue \subseteq Nat
<1>1. k \in Nat /\ queue \subseteq Nat
  BY StreamAssumption
<1>2. IsFiniteSet(1..k)
  BY <1>1, FS_Interval
<1>3. IsFiniteSet(queue)
  BY <1>2, FS_Subset
<1>4. QED
  BY <1>1, <1>3, FS_CardinalityType

LEMMA SpoolIsFinite ==
  ASSUME RangeInv, RangeInv'
  PROVE  /\ IsFiniteSet(spool) /\ Cardinality(spool) \in Nat /\ spool \subseteq Nat
         /\ IsFiniteSet(spool') /\ Cardinality(spool') \in Nat
<1>1. made \in 0..MaxReports /\ spool \in SUBSET (1..made)
  BY DEF RangeInv, AgentRange, Known
<1>2. made' \in 0..MaxReports /\ spool' \in SUBSET (1..made')
  BY DEF RangeInv, AgentRange, Known
<1>3. QED
  BY <1>1, <1>2, QueueIsFinite

\* A step that adds nothing to the spool and does not leave Trim.
LEMMA NoMoreEntries ==
  ASSUME RangeInv, RangeInv', BoundInv, spool' \subseteq spool,
         (failures' = failures /\ Untrimmed <= Untrimmed') \/ failures' = failures + 1
  PROVE  BoundInv'
<1>1. Cardinality(spool') <= Cardinality(spool)
  BY SpoolIsFinite, FS_Subset
<1>2. Cardinality(spool) \in Nat /\ Cardinality(spool') \in Nat
  BY SpoolIsFinite
<1>3. failures \in Nat /\ MaxEntries \in Nat
  BY StreamAssumption DEF RangeInv, AgentRange
<1>4. Untrimmed \in {0, 1} /\ Untrimmed' \in {0, 1}
  BY DEF Untrimmed
<1> HIDE DEF Untrimmed
<1>5. QED
  BY <1>1, <1>2, <1>3, <1>4 DEF BoundInv

LEMMA EnqueueBound ==
  ASSUME RangeInv, RangeInv', BoundInv, Enqueue
  PROVE  BoundInv'
<1>1. "collector" \in Thread
  BY DEF Thread
<1>2. CASE Goto("collector", "enqueue", "purge") /\ spool' = spool \cup {hand}
  <2>1. Untrimmed = 0 /\ Untrimmed' = 1 /\ failures' = failures
    BY <1>1, <1>2, GotoEffect DEF Untrimmed, Enqueue
  <2>2. IsFiniteSet(spool) /\ Cardinality(spool) \in Nat
    BY SpoolIsFinite
  <2>3. Cardinality(spool') <= Cardinality(spool) + 1
    <3>1. Cardinality(spool') = Cardinality(spool) \/ Cardinality(spool') = Cardinality(spool) + 1
      BY <1>2, <2>2, FS_AddElement
    <3>2. QED
      BY <2>2, <3>1
  <2>4. failures \in Nat /\ MaxEntries \in Nat /\ Cardinality(spool') \in Nat
    BY SpoolIsFinite, StreamAssumption DEF RangeInv, AgentRange
  <2>5. QED
    BY <2>1, <2>2, <2>3, <2>4 DEF BoundInv
<1>3. CASE Goto("collector", "enqueue", "collect") /\ UNCHANGED spool
  <2>1. Untrimmed = 0 /\ Untrimmed' = 0 /\ failures' = failures
    BY <1>1, <1>3, GotoEffect DEF Untrimmed, Enqueue
  <2>2. QED
    BY <1>3, <2>1, NoMoreEntries
<1>4. QED
  BY <1>2, <1>3 DEF Enqueue

LEMMA TrimBound ==
  ASSUME RangeInv, RangeInv', BoundInv, Trim
  PROVE  BoundInv'
<1>1. CASE spool' = Newest(spool, MaxEntries) /\ UNCHANGED failures
  <2>1. MaxEntries \in Nat \ {0}
    BY StreamAssumption
  <2>2. Cardinality(spool') <= MaxEntries /\ Cardinality(spool') \in Nat
    BY <1>1, <2>1, SpoolIsFinite, NewestIsSmall
  <2>3. failures' \in Nat /\ MaxEntries \in Nat /\ Untrimmed' \in {0, 1}
    BY StreamAssumption DEF RangeInv, AgentRange, Untrimmed
  <2>4. QED
    BY <2>2, <2>3 DEF BoundInv
<1>2. CASE failures' = failures + 1 /\ UNCHANGED spool
  BY <1>2, NoMoreEntries
<1>3. QED
  BY <1>1, <1>2 DEF Trim

\* The other steps of the collector, and those of the session.
LEMMA DrainBound ==
  ASSUME RangeInv, RangeInv', BoundInv, NEW g \in Thread, Drain(g)
  PROVE  BoundInv'
<1>1. "collector" \in Thread
  BY DEF Thread
<1>2. spool' \subseteq spool /\ failures' = failures
  BY DEF Drain, StartDrain, Peek, PeekFails, Resend, ResendFails, AckBatch, AckFails, Ack
<1>3. UNCHANGED pc \/ \E from \in {"drain", "peek", "resend"} : \E to : Goto(g, from, to)
  BY DEF Drain, StartDrain, Peek, PeekFails, Resend, ResendFails, AckBatch, AckFails, LeaveDrain
<1>4. Untrimmed <= Untrimmed'
  <2>1. CASE UNCHANGED pc
    BY <2>1 DEF Untrimmed
  <2>2. ASSUME NEW from \in {"drain", "peek", "resend"}, NEW to, Goto(g, from, to)
        PROVE  Untrimmed <= Untrimmed'
    <3>1. CASE g = "collector"
      BY <1>1, <2>2, <3>1, GotoEffect DEF Untrimmed
    <3>2. CASE g # "collector"
      BY <1>1, <2>2, <3>2, GotoEffect DEF Untrimmed
    <3>3. QED
      BY <3>1, <3>2
  <2>3. QED
    BY <1>3, <2>1, <2>2
<1>5. QED
  BY <1>2, <1>4, NoMoreEntries

LEMMA StepBound ==
  ASSUME RangeInv, RangeInv', BoundInv, [Next]_streamVars
  PROVE  BoundInv'
<1>1. "session" \in Thread /\ "collector" \in Thread /\ "session" # "collector"
  BY DEF Thread
<1>2. CASE Collector
  <2>1. CASE Collect \/ TrySend \/ SendLive \/ SendFails \/ Purge
    <3>1. spool' \subseteq spool /\ failures' = failures
      BY <2>1 DEF Collect, TrySend, SendLive, SendFails, Purge
    <3>2. Untrimmed <= Untrimmed'
      BY <1>1, <2>1, GotoEffect DEF Untrimmed, Collect, TrySend, SendLive, SendFails, Purge
    <3>3. QED
      BY <3>1, <3>2, NoMoreEntries
  <2>2. QED
    BY <1>1, <1>2, <2>1, EnqueueBound, TrimBound, DrainBound DEF Collector
<1>3. CASE Session
  <2>1. CASE Dial \/ Publish \/ Notice \/ Clear
    <3>1. spool' \subseteq spool /\ failures' = failures
      BY <2>1 DEF Dial, Publish, Notice, Clear
    <3>2. Untrimmed <= Untrimmed'
      BY <1>1, <2>1, GotoEffect DEF Untrimmed, Dial, Publish, Notice, Clear
    <3>3. QED
      BY <3>1, <3>2, NoMoreEntries
  <2>2. QED
    BY <1>1, <1>3, <2>1, DrainBound DEF Session
<1>4. CASE (\E s \in StreamId : Server(s) \/ Break(s)) \/ UNCHANGED streamVars
  <2>1. UNCHANGED <<pc, spool, failures>>
    BY <1>4 DEF Server, Receive, Expire, Ingest, Break, agentVars, streamVars
  <2>2. Untrimmed <= Untrimmed'
    BY <2>1 DEF Untrimmed
  <2>3. QED
    BY <2>1, <2>2, NoMoreEntries
<1>5. CASE AgentCrash \/ ServerCrash
  BY <1>5, NoMoreEntries DEF AgentCrash, ServerCrash, agentVars
<1>6. QED
  BY <1>2, <1>3, <1>4, <1>5 DEF Next

\* The queue is over its limit by the entry just added, at most, and by one for
\* every Trim that did not run or failed, whatever the limit.
THEOREM StreamBoundsSpool == Spec => []SpoolBounded
<1>1. Init => IInv /\ BoundInv
  <2> SUFFICES ASSUME Init PROVE BoundInv
    BY InitIInv
  <2>1. Cardinality(spool) = 0 /\ failures = 0 /\ Untrimmed = 0
    BY FS_EmptySet DEF Init, Started, Untrimmed, Thread
  <2>2. QED
    BY <2>1, StreamAssumption DEF BoundInv
<1>2. (IInv /\ BoundInv) /\ [Next]_streamVars => (IInv /\ BoundInv)'
  BY StepIInv, StepBound DEF IInv
<1>3. IInv /\ BoundInv => SpoolBounded
  <2> SUFFICES ASSUME IInv, BoundInv PROVE SpoolBounded
    OBVIOUS
  <2>1. made \in 0..MaxReports /\ spool \in SUBSET (1..made) /\ failures \in 0..MaxFailures
    BY DEF IInv, RangeInv, AgentRange, Known
  <2>2. /\ Cardinality(spool) \in Nat /\ failures \in Nat /\ MaxEntries \in Nat
        /\ Untrimmed \in {0, 1}
    BY <2>1, QueueIsFinite, StreamAssumption DEF Untrimmed
  <2>3. QED
    BY <2>2 DEF BoundInv, SpoolBounded
<1>4. QED
  BY <1>1, <1>2, <1>3, PTL DEF Spec

-----------------------------------------------------------------------------
(* The order while the session serves *)

\* The report in hand is newer than the queue and what a drain has taken from it.
HandIsNewest == hand # None => \A r \in spool \cup todo : r < hand

\* What a drain of the collector has not peeked is newer than what it has.
BatchIsOldest ==
  pc["collector"] = "resend" => \A t \in todo, x \in spool \ (todo \cup sent) : t < x

\* When the session serves, the collector sends its report only after the queue,
\* unless the stream has broken in the meantime.
QueueIsEmpty ==
  pc["session"] = "serve" /\ pc["collector"] \in {"trysend", "send"} /\ Up(st) => spool = {}

OrderInv == st <= opened /\ HandIsNewest /\ BatchIsOldest /\ QueueIsEmpty

\* What is not among the oldest of a queue is newer than those.
LEMMA OldestAreOldest ==
  ASSUME NEW S, S \subseteq Nat, IsFiniteSet(S), NEW n \in Nat \ {0},
         NEW t \in Oldest(S, n), NEW x \in S, x \notin Oldest(S, n)
  PROVE  t < x
<1>1. t \in S /\ t \in Nat /\ x \in Nat
  BY DEF Oldest
<1> DEFINE Below(r) == {q \in S : q < r}
<1>2. Cardinality(Below(t)) < n /\ ~(Cardinality(Below(x)) < n)
  BY DEF Oldest
<1>3. IsFiniteSet(Below(t)) /\ IsFiniteSet(Below(x))
  <2>1. Below(t) \subseteq S /\ Below(x) \subseteq S
    OBVIOUS
  <2>2. QED
    BY <2>1, FS_Subset
<1>4. Cardinality(Below(t)) \in Nat /\ Cardinality(Below(x)) \in Nat
  BY <1>3, FS_CardinalityType
<1>5. CASE ~(t < x)
  <2>1. Below(x) \subseteq Below(t)
    <3>1. ASSUME NEW q \in Below(x) PROVE q \in Below(t)
      <4>1. q \in S /\ q \in Nat /\ q < x
        OBVIOUS
      <4>2. q < t
        BY <1>1, <1>5, <4>1
      <4>3. QED
        BY <4>1, <4>2
    <3>2. QED
      BY <3>1
  <2> HIDE DEF Below
  <2>2. Cardinality(Below(x)) <= Cardinality(Below(t))
    BY <1>3, <2>1, FS_Subset
  <2>3. QED
    BY <1>2, <1>4, <2>2
<1>6. QED
  BY <1>5

\* The oldest of a queue is older than all of it.
LEMMA TheOldest ==
  ASSUME NEW S, S \subseteq Nat, IsFiniteSet(S), NEW t \in Oldest(S, 1)
  PROVE  t \in S /\ \A x \in S : t <= x
<1>1. t \in S /\ t \in Nat
  BY DEF Oldest
<1> DEFINE below == {q \in S : q < t}
<1>2. Cardinality(below) < 1
  BY DEF Oldest
<1>3. below \subseteq S
  OBVIOUS
<1>4. IsFiniteSet(below)
  BY <1>3, FS_Subset
<1>5. below = {}
  <2> HIDE DEF below
  <2>1. Cardinality(below) \in Nat
    BY <1>4, FS_CardinalityType
  <2>2. Cardinality(below) = 0
    BY <1>2, <2>1
  <2>3. QED
    BY <1>4, <2>2, FS_EmptySet
<1>6. ASSUME NEW x \in S PROVE t <= x
  <2>1. x \in Nat /\ ~(x < t)
    BY <1>5
  <2>2. QED
    BY <1>1, <2>1
<1>7. QED
  BY <1>1, <1>6

\* Who drains has the queue and the batch for itself.
LEMMA SessionDrainsAlone ==
  ASSUME LockInv, pc["session"] \in Sending
  PROVE  pc["collector"] \notin Sending
BY DEF LockInv, Thread

-----------------------------------------------------------------------------
\* No step but Publish brings up the stream that is published.
LEMMA UpKept ==
  ASSUME RangeInv, st <= opened, st' = st \/ st' = None,
         broken \subseteq broken' \/ broken' = 1..opened
  PROVE  Up(st)' => Up(st)
<1>1. st \in Nat /\ opened \in Nat
  BY StreamAssumption DEF RangeInv, AgentRange, NetRange, StreamId, None
<1>2. QED
  BY <1>1 DEF Up, None

\* A step that only takes from the queue and does not go on with a drain keeps
\* the order, unless it ends a drain that was not finished.
LEMMA OrderKept ==
  ASSUME OrderInv, hand' = hand \/ hand' = None,
         spool' \subseteq spool, todo' \subseteq spool \cup todo,
         pc'["collector"] = "resend" => pc["collector"] = "resend" /\ UNCHANGED <<todo, sent>>,
         st' <= opened', pc'["session"] = "serve" => (Up(st)' => Up(st)),
         pc'["session"] = "serve" => pc["session"] = "serve" \/ spool = {} \/ ~Up(st),
         pc'["collector"] \in {"trysend", "send"} =>
           pc["collector"] \in {"trysend", "send"} \/ spool = {} \/ ~Up(st)
  PROVE  OrderInv'
<1>1. HandIsNewest' /\ BatchIsOldest'
  BY DEF OrderInv, HandIsNewest, BatchIsOldest
<1>2. QueueIsEmpty'
  BY DEF OrderInv, QueueIsEmpty
<1>3. QED
  BY <1>1, <1>2 DEF OrderInv

\* Where a goroutine goes, the other one stays.
LEMMA GotoMoves ==
  ASSUME RangeInv, NEW g \in Thread, NEW from, NEW to, Goto(g, from, to)
  PROVE  pc[g] = from /\ pc'[g] = to /\ \A h \in Thread \ {g} : pc'[h] = pc[h]
BY DEF RangeInv, AgentRange, Goto

\* The steps of drain, when neither Peek nor Ack fails.
LEMMA DrainOrder ==
  ASSUME Faults \cap {"peek", "ack"} = {}, RangeInv, LockInv, OrderInv,
         NEW g \in Thread, Drain(g)
  PROVE  OrderInv'
<1>1. g = "session" \/ g = "collector"
  BY DEF Thread
<1>2. \A h \in Thread : pc[h] \in Sending <=> mu = h
  BY DEF LockInv
<1>3. "session" \in Thread /\ "collector" \in Thread /\ "session" # "collector"
  BY DEF Thread
<1>4. st <= opened
  BY DEF OrderInv
<1>5. ASSUME UNCHANGED <<st, broken>> PROVE Up(st)' <=> Up(st)
  BY <1>5 DEF Up
<1>6. spool \subseteq Nat /\ IsFiniteSet(spool)
  <2>1. spool \subseteq 1..made /\ made \in Nat
    BY StreamAssumption DEF RangeInv, AgentRange, Known
  <2>2. IsFiniteSet(1..made)
    BY <2>1, FS_Interval
  <2>3. IsFiniteSet(spool)
    BY <2>1, <2>2, FS_Subset
  <2>4. QED
    BY <2>1, <2>3
<1>7. CASE StartDrain(g)
  <2>1. UNCHANGED <<st, hand, spool, todo, sent, broken, opened>>
    BY <1>7 DEF StartDrain, netVars
  <2>2. \/ st = None /\ Goto(g, "drain", AfterDrain(g, TRUE))
        \/ Goto(g, "drain", "peek")
    BY <1>7 DEF StartDrain
  <2>3. CASE st = None /\ Goto(g, "drain", AfterDrain(g, TRUE))
    <3>1. ~Up(st)
      BY <2>3 DEF Up
    <3>2. pc'[g] \in {"serve", "trysend"} /\ \A h \in Thread \ {g} : pc'[h] = pc[h]
      BY <2>3, GotoMoves DEF AfterDrain
    <3>3. QED
      BY <1>1, <1>3, <1>4, <1>5, <2>1, <3>1, <3>2, OrderKept
  <2>4. CASE Goto(g, "drain", "peek")
    <3>1. pc'[g] = "peek" /\ \A h \in Thread \ {g} : pc'[h] = pc[h]
      BY <2>4, GotoMoves
    <3>2. QED
      BY <1>1, <1>3, <1>4, <1>5, <2>1, <3>1, OrderKept
  <2>5. QED
    BY <2>2, <2>3, <2>4
<1>8. CASE Peek(g)
  <2>1. UNCHANGED <<st, hand, spool, broken, opened>>
    BY <1>8 DEF Peek, netVars
  <2>2. CASE spool = {}
    <3>1. /\ pc[g] = "peek" /\ pc'[g] # "resend" /\ todo' = {}
          /\ \A h \in Thread \ {g} : pc'[h] = pc[h]
      BY <1>8, <2>2, GotoMoves DEF Peek, LeaveDrain, AfterDrain
    <3>2. \A h \in Thread \ {g} : pc[h] # "resend"
      BY <1>2, <3>1 DEF Sending
    <3>3. QED
      BY <1>1, <1>3, <1>4, <1>5, <2>1, <2>2, <3>1, <3>2, OrderKept
  <2>3. CASE spool # {}
    <3>1. /\ pc[g] = "peek" /\ pc'[g] = "resend" /\ todo' = Oldest(spool, ReplayBatch)
          /\ sent' = sent /\ \A h \in Thread \ {g} : pc'[h] = pc[h]
      BY <1>8, <2>3, GotoMoves DEF Peek
    <3>2. todo' \subseteq spool
      BY <3>1 DEF Oldest
    <3>3. CASE g = "session"
      <4>1. pc["collector"] # "resend"
        BY <1>2, <1>3, <3>1, <3>3 DEF Sending
      <4>2. QED
        BY <1>3, <1>4, <1>5, <2>1, <3>1, <3>2, <3>3, <4>1, OrderKept
    <3>4. CASE g = "collector"
      <4>1. ASSUME NEW t \in todo', NEW x \in spool' \ (todo' \cup sent') PROVE t < x
        <5>1. ReplayBatch \in Nat \ {0}
          BY StreamAssumption
        <5>2. QED
          BY <1>6, <2>1, <3>1, <4>1, <5>1, OldestAreOldest
      <4>2. HandIsNewest' /\ BatchIsOldest'
        BY <2>1, <3>2, <4>1 DEF OrderInv, HandIsNewest, BatchIsOldest
      <4>3. QED
        BY <1>4, <2>1, <3>1, <3>4, <4>2 DEF OrderInv, QueueIsEmpty
    <3>5. QED
      BY <1>1, <3>3, <3>4
  <2>4. QED
    BY <2>2, <2>3
<1>9. CASE Resend(g)
  <2>1. /\ pc[g] = "resend"
        /\ UNCHANGED <<pc, st, hand, spool, broken, opened>>
    BY <1>9 DEF Resend
  <2>2. PICK r \in todo : todo' = todo \ {r} /\ sent' = sent \cup {r}
    BY <1>9 DEF Resend, Oldest
  <2>3. HandIsNewest'
    BY <2>1, <2>2 DEF OrderInv, HandIsNewest
  <2>4. BatchIsOldest'
    BY <2>1, <2>2 DEF OrderInv, BatchIsOldest
  <2>5. QueueIsEmpty'
    BY <1>5, <2>1 DEF OrderInv, QueueIsEmpty
  <2>6. QED
    BY <1>4, <2>1, <2>3, <2>4, <2>5 DEF OrderInv
<1>10. CASE ResendFails(g)
  <2>1. /\ UNCHANGED <<st, hand, broken, opened>> /\ ~Up(st)
        /\ spool' \subseteq spool /\ todo' = {}
    BY <1>10 DEF ResendFails, LeaveDrain, Ack, netVars
  <2>2. /\ pc[g] = "resend" /\ pc'[g] # "resend"
        /\ \A h \in Thread \ {g} : pc'[h] = pc[h]
    BY <1>10, GotoMoves DEF ResendFails, LeaveDrain, AfterDrain
  <2>3. \A h \in Thread \ {g} : pc[h] # "resend"
    BY <1>2, <2>2 DEF Sending
  <2>4. QED
    BY <1>1, <1>3, <1>4, <1>5, <2>1, <2>2, <2>3, OrderKept
<1>11. CASE AckBatch(g)
  <2>1. UNCHANGED <<st, hand, broken, opened, todo>> /\ spool' \subseteq spool
    BY <1>11 DEF AckBatch, Ack, netVars
  <2>2. /\ pc[g] = "resend" /\ pc'[g] = "peek"
        /\ \A h \in Thread \ {g} : pc'[h] = pc[h]
    BY <1>11, GotoMoves DEF AckBatch
  <2>3. \A h \in Thread \ {g} : pc[h] # "resend"
    BY <1>2, <2>2 DEF Sending
  <2>4. QED
    BY <1>1, <1>3, <1>4, <1>5, <2>1, <2>2, <2>3, OrderKept
<1>12. ~PeekFails(g) /\ ~AckFails(g)
  BY DEF PeekFails, AckFails
<1>13. QED
  BY <1>7, <1>8, <1>9, <1>10, <1>11, <1>12 DEF Drain

\* The other steps of the collector.
LEMMA CollectorOrder ==
  ASSUME RangeInv, HandInv, OrderInv,
         Collect \/ TrySend \/ SendLive \/ SendFails \/ Enqueue \/ Purge \/ Trim
  PROVE  OrderInv'
<1>1. "session" \in Thread /\ "collector" \in Thread /\ "session" # "collector"
  BY DEF Thread
<1>2. /\ st <= opened
      /\ UNCHANGED <<st, opened, broken, todo, sent>>
      /\ pc'["session"] = pc["session"] /\ pc'["collector"] # "resend"
  <2>1. st <= opened
    BY DEF OrderInv
  <2>2. ASSUME NEW from, NEW to, to # "resend", Goto("collector", from, to)
        PROVE  pc'["session"] = pc["session"] /\ pc'["collector"] # "resend"
    BY <1>1, <2>2, GotoMoves
  <2>3. CASE Collect
    BY <2>1, <2>2, <2>3 DEF Collect, netVars
  <2>4. CASE TrySend
    BY <2>1, <2>2, <2>4 DEF TrySend, netVars
  <2>5. CASE SendLive
    BY <2>1, <2>2, <2>5 DEF SendLive
  <2>6. CASE SendFails
    BY <2>1, <2>2, <2>6 DEF SendFails, netVars
  <2>7. CASE Enqueue
    BY <2>1, <2>2, <2>7 DEF Enqueue, netVars
  <2>8. CASE Purge
    BY <2>1, <2>2, <2>8 DEF Purge, netVars
  <2>9. CASE Trim
    BY <2>1, <2>2, <2>9 DEF Trim, netVars
  <2>10. QED
    BY <2>3, <2>4, <2>5, <2>6, <2>7, <2>8, <2>9
<1>3. Up(st)' <=> Up(st)
  BY <1>2 DEF Up
<1>4. ASSUME HandIsNewest', QueueIsEmpty' PROVE OrderInv'
  BY <1>2, <1>4 DEF OrderInv, BatchIsOldest
<1>5. ASSUME hand' = hand \/ hand' = None, spool' \subseteq spool PROVE HandIsNewest'
  BY <1>2, <1>5 DEF OrderInv, HandIsNewest
<1>6. ASSUME spool' \subseteq spool,
             pc'["collector"] \in {"trysend", "send"} => pc["collector"] \in {"trysend", "send"}
      PROVE  QueueIsEmpty'
  BY <1>2, <1>3, <1>6 DEF OrderInv, QueueIsEmpty
<1>7. ASSUME NEW from, NEW to, to \notin {"trysend", "send"}, Goto("collector", from, to)
      PROVE  pc'["collector"] \notin {"trysend", "send"}
  BY <1>1, <1>7, GotoMoves
<1>8. CASE Collect
  <2>1. spool' = spool /\ pc'["collector"] \notin {"trysend", "send"}
    BY <1>7, <1>8 DEF Collect
  <2>2. pc["collector"] = "collect"
    BY <1>8 DEF Collect, Goto
  <2>3. HandIsNewest'
    <3>1. CASE made < MaxReports
      <4>1. made \in Nat /\ hand' = made + 1 /\ spool \cup todo \subseteq 1..made
        BY <1>8, <3>1, StreamAssumption DEF Collect, RangeInv, AgentRange, Known
      <4>2. QED
        BY <1>2, <2>1, <4>1 DEF HandIsNewest
    <3>2. CASE ~(made < MaxReports)
      BY <1>5, <1>8, <2>1, <3>2 DEF Collect
    <3>3. QED
      BY <3>1, <3>2
  <2>4. QED
    BY <1>4, <1>6, <2>1, <2>3
<1>9. CASE TrySend
  BY <1>4, <1>5, <1>6, <1>9 DEF TrySend, Goto
<1>10. CASE SendLive
  BY <1>4, <1>5, <1>6, <1>7, <1>10 DEF SendLive
<1>11. CASE SendFails
  BY <1>4, <1>5, <1>6, <1>7, <1>11 DEF SendFails
<1>12. CASE Enqueue
  <2>1. hand' = None /\ pc'["collector"] \notin {"trysend", "send"}
    BY <1>7, <1>12 DEF Enqueue
  <2>2. HandIsNewest' /\ QueueIsEmpty'
    BY <2>1 DEF HandIsNewest, QueueIsEmpty
  <2>3. QED
    BY <1>4, <2>2
<1>13. CASE Purge
  <2>1. hand' = hand /\ spool' \subseteq spool /\ pc'["collector"] \notin {"trysend", "send"}
    BY <1>7, <1>13 DEF Purge
  <2>2. QED
    BY <1>4, <1>5, <1>6, <2>1
<1>14. CASE Trim
  <2>1. hand' = hand /\ spool' \subseteq spool /\ pc'["collector"] \notin {"trysend", "send"}
    BY <1>7, <1>14 DEF Trim, Newest
  <2>2. QED
    BY <1>4, <1>5, <1>6, <2>1
<1>15. QED
  BY <1>8, <1>9, <1>10, <1>11, <1>12, <1>13, <1>14

\* The other steps of the session.
LEMMA SessionOrder ==
  ASSUME RangeInv, OrderInv, Dial \/ Publish \/ Notice \/ Clear
  PROVE  OrderInv'
<1>1. "session" \in Thread /\ "collector" \in Thread /\ "session" # "collector"
  BY DEF Thread
<1>2. st <= opened /\ st \in Nat /\ opened \in Nat
  BY StreamAssumption DEF OrderInv, RangeInv, AgentRange, NetRange, StreamId, None
<1>3. UNCHANGED <<hand, spool, todo, sent>>
  BY DEF Dial, Publish, Notice, Clear
<1>4. pc'["session"] # "serve" /\ pc'["collector"] = pc["collector"]
  <2>1. ASSUME NEW from, NEW to, to # "serve", Goto("session", from, to)
        PROVE  pc'["session"] # "serve" /\ pc'["collector"] = pc["collector"]
    BY <1>1, <2>1, GotoMoves
  <2>2. QED
    BY <2>1 DEF Dial, Publish, Notice, Clear
<1>5. st' <= opened'
  BY <1>2 DEF Dial, Publish, Notice, Clear, netVars, None
<1>6. QED
  BY <1>3, <1>4, <1>5, OrderKept

\* The streams, the server and the crashes.
LEMMA NetOrder ==
  ASSUME RangeInv, OrderInv,
         (\E s \in StreamId : Server(s) \/ Break(s)) \/ AgentCrash \/ ServerCrash
  PROVE  OrderInv'
<1>1. st <= opened /\ st \in Nat /\ opened \in Nat
  BY StreamAssumption DEF OrderInv, RangeInv, AgentRange, NetRange, StreamId, None
<1>2. ASSUME UNCHANGED <<agentVars, opened>>, broken \subseteq broken' \/ broken' = 1..opened
      PROVE  OrderInv'
  <2>1. UNCHANGED <<pc, st, hand, spool, todo, sent>>
    BY <1>2 DEF agentVars
  <2>2. Up(st)' => Up(st)
    BY <1>1, <1>2, <2>1, UpKept
  <2>3. QED
    BY <1>1, <1>2, <2>1, <2>2, OrderKept
<1>3. ASSUME NEW s \in StreamId, Server(s) \/ Break(s) PROVE OrderInv'
  <2>1. UNCHANGED <<agentVars, opened>> /\ broken \subseteq broken'
    BY <1>3 DEF Server, Receive, Expire, Ingest, Break, Cut, netVars
  <2>2. QED
    BY <1>2, <2>1
<1>4. CASE AgentCrash
  <2>1. /\ pc' = Started /\ st' = None /\ hand' = None /\ todo' = {} /\ spool' = spool
        /\ opened' = opened
    BY <1>4 DEF AgentCrash
  <2>2. pc'["session"] = "dial" /\ pc'["collector"] = "collect"
    BY <2>1 DEF Started, Thread
  <2>3. QED
    BY <1>1, <2>1, <2>2, OrderKept DEF None
<1>5. CASE ServerCrash
  BY <1>2, <1>5 DEF ServerCrash
<1>6. QED
  BY <1>3, <1>4, <1>5

-----------------------------------------------------------------------------
\* A drain of the collector sends the oldest report of all.
LEMMA ResendsOldest ==
  ASSUME RangeInv, OrderInv, Resend("collector")
  PROVE  SendsOldest
<1>1. PICK r \in Oldest(todo, 1) : Put(st, r) /\ todo' = todo \ {r} /\ sent' = sent \cup {r}
  BY DEF Resend
<1>2. pc["collector"] = "resend" /\ UNCHANGED <<hand, spool>>
  BY DEF Resend
<1>3. todo \subseteq Nat /\ spool \subseteq Nat /\ IsFiniteSet(todo) /\ hand \in Nat
  <2>1. todo \subseteq 1..made /\ made \in Nat
    BY StreamAssumption DEF RangeInv, AgentRange, Known
  <2>2. IsFiniteSet(1..made)
    BY <2>1, FS_Interval
  <2>3. IsFiniteSet(todo)
    BY <2>1, <2>2, FS_Subset
  <2>4. QED
    BY <2>1, <2>3 DEF RangeInv, AgentRange, Known, None
<1>4. r \in todo /\ \A x \in todo : r <= x
  BY <1>1, <1>3, TheOldest
<1>5. ASSUME NEW x \in ((spool' \ sent') \cup {hand'}) \ {None} PROVE r <= x
  <2>1. CASE x \in spool \ sent'
    <3>1. CASE x \in todo
      BY <1>4, <3>1
    <3>2. CASE x \notin todo
      <4>1. r < x
        BY <1>1, <1>2, <1>4, <2>1, <3>2 DEF OrderInv, BatchIsOldest
      <4>2. QED
        BY <1>3, <1>4, <2>1, <4>1
    <3>3. QED
      BY <3>1, <3>2
  <2>2. CASE x = hand /\ hand # None
    <3>1. r < hand
      BY <1>4, <2>2 DEF OrderInv, HandIsNewest
    <3>2. QED
      BY <1>3, <1>4, <2>2, <3>1
  <2>3. QED
    BY <1>2, <1>5, <2>1, <2>2
<1>6. ASSUME NEW s \in StreamId, Len(wire'[s]) > Len(wire[s])
      PROVE  wire'[s][Len(wire'[s])] = r
  <2>1. wire \in [StreamId -> Seq(Known)]
    BY DEF RangeInv, NetRange
  <2>2. wire' = [wire EXCEPT ![st] = Append(@, r)]
    BY <1>1 DEF Put
  <2>3. CASE s # st
    BY <1>6, <2>1, <2>2, <2>3, LenProperties
  <2>4. CASE s = st
    <3>1. wire'[s] = Append(wire[s], r) /\ wire[s] \in Seq(Known) /\ r \in Known
      BY <1>4, <2>1, <2>2, <2>4 DEF RangeInv, AgentRange
    <3>2. QED
      BY <3>1, AppendProperties
  <2>5. QED
    BY <2>3, <2>4
<1>7. QED
  BY <1>5, <1>6 DEF SendsOldest

\* A step that adds to no stream sends nothing.
LEMMA SendsNothing ==
  ASSUME RangeInv,
         \A s \in StreamId : ~(Len(wire'[s]) > Len(wire[s]))
  PROVE  SendsOldest
BY DEF SendsOldest

\* What ends a stream, and what takes from one, adds to none.
LEMMA CutSends ==
  ASSUME RangeInv, NEW dead \in SUBSET StreamId, Cut(dead)
  PROVE  \A s \in StreamId : ~(Len(wire'[s]) > Len(wire[s]))
<1>1. PICK kept \in [dead -> 0..Window] :
        /\ \A s \in dead : kept[s] <= Len(wire[s])
        /\ wire' = [s \in StreamId |->
                      IF s \in dead THEN SubSeq(wire[s], 1, kept[s]) ELSE wire[s]]
  BY DEF Cut
<1>2. ASSUME NEW s \in StreamId PROVE ~(Len(wire'[s]) > Len(wire[s]))
  <2>1. wire[s] \in Seq(Known) /\ Len(wire[s]) \in Nat
    BY LenProperties DEF RangeInv, NetRange
  <2>2. CASE s \in dead
    <3>1. kept[s] \in Nat /\ kept[s] <= Len(wire[s]) /\ wire'[s] = SubSeq(wire[s], 1, kept[s])
      BY <1>1, <2>2, StreamAssumption
    <3>2. Len(wire'[s]) = kept[s]
      <4>1. \A i \in 1..kept[s] : wire[s][i] \in Known
        BY <2>1, <3>1, ElementOfSeq
      <4>2. Len(SubSeq(wire[s], 1, kept[s])) = IF 1 <= kept[s] THEN kept[s] - 1 + 1 ELSE 0
        BY <3>1, <4>1, SubSeqProperties
      <4>3. QED
        BY <3>1, <4>2
    <3>3. QED
      BY <2>1, <3>1, <3>2
  <2>3. CASE s \notin dead
    BY <1>1, <2>1, <2>3
  <2>4. QED
    BY <2>2, <2>3
<1>3. QED
  BY <1>2

LEMMA TailSends ==
  ASSUME RangeInv, NEW t \in StreamId, wire[t] # <<>>,
         wire' = [wire EXCEPT ![t] = Tail(@)]
  PROVE  \A s \in StreamId : ~(Len(wire'[s]) > Len(wire[s]))
<1>1. wire \in [StreamId -> Seq(Known)]
  BY DEF RangeInv, NetRange
<1>2. ASSUME NEW s \in StreamId PROVE ~(Len(wire'[s]) > Len(wire[s]))
  <2>1. wire[s] \in Seq(Known) /\ Len(wire[s]) \in Nat
    BY <1>1, LenProperties
  <2>2. CASE s = t
    <3>1. Len(Tail(wire[t])) = Len(wire[t]) - 1
      BY <1>1, HeadTailProperties
    <3>2. QED
      BY <1>1, <2>1, <2>2, <3>1
  <2>3. CASE s # t
    BY <1>1, <2>1, <2>3
  <2>4. QED
    BY <2>2, <2>3
<1>3. QED
  BY <1>2

\* While the session serves, every step that sends sends the oldest report.
LEMMA ServesOldest ==
  ASSUME RangeInv, LockInv, OrderInv, pc["session"] = "serve", [Next]_streamVars
  PROVE  SendsOldest
<1>1. wire \in [StreamId -> Seq(Known)]
  BY DEF RangeInv, NetRange
<1>2. ASSUME wire' = wire PROVE SendsOldest
  <2>1. ASSUME NEW s \in StreamId PROVE ~(Len(wire'[s]) > Len(wire[s]))
    BY <1>1, <1>2, LenProperties
  <2>2. QED
    BY <2>1, SendsNothing
<1>3. CASE Drain("collector")
  <2>1. CASE Resend("collector")
    BY <2>1, ResendsOldest
  <2>2. CASE ~Resend("collector")
    BY <1>2, <1>3, <2>2 DEF Drain, StartDrain, Peek, PeekFails, ResendFails,
      AckBatch, AckFails, netVars
  <2>3. QED
    BY <2>1, <2>2
<1>4. CASE SendLive
  <2>1. pc["collector"] = "send" /\ Up(st) /\ hand' = None /\ spool' = spool
    BY <1>4 DEF SendLive, Goto
  <2>2. spool = {}
    BY <2>1 DEF OrderInv, QueueIsEmpty
  <2>3. QED
    BY <2>1, <2>2 DEF SendsOldest
<1>5. CASE Collect \/ TrySend \/ SendFails \/ Enqueue \/ Purge \/ Trim
  BY <1>2, <1>5 DEF Collect, TrySend, SendFails, Enqueue, Purge, Trim, netVars
<1>6. CASE Session
  <2>1. Notice
    BY <1>6 DEF Session, Dial, Publish, Drain, StartDrain, Peek, PeekFails, Resend,
      ResendFails, AckBatch, AckFails, LeaveDrain, Clear, Goto
  <2>2. QED
    BY <1>2, <2>1 DEF Notice, netVars
<1>7. CASE \E s \in StreamId : Server(s) \/ Break(s)
  <2>1. PICK s \in StreamId : Server(s) \/ Break(s)
    BY <1>7
  <2>2. CASE Receive(s)
    BY <2>2, TailSends, SendsNothing DEF Receive
  <2>3. CASE Expire(s)
    BY <2>3, TailSends, SendsNothing DEF Expire
  <2>4. CASE Ingest(s)
    BY <1>2, <2>4 DEF Ingest, netVars
  <2>5. CASE Break(s)
    <3>1. {s} \in SUBSET StreamId /\ Cut({s})
      BY <2>5 DEF Break
    <3>2. QED
      BY <3>1, CutSends, SendsNothing
  <2>6. QED
    BY <2>1, <2>2, <2>3, <2>4, <2>5 DEF Server
<1>8. CASE AgentCrash
  <2>1. opened \in Nat /\ opened <= MaxStreams
    BY StreamAssumption DEF RangeInv, NetRange
  <2>2. {s \in 1..opened : Up(s)} \in SUBSET StreamId
    BY <2>1, StreamAssumption DEF StreamId
  <2>3. QED
    BY <1>8, <2>2, CutSends, SendsNothing DEF AgentCrash
<1>9. CASE ServerCrash
  <2>1. wire' = [s \in StreamId |-> <<>>]
    BY <1>9 DEF ServerCrash
  <2>2. ASSUME NEW s \in StreamId PROVE ~(Len(wire'[s]) > Len(wire[s]))
    <3>1. Len(wire[s]) \in Nat /\ wire'[s] = <<>>
      BY <1>1, <2>1, LenProperties
    <3>2. Len(wire'[s]) = 0
      BY <3>1
    <3>3. QED
      BY <3>1, <3>2
  <2>3. QED
    BY <2>2, SendsNothing
<1>10. CASE UNCHANGED streamVars
  BY <1>2, <1>10 DEF streamVars, netVars
<1>11. QED
  BY <1>3, <1>4, <1>5, <1>6, <1>7, <1>8, <1>9, <1>10 DEF Next, Collector

\* Once the session has drained the backlog, reports are sent oldest first, as
\* long as the spool itself can be read and acknowledged.
THEOREM StreamServesInOrder ==
  ASSUME Faults \cap {"peek", "ack"} = {}
  PROVE  Spec => OldestFirstWhenServing
<1>1. Init => OrderInv
  BY DEF Init, OrderInv, HandIsNewest, BatchIsOldest, QueueIsEmpty, Up, None, Started, Thread
<1>2. IInv /\ OrderInv /\ [Next]_streamVars => OrderInv'
  <2> SUFFICES ASSUME IInv, OrderInv, [Next]_streamVars PROVE OrderInv'
    OBVIOUS
  <2>1. RangeInv /\ LockInv /\ HandInv
    BY DEF IInv
  <2>2. CASE Collector
    <3>1. CASE Drain("collector")
      BY <2>1, <3>1, DrainOrder DEF Thread
    <3>2. CASE ~Drain("collector")
      BY <2>1, <2>2, <3>2, CollectorOrder DEF Collector
    <3>3. QED
      BY <3>1, <3>2
  <2>3. CASE Session
    <3>1. CASE Drain("session")
      BY <2>1, <3>1, DrainOrder DEF Thread
    <3>2. CASE ~Drain("session")
      BY <2>1, <2>3, <3>2, SessionOrder DEF Session
    <3>3. QED
      BY <3>1, <3>2
  <2>4. CASE (\E s \in StreamId : Server(s) \/ Break(s)) \/ AgentCrash \/ ServerCrash
    BY <2>1, <2>4, NetOrder
  <2>5. CASE UNCHANGED streamVars
    BY <2>5 DEF streamVars, agentVars, netVars, OrderInv, HandIsNewest, BatchIsOldest,
      QueueIsEmpty, Up
  <2>6. QED
    BY <2>2, <2>3, <2>4, <2>5 DEF Next
<1>3. IInv /\ OrderInv /\ [Next]_streamVars => (pc["session"] = "serve" => SendsOldest)
  BY ServesOldest DEF IInv
<1>4. Spec => []IInv
  BY StreamInvariant
<1>5. QED
  BY <1>1, <1>2, <1>3, <1>4, PTL DEF Spec, OldestFirstWhenServing
=============================================================================
