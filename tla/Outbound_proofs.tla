--------------------------- MODULE Outbound_proofs ---------------------------
(***************************************************************************)
(* Proofs about what the server sends: frames to its WebSocket clients     *)
(* (Hub), commands down an agent's stream (Downlink) and notifications to  *)
(* people (Notifier), for any number of each and any size of the channels  *)
(* between.                                                                *)
(***************************************************************************)
EXTENDS Hub, Downlink, Notifier, SequenceTheorems, TLAPS

\* The specification of each part.
HubSpec == HubInit /\ [][HubNext]_hubVars
DownlinkSpec == DownlinkInit /\ [][DownlinkNext]_downlinkVars
NotifierSpec == NotifierInit /\ [][NotifierNext]_notifierVars

-----------------------------------------------------------------------------
(* Frames to the WebSocket clients *)

\* Every variable stays in its range.
HubType ==
  /\ clients \in SUBSET Client /\ closed \in SUBSET Client
  /\ channel \in [Client -> Seq(Broadcast)]
  /\ serving \in [Client -> {"new", "handshake", "open", "leaving", "unsubscribed", "gone"}]
  /\ call \in [Broadcast -> {"new", "sending", "done"}]
  /\ rest \in [Broadcast -> SUBSET Client]
  /\ written \in [Client -> SUBSET Broadcast]
  /\ dropped \in [Client -> SUBSET Broadcast]
  /\ before \in [Client -> SUBSET Broadcast]

\* A client is subscribed just while its request is between subscribe and
\* unsubscribe, and only a channel whose request is over is closed.
Subscribed ==
  \A c \in Client :
    /\ c \in clients <=> serving[c] \in {"handshake", "open", "leaving"}
    /\ c \in closed <=> serving[c] = "gone"

\* The read lock: while a broadcast is sending, nobody leaves, so that those it
\* has not come to yet are subscribed.
RestSubscribed ==
  \A b \in Broadcast :
    /\ call[b] = "sending" => rest[b] \subseteq clients
    /\ call[b] = "done" => rest[b] = {}

Reached(b, c) == b \in Buffered(c) \cup written[c] \cup dropped[c]

\* A broadcast that began after the handshake has come to the client, or will.
Owed ==
  \A c \in Client, b \in Broadcast :
    serving[c] = "open" /\ call[b] # "new" /\ b \notin before[c] =>
      Reached(b, c) \/ c \in rest[b]

HubInv == HubType /\ Subscribed /\ RestSubscribed /\ Owed /\ ~panicked

-----------------------------------------------------------------------------
\* What the write pump takes from a channel is its head; the rest stays.
LEMMA InTail ==
  ASSUME NEW S, NEW s \in Seq(S), s # <<>>, NEW i \in DOMAIN s
  PROVE  s[i] = Head(s) \/ \E j \in DOMAIN Tail(s) : Tail(s)[j] = s[i]
<1>1. CASE i = 1
  BY <1>1
<1>2. CASE i # 1
  <2>1. i - 1 \in DOMAIN Tail(s) /\ Tail(s)[i - 1] = s[i]
    BY <1>2
  <2>2. QED
    BY <2>1
<1>3. QED
  BY <1>1, <1>2

\* A message that is put into a channel is in it, with all that was there.
LEMMA InAppend ==
  ASSUME NEW S, NEW s \in Seq(S), NEW x \in S
  PROVE  /\ \E j \in DOMAIN Append(s, x) : Append(s, x)[j] = x
         /\ \A i \in DOMAIN s : i \in DOMAIN Append(s, x) /\ Append(s, x)[i] = s[i]
<1>1. Len(s) + 1 \in DOMAIN Append(s, x) /\ Append(s, x)[Len(s) + 1] = x
  OBVIOUS
<1>2. QED
  BY <1>1

LEMMA HubInitInv == HubInit => HubInv
BY DEF HubInit, HubInv, HubType, Subscribed, RestSubscribed, Owed

\* Steps of a request, other than those of its write pump.
LEMMA SubscribeInv ==
  ASSUME HubInv, NEW c \in Client, Subscribe(c)
  PROVE  HubInv'
<1> USE DEF HubInv, HubType, Subscribe, At
<1>1. HubType' /\ ~panicked'
  OBVIOUS
<1>2. Subscribed'
  BY DEF Subscribed
<1>3. RestSubscribed'
  BY DEF RestSubscribed
<1>4. Owed'
  BY DEF Owed, Reached, Buffered
<1>5. QED
  BY <1>1, <1>2, <1>3, <1>4

LEMMA UpgradeInv ==
  ASSUME HubInv, NEW c \in Client, Upgrade(c)
  PROVE  HubInv'
<1> USE DEF HubInv, HubType
<1> DEFINE Began == {b \in Broadcast : call[b] # "new"}
<1>1. /\ serving[c] = "handshake"
      /\ \/ /\ serving' = [serving EXCEPT ![c] = "open"]
            /\ before' = [before EXCEPT ![c] = Began]
         \/ serving' = [serving EXCEPT ![c] = "leaving"] /\ UNCHANGED before
      /\ UNCHANGED <<clients, channel, closed, call, rest, written, dropped, panicked>>
  BY DEF Upgrade, At
<1>2. before' \in [Client -> SUBSET Broadcast]
  <2>1. Began \in SUBSET Broadcast
    OBVIOUS
  <2> HIDE DEF Began
  <2>2. QED
    BY <1>1, <2>1
<1>3. HubType' /\ ~panicked'
  BY <1>1, <1>2
<1>4. Subscribed'
  BY <1>1 DEF Subscribed
<1>5. RestSubscribed'
  BY <1>1 DEF RestSubscribed
<1>6. ASSUME NEW d \in Client, NEW b \in Broadcast,
             serving'[d] = "open", call'[b] # "new", b \notin before'[d]
      PROVE  Reached(b, d)' \/ d \in rest'[b]
  <2>1. d # c
    BY <1>1, <1>6
  <2>2. Reached(b, d) \/ d \in rest[b]
    BY <1>1, <1>6, <2>1 DEF Owed
  <2>3. QED
    BY <1>1, <2>2 DEF Reached, Buffered
<1>7. Owed'
  BY <1>6 DEF Owed
<1>8. QED
  BY <1>3, <1>4, <1>5, <1>7

\* The head of the channel is written, or the client is given up.
LEMMA WriteMessageInv ==
  ASSUME HubInv, NEW c \in Client, WriteMessage(c)
  PROVE  HubInv'
<1> USE DEF HubInv, HubType, WriteMessage, At
<1>1. HubType' /\ ~panicked'
  <2>1. Head(channel[c]) \in Broadcast /\ Tail(channel[c]) \in Seq(Broadcast)
    OBVIOUS
  <2>2. channel' \in [Client -> Seq(Broadcast)]
    BY <2>1
  <2>3. written' \in [Client -> SUBSET Broadcast]
    <3>1. written[c] \cup {Head(channel[c])} \in SUBSET Broadcast
      BY <2>1
    <3>2. written' = written
          \/ written' = [written EXCEPT ![c] = written[c] \cup {Head(channel[c])}]
      OBVIOUS
    <3>3. QED
      BY <3>1, <3>2
  <2>4. QED
    BY <2>2, <2>3
<1>2. Subscribed'
  BY DEF Subscribed
<1>3. RestSubscribed'
  BY DEF RestSubscribed
<1>4. ASSUME NEW d \in Client, NEW b \in Broadcast, serving'[d] = "open", Reached(b, d)
      PROVE  Reached(b, d)'
  <2>1. CASE b \in Buffered(d) /\ d = c
    <3>1. PICK i \in DOMAIN channel[c] : channel[c][i] = b
      BY <2>1 DEF Buffered
    <3>2. b = Head(channel[c]) \/ \E j \in DOMAIN Tail(channel[c]) : Tail(channel[c])[j] = b
      BY <3>1, InTail
    <3>3. CASE b = Head(channel[c])
      BY <1>4, <2>1, <3>3 DEF Reached
    <3>4. CASE \E j \in DOMAIN Tail(channel[c]) : Tail(channel[c])[j] = b
      BY <2>1, <3>4 DEF Reached, Buffered
    <3>5. QED
      BY <3>2, <3>3, <3>4
  <2>2. CASE ~(b \in Buffered(d) /\ d = c)
    BY <1>4, <2>2 DEF Reached, Buffered
  <2>3. QED
    BY <2>1, <2>2
<1>5. Owed'
  BY <1>4 DEF Owed
<1>6. QED
  BY <1>1, <1>2, <1>3, <1>5

LEMMA DisconnectInv ==
  ASSUME HubInv, NEW c \in Client, Disconnect(c)
  PROVE  HubInv'
BY DEF HubInv, HubType, Disconnect, At, Subscribed, RestSubscribed, Owed, Reached, Buffered

\* The write lock keeps a client that leaves out of the way of a broadcast.
LEMMA UnsubscribeInv ==
  ASSUME HubInv, NEW c \in Client, Unsubscribe(c)
  PROVE  HubInv'
<1> USE DEF HubInv, HubType, Unsubscribe, At
<1>1. HubType' /\ ~panicked'
  OBVIOUS
<1>2. Subscribed'
  BY DEF Subscribed
<1>3. RestSubscribed'
  BY DEF RestSubscribed, NoReader
<1>4. Owed'
  BY DEF Owed, Reached, Buffered
<1>5. QED
  BY <1>1, <1>2, <1>3, <1>4

LEMMA CloseChannelInv ==
  ASSUME HubInv, NEW c \in Client, CloseChannel(c)
  PROVE  HubInv'
BY DEF HubInv, HubType, CloseChannel, At, Subscribed, RestSubscribed, Owed, Reached, Buffered

-----------------------------------------------------------------------------
\* A broadcast finds every subscriber: it owes its message to all of them.
LEMMA ReadLockInv ==
  ASSUME HubInv, NEW b \in Broadcast, ReadLock(b)
  PROVE  HubInv'
<1> USE DEF HubInv, HubType, ReadLock
<1>1. HubType' /\ ~panicked'
  OBVIOUS
<1>2. Subscribed'
  BY DEF Subscribed
<1>3. RestSubscribed'
  BY DEF RestSubscribed
<1>4. ASSUME NEW c \in Client, serving'[c] = "open"
      PROVE  c \in rest'[b]
  BY <1>4 DEF Subscribed
<1>5. Owed'
  BY <1>4 DEF Owed, Reached, Buffered
<1>6. QED
  BY <1>1, <1>2, <1>3, <1>5

\* The message is put into the channel of a client, or dropped because that is
\* full; the channel of a subscriber is not closed.
LEMMA OfferInv ==
  ASSUME HubInv, NEW b \in Broadcast, NEW c \in Client, Offer(b, c)
  PROVE  HubInv'
<1> USE DEF HubInv, HubType, Offer
<1>1. HubType'
  <2>1. channel' \in [Client -> Seq(Broadcast)]
    <3>1. Append(channel[c], b) \in Seq(Broadcast)
      OBVIOUS
    <3>2. QED
      BY <3>1
  <2>2. dropped' \in [Client -> SUBSET Broadcast]
    <3>1. dropped[c] \cup {b} \in SUBSET Broadcast
      OBVIOUS
    <3>2. dropped' = dropped \/ dropped' = [dropped EXCEPT ![c] = dropped[c] \cup {b}]
      OBVIOUS
    <3>3. QED
      BY <3>1, <3>2
  <2>3. rest' \in [Broadcast -> SUBSET Client]
    OBVIOUS
  <2>4. QED
    BY <2>1, <2>2, <2>3
<1>2. ~panicked'
  BY DEF RestSubscribed, Subscribed
<1>3. Subscribed'
  BY DEF Subscribed
<1>4. RestSubscribed'
  BY DEF RestSubscribed
<1>5. Reached(b, c)'
  BY InAppend DEF Reached, Buffered
<1>6. ASSUME NEW d \in Client, NEW e \in Broadcast, Reached(e, d)
      PROVE  Reached(e, d)'
  <2>1. CASE d = c /\ e \in Buffered(c)
    <3>1. PICK i \in DOMAIN channel[c] : channel[c][i] = e
      BY <2>1 DEF Buffered
    <3>2. i \in DOMAIN Append(channel[c], b) /\ Append(channel[c], b)[i] = e
      BY <3>1, InAppend
    <3>3. e \in Buffered(c)'
      BY <3>1, <3>2 DEF Buffered
    <3>4. QED
      BY <2>1, <3>3 DEF Reached
  <2>2. CASE ~(d = c /\ e \in Buffered(c))
    BY <1>6, <2>2 DEF Reached, Buffered
  <2>3. QED
    BY <2>1, <2>2
<1>7. Owed'
  BY <1>5, <1>6 DEF Owed
<1>8. QED
  BY <1>1, <1>2, <1>3, <1>4, <1>7

LEMMA ReadUnlockInv ==
  ASSUME HubInv, NEW b \in Broadcast, ReadUnlock(b)
  PROVE  HubInv'
BY DEF HubInv, HubType, ReadUnlock, Subscribed, RestSubscribed, Owed, Reached, Buffered

\* Every step of a request or a broadcast keeps the invariant.
LEMMA HubStepInv == HubInv /\ [HubNext]_hubVars => HubInv'
<1>1. SUFFICES ASSUME HubInv, [HubNext]_hubVars PROVE HubInv'
  OBVIOUS
<1>2. ASSUME NEW c \in Client, Serve(c) PROVE HubInv'
  BY <1>1, <1>2, SubscribeInv, UpgradeInv, WriteMessageInv, DisconnectInv,
     UnsubscribeInv, CloseChannelInv DEF Serve
<1>3. ASSUME NEW b \in Broadcast, Distribute(b) PROVE HubInv'
  BY <1>1, <1>3, ReadLockInv, OfferInv, ReadUnlockInv DEF Distribute
<1>4. CASE UNCHANGED hubVars
  BY <1>1, <1>4 DEF HubInv, HubType, Subscribed, RestSubscribed, Owed, Reached, Buffered, hubVars
<1>5. QED
  BY <1>1, <1>2, <1>3, <1>4 DEF HubNext

-----------------------------------------------------------------------------
\* The inductive invariant of the hub: who is subscribed and whose channel is
\* closed, and that a broadcast has reached every client that waits for it or
\* still has it on its list.
THEOREM HubInvariant == HubSpec => []HubInv
BY HubInitInv, HubStepInv, PTL DEF HubSpec

\* A client that has read 101 gets every broadcast that begins afterwards unless
\* its channel is full, and nobody sends on a closed channel.
THEOREM HubMissesNothing == HubSpec => []NothingMissed
<1>1. HubInv => NothingMissed
  BY DEF HubInv, RestSubscribed, Owed, Reached, NothingMissed
<1>2. QED
  BY <1>1, HubInvariant, PTL

-----------------------------------------------------------------------------
(* Commands down an agent's stream *)

DownlinkType ==
  /\ stream \in [Stream -> {"new", "open", "ended", "over"}]
  /\ entry \in Stream \cup {NoStream}
  /\ sending \in [Order -> {"none", "looked", "accepted", "full", "offline"}]
  /\ found \in [Order -> Stream \cup {NoStream}]
  /\ late \in [Order -> SUBSET Stream]

\* The map never holds the sink of a stream whose cleanup has run: the cleanup
\* deletes whatever entry there is, and only a new stream makes one.
EntryAlive == entry # NoStream => stream[entry] \in {"open", "ended"}

\* What a call found was not over when it began.
FoundAlive ==
  \A o \in Order : sending[o] \in {"looked", "accepted", "full"} => found[o] \notin late[o]

DownlinkInv == DownlinkType /\ EntryAlive /\ FoundAlive

LEMMA DownlinkInitInv == DownlinkInit => DownlinkInv
BY DEF DownlinkInit, DownlinkInv, DownlinkType, EntryAlive, FoundAlive

\* Every step keeps the invariant.
LEMMA DownlinkStepInv == DownlinkInv /\ [DownlinkNext]_downlinkVars => DownlinkInv'
<1>1. SUFFICES ASSUME DownlinkInv, [DownlinkNext]_downlinkVars PROVE DownlinkInv'
  OBVIOUS
<1> USE DownlinkAssumption DEF DownlinkInv, DownlinkType, EntryAlive, FoundAlive
<1>2. ASSUME NEW s \in Stream, Connect(s) PROVE DownlinkInv'
  BY <1>1, <1>2 DEF Connect
<1>3. ASSUME NEW s \in Stream, StreamEnds(s) PROVE DownlinkInv'
  BY <1>1, <1>3 DEF StreamEnds
<1>4. ASSUME NEW s \in Stream, Cleanup(s) PROVE DownlinkInv'
  BY <1>1, <1>4 DEF Cleanup, Unregister
<1>5. ASSUME NEW s \in Stream, Forward(s) PROVE DownlinkInv'
  BY <1>1, <1>5 DEF Forward
<1>6. ASSUME NEW o \in Order, LookUp(o) PROVE DownlinkInv'
  <2> DEFINE Over == {s \in Stream : stream[s] = "over"}
  <2>1. late' = [late EXCEPT ![o] = Over] /\ Over \in SUBSET Stream
    BY <1>6 DEF LookUp
  <2>2. entry \notin Over
    BY <1>1
  <2> HIDE DEF Over
  <2>3. DownlinkType' /\ EntryAlive'
    BY <1>1, <1>6, <2>1 DEF LookUp
  <2>4. FoundAlive'
    BY <1>1, <1>6, <2>1, <2>2 DEF LookUp
  <2>5. QED
    BY <2>3, <2>4
<1>7. ASSUME NEW o \in Order, Put(o) PROVE DownlinkInv'
  BY <1>1, <1>7 DEF Put
<1>8. CASE UNCHANGED downlinkVars
  BY <1>1, <1>8 DEF downlinkVars
<1>9. QED
  BY <1>1, <1>2, <1>3, <1>4, <1>5, <1>6, <1>7, <1>8 DEF DownlinkNext

-----------------------------------------------------------------------------
\* The inductive invariant of the downlink: the map of sinks and the sinks that
\* calls have found are those of streams that were not over.
THEOREM DownlinkInvariant == DownlinkSpec => []DownlinkInv
BY DownlinkInitInv, DownlinkStepInv, PTL DEF DownlinkSpec

\* A call of SendCommand that begins after the cleanup of a stream never puts its
\* command into that stream's sink, however streams and calls overlap.
THEOREM DownlinkAvoidsDeadSinks == DownlinkSpec => []NoDeadSink
<1>1. DownlinkInv => NoDeadSink
  BY DEF DownlinkInv, FoundAlive, NoDeadSink
<1>2. QED
  BY <1>1, DownlinkInvariant, PTL

-----------------------------------------------------------------------------
(* Notifications *)

NotifyResult == {"skipped", "sent", "failed"}

IdleJob == {Resting, [step |-> "gone"]}
ListJob == [step : {"list"}, item : Item]
SendJob ==
  [step : {"send"}, item : Item, left : Seq(Range(Channels)), attempt : Nat,
   overall : NotifyResult]

\* Every variable stays in its range.
NotifierType ==
  /\ life \in [Alert -> {"new", "firing", "resolved"}]
  /\ queue \in Seq(Item)
  /\ job \in [Worker -> IdleJob \cup ListJob \cup SendJob]
  /\ notifyState \in [Alert -> NotifyResult \cup {"pending"}]
  /\ outcome \in [Alert -> SUBSET NotifyResult]

\* The first notification of an alert, in the queue or with a worker.
Announces(item, a) == item.alert = a /\ item.kind = "firing"
Queued(a) == \E i \in DOMAIN queue : Announces(queue[i], a)
Carries(w, a) == job[w].step \in {"list", "send"} /\ Announces(job[w].item, a)

\* A state is true of what became of the notification on each channel.
Truthful(state, results) ==
  CASE state = "failed"  -> "failed" \in results
    [] state = "sent"    -> "sent" \in results /\ "failed" \notin results
    [] state = "skipped" -> results \subseteq {"skipped"}
    [] OTHER             -> TRUE

\* There is one at most; before a worker sends it nothing has become of it, and
\* while one sends it, the worker knows the worst.
QueuedOnce ==
  \A i, k \in DOMAIN queue : \A a \in Alert :
    Announces(queue[i], a) /\ Announces(queue[k], a) => i = k
CarriedOnce ==
  \A v, w \in Worker : \A a \in Alert : Carries(v, a) /\ Carries(w, a) => v = w
Unannounced(a) == notifyState[a] = "pending" /\ outcome[a] = {}
AnnouncedOnce(a) ==
  /\ Queued(a) => Unannounced(a) /\ \A w \in Worker : ~Carries(w, a)
  /\ life[a] = "new" => Unannounced(a) /\ ~Queued(a) /\ \A w \in Worker : ~Carries(w, a)
  /\ \A w \in Worker : Carries(w, a) =>
       /\ notifyState[a] = "pending"
       /\ job[w].step = "list" => outcome[a] = {}
       /\ job[w].step = "send" => Truthful(job[w].overall, outcome[a])
  /\ Truthful(notifyState[a], outcome[a])

NotifierInv ==
  NotifierType /\ QueuedOnce /\ CarriedOnce /\ \A a \in Alert : AnnouncedOnce(a)

-----------------------------------------------------------------------------
LEMMA NotifierInitInv == NotifierInit => NotifierInv
<1> SUFFICES ASSUME NotifierInit PROVE NotifierInv
  OBVIOUS
<1>1. queue = <<>> /\ queue \in Seq(Item) /\ DOMAIN queue = {}
  BY DEF NotifierInit
<1>2. NotifierType
  BY <1>1 DEF NotifierInit, NotifierType, IdleJob
<1>3. \A w \in Worker, a \in Alert : ~Carries(w, a)
  BY DEF NotifierInit, Carries, Resting
<1>4. QueuedOnce /\ CarriedOnce
  BY <1>1, <1>3 DEF QueuedOnce, CarriedOnce
<1>5. \A a \in Alert : ~Queued(a) /\ Unannounced(a)
  BY <1>1 DEF Queued, Unannounced, NotifierInit
<1>6. ASSUME NEW a \in Alert PROVE AnnouncedOnce(a)
  BY <1>3, <1>5 DEF AnnouncedOnce, Unannounced, Truthful
<1>7. QED
  BY <1>2, <1>4, <1>6 DEF NotifierInv

\* One item more, or the queue is full.
LEMMA EnqueueOnce ==
  ASSUME queue \in Seq(Item), QueuedOnce, NEW a \in Alert, NEW kind \in {"firing", "recovered"},
         kind = "firing" => ~Queued(a), Enqueue(a, kind)
  PROVE  /\ queue' \in Seq(Item) /\ QueuedOnce'
         /\ \A b \in Alert : Queued(b)' => Queued(b) \/ (kind = "firing" /\ b = a)
<1> DEFINE item == [alert |-> a, kind |-> kind]
<1>1. item \in Item /\ item.kind = kind /\ item.alert = a
  BY DEF Item
<1>2. queue' = queue \/ queue' = Append(queue, item)
  BY DEF Enqueue
<1> HIDE DEF item
<1>3. CASE queue' = queue
  BY <1>3 DEF QueuedOnce, Queued
<1>4. CASE queue' = Append(queue, item)
  <2>1. /\ queue' \in Seq(Item) /\ Len(queue') = Len(queue) + 1
        /\ \A i \in 1..Len(queue) : queue'[i] = queue[i]
        /\ queue'[Len(queue) + 1] = item
    BY <1>1, <1>4, AppendProperties
  <2>2. /\ DOMAIN queue = 1..Len(queue) /\ Len(queue) \in Nat
        /\ DOMAIN queue' = 1..Len(queue')
    BY <2>1, LenProperties
  <2>3. \A i \in DOMAIN queue' : i = Len(queue) + 1 \/ (i \in DOMAIN queue /\ queue'[i] = queue[i])
    BY <2>1, <2>2
  <2>4. \A b \in Alert : Queued(b)' => Queued(b) \/ (kind = "firing" /\ b = a)
    BY <1>1, <2>1, <2>3 DEF Queued, Announces
  <2>5. QueuedOnce'
    BY <1>1, <2>1, <2>3 DEF QueuedOnce, Queued, Announces
  <2>6. QED
    BY <2>1, <2>4, <2>5
<1>5. QED
  BY <1>2, <1>3, <1>4

\* The first item leaves the queue, and no other announces what it announces.
LEMMA TakeOnce ==
  ASSUME queue \in Seq(Item), queue # <<>>, QueuedOnce, queue' = Tail(queue)
  PROVE  /\ queue' \in Seq(Item) /\ QueuedOnce' /\ Head(queue) \in Item
         /\ \A b \in Alert : Queued(b)' => Queued(b)
         /\ \A b \in Alert : Announces(Head(queue), b) => Queued(b) /\ ~Queued(b)'
<1>1. /\ queue' \in Seq(Item) /\ Len(queue') = Len(queue) - 1 /\ Head(queue) \in Item
      /\ Head(queue) = queue[1] /\ \A i \in 1..Len(queue') : queue'[i] = queue[i + 1]
  BY HeadTailProperties
<1>2. /\ DOMAIN queue = 1..Len(queue) /\ Len(queue) \in Nat /\ Len(queue) # 0
      /\ DOMAIN queue' = 1..Len(queue')
  BY <1>1, LenProperties, EmptySeq
<1>3. /\ 1 \in DOMAIN queue
      /\ \A i \in DOMAIN queue' :
           i + 1 \in DOMAIN queue /\ i + 1 # 1 /\ i \in Int /\ queue'[i] = queue[i + 1]
  BY <1>1, <1>2
<1>4. QueuedOnce'
  <2>1. ASSUME NEW i \in DOMAIN queue', NEW k \in DOMAIN queue', NEW a \in Alert,
               Announces(queue'[i], a), Announces(queue'[k], a)
        PROVE  i = k
    <3>1. i + 1 = k + 1
      BY <1>3, <2>1 DEF QueuedOnce
    <3>2. QED
      BY <1>3, <3>1
  <2>2. QED
    BY <2>1 DEF QueuedOnce, Announces
<1>5. \A b \in Alert : Queued(b)' => Queued(b)
  BY <1>3 DEF Queued, Announces
<1>6. ASSUME NEW b \in Alert, Announces(Head(queue), b) PROVE Queued(b) /\ ~Queued(b)'
  BY <1>1, <1>3, <1>6 DEF Queued, QueuedOnce, Announces
<1>7. QED
  BY <1>1, <1>4, <1>5, <1>6

\* A step that raises or clears an alert.
LEMMA LifeInv ==
  ASSUME NotifierInv, NEW a \in Alert, Raise(a) \/ Clear(a)
  PROVE  NotifierInv'
<1>1. PICK kind \in {"firing", "recovered"} :
        /\ Enqueue(a, kind) /\ (kind = "firing" => life[a] = "new")
        /\ life' \in [Alert -> {"new", "firing", "resolved"}] /\ life'[a] # "new"
        /\ \A b \in Alert \ {a} : life'[b] = life[b]
        /\ UNCHANGED <<job, notifyState, outcome>>
  <2>1. CASE Raise(a)
    BY <2>1 DEF Raise, NotifierInv, NotifierType
  <2>2. CASE Clear(a)
    BY <2>2 DEF Clear, NotifierInv, NotifierType
  <2>3. QED
    BY <2>1, <2>2
<1>2. kind = "firing" => ~Queued(a) /\ Unannounced(a) /\ \A w \in Worker : ~Carries(w, a)
  BY <1>1 DEF NotifierInv, AnnouncedOnce
<1>3. /\ queue' \in Seq(Item) /\ QueuedOnce'
      /\ \A b \in Alert : Queued(b)' => Queued(b) \/ (kind = "firing" /\ b = a)
  BY <1>1, <1>2, EnqueueOnce DEF NotifierInv, NotifierType
<1>4. NotifierType'
  BY <1>1, <1>3 DEF NotifierInv, NotifierType
<1>5. \A w \in Worker, b \in Alert : Carries(w, b)' = Carries(w, b)
  BY <1>1 DEF Carries
<1>6. CarriedOnce'
  BY <1>5 DEF NotifierInv, CarriedOnce
<1>7. ASSUME NEW b \in Alert PROVE AnnouncedOnce(b)'
  <2>1. AnnouncedOnce(b) /\ Unannounced(b)' = Unannounced(b)
    BY <1>1 DEF NotifierInv, Unannounced
  <2>2. Queued(b)' => Unannounced(b)' /\ \A w \in Worker : ~Carries(w, b)'
    BY <1>2, <1>3, <1>5, <2>1 DEF AnnouncedOnce
  <2>3. life'[b] = "new" =>
          Unannounced(b)' /\ ~Queued(b)' /\ \A w \in Worker : ~Carries(w, b)'
    BY <1>1, <1>3, <1>5, <2>1 DEF AnnouncedOnce
  <2>4. QED
    BY <1>1, <1>5, <2>1, <2>2, <2>3 DEF AnnouncedOnce
<1>8. QED
  BY <1>3, <1>4, <1>6, <1>7 DEF NotifierInv

LEMMA TakeItemInv ==
  ASSUME NotifierInv, NEW w \in Worker, TakeItem(w)
  PROVE  NotifierInv'
<1> DEFINE r == [step |-> "list", item |-> Head(queue)]
<1>1. /\ job[w].step = "idle" /\ queue # <<>> /\ queue' = Tail(queue)
      /\ job' = [job EXCEPT ![w] = r]
      /\ UNCHANGED <<life, notifyState, outcome>>
  BY DEF TakeItem, Become
<1>2. /\ queue' \in Seq(Item) /\ QueuedOnce' /\ Head(queue) \in Item
      /\ \A b \in Alert : Queued(b)' => Queued(b)
      /\ \A b \in Alert : Announces(Head(queue), b) => Queued(b) /\ ~Queued(b)'
  BY <1>1, TakeOnce DEF NotifierInv, NotifierType
<1>3. r \in ListJob /\ r.step = "list" /\ r.item = Head(queue)
  BY <1>2 DEF ListJob
<1> HIDE DEF r
<1>4. /\ job' \in [Worker -> IdleJob \cup ListJob \cup SendJob] /\ job'[w] = r
      /\ \A v \in Worker \ {w} : job'[v] = job[v]
  BY <1>1, <1>3 DEF NotifierInv, NotifierType
<1>5. NotifierType'
  BY <1>1, <1>2, <1>4 DEF NotifierInv, NotifierType
<1>6. /\ \A b \in Alert : Carries(w, b)' => Queued(b) /\ ~Queued(b)'
      /\ \A v \in Worker \ {w}, b \in Alert : Carries(v, b)' = Carries(v, b)
  BY <1>2, <1>3, <1>4 DEF Carries
<1>7. CarriedOnce'
  BY <1>6 DEF NotifierInv, CarriedOnce, AnnouncedOnce
<1>8. ASSUME NEW b \in Alert PROVE AnnouncedOnce(b)'
  <2>1. AnnouncedOnce(b) /\ Unannounced(b)' = Unannounced(b)
    BY <1>1 DEF NotifierInv, Unannounced
  <2>2. Queued(b)' => Unannounced(b)' /\ \A v \in Worker : ~Carries(v, b)'
    BY <1>2, <1>6, <2>1 DEF AnnouncedOnce
  <2>3. life'[b] = "new" =>
          Unannounced(b)' /\ ~Queued(b)' /\ \A v \in Worker : ~Carries(v, b)'
    BY <1>1, <1>2, <1>6, <2>1 DEF AnnouncedOnce
  <2>4. ASSUME NEW v \in Worker, Carries(v, b)'
        PROVE  /\ notifyState'[b] = "pending"
               /\ job'[v].step = "list" => outcome'[b] = {}
               /\ job'[v].step = "send" => Truthful(job'[v].overall, outcome'[b])
    <3>1. CASE v = w
      BY <1>1, <1>3, <1>4, <1>6, <2>1, <2>4, <3>1 DEF AnnouncedOnce, Unannounced
    <3>2. CASE v # w
      BY <1>1, <1>4, <1>6, <2>1, <2>4, <3>2 DEF AnnouncedOnce
    <3>3. QED
      BY <3>1, <3>2
  <2>5. QED
    BY <1>1, <2>1, <2>2, <2>3, <2>4 DEF AnnouncedOnce
<1>9. QED
  BY <1>2, <1>5, <1>7, <1>8 DEF NotifierInv

\* A worker is done with its notification, and marks the row, perhaps.
LEMMA LeavesInv ==
  ASSUME NotifierInv, NEW w \in Worker, NEW r \in IdleJob,
         job' = [job EXCEPT ![w] = r], UNCHANGED <<life, queue, outcome>>,
         notifyState' \in [Alert -> NotifyResult \cup {"pending"}],
         \A a \in Alert :
           \/ notifyState'[a] = notifyState[a]
           \/ job[w].step = "send" /\ Carries(w, a) /\ notifyState'[a] = job[w].overall
  PROVE  NotifierInv'
<1>1. r.step \in {"idle", "gone"}
  BY DEF IdleJob, Resting
<1>2. /\ job' \in [Worker -> IdleJob \cup ListJob \cup SendJob] /\ job'[w] = r
      /\ \A v \in Worker \ {w} : job'[v] = job[v]
  BY DEF NotifierInv, NotifierType
<1>3. NotifierType'
  BY <1>2 DEF NotifierInv, NotifierType
<1>4. \A b \in Alert : ~Carries(w, b)' /\ \A v \in Worker \ {w} : Carries(v, b)' = Carries(v, b)
  BY <1>1, <1>2 DEF Carries
<1>5. CarriedOnce' /\ QueuedOnce'
  BY <1>4 DEF NotifierInv, CarriedOnce, QueuedOnce
<1>6. ASSUME NEW b \in Alert PROVE AnnouncedOnce(b)'
  <2>1. AnnouncedOnce(b) /\ Queued(b)' = Queued(b)
    BY DEF NotifierInv, Queued
  <2>2. CASE notifyState'[b] = notifyState[b]
    BY <1>2, <1>4, <2>1, <2>2 DEF AnnouncedOnce, Unannounced
  <2>3. CASE job[w].step = "send" /\ Carries(w, b) /\ notifyState'[b] = job[w].overall
    <3>1. Truthful(notifyState'[b], outcome'[b]) /\ ~Queued(b) /\ life[b] # "new"
      BY <2>1, <2>3 DEF AnnouncedOnce
    <3>2. \A v \in Worker : ~Carries(v, b)'
      BY <1>4, <2>3 DEF NotifierInv, CarriedOnce
    <3>3. QED
      BY <2>1, <3>1, <3>2 DEF AnnouncedOnce
  <2>4. QED
    BY <2>2, <2>3
<1>7. QED
  BY <1>3, <1>5, <1>6 DEF NotifierInv

\* A worker goes on with its notification.
LEMMA GoesOnInv ==
  ASSUME NotifierInv, NEW w \in Worker, NEW r \in SendJob, job[w].step \in {"list", "send"},
         r.item = job[w].item, job' = [job EXCEPT ![w] = r],
         UNCHANGED <<life, queue, notifyState>>, outcome' \in [Alert -> SUBSET NotifyResult],
         \A a \in Alert : IF Carries(w, a) THEN Truthful(r.overall, outcome'[a])
                          ELSE outcome'[a] = outcome[a]
  PROVE  NotifierInv'
<1>1. r.step = "send"
  BY DEF SendJob
<1>2. /\ job' \in [Worker -> IdleJob \cup ListJob \cup SendJob] /\ job'[w] = r
      /\ \A v \in Worker \ {w} : job'[v] = job[v]
  BY DEF NotifierInv, NotifierType
<1>3. NotifierType'
  BY <1>2 DEF NotifierInv, NotifierType
<1>4. \A b \in Alert, v \in Worker : Carries(v, b)' = Carries(v, b)
  BY <1>1, <1>2 DEF Carries
<1>5. CarriedOnce' /\ QueuedOnce'
  BY <1>4 DEF NotifierInv, CarriedOnce, QueuedOnce
<1>6. ASSUME NEW b \in Alert PROVE AnnouncedOnce(b)'
  <2>1. AnnouncedOnce(b) /\ Queued(b)' = Queued(b)
    BY DEF NotifierInv, Queued
  <2>2. CASE Carries(w, b)
    <3>1. /\ notifyState[b] = "pending" /\ ~Queued(b) /\ life[b] # "new"
          /\ \A v \in Worker \ {w} : ~Carries(v, b)
      BY <2>1, <2>2 DEF NotifierInv, AnnouncedOnce, CarriedOnce
    <3>2. Truthful(r.overall, outcome'[b]) /\ Truthful(notifyState'[b], outcome'[b])
      BY <2>2, <3>1 DEF Truthful
    <3>3. QED
      BY <1>1, <1>2, <1>4, <2>1, <3>1, <3>2 DEF AnnouncedOnce
  <2>3. CASE ~Carries(w, b)
    BY <1>2, <1>4, <2>1, <2>3 DEF AnnouncedOnce, Unannounced
  <2>4. QED
    BY <2>2, <2>3
<1>7. QED
  BY <1>3, <1>5, <1>6 DEF NotifierInv

\* The worse of two results hides none.
LEMMA WorseIsTruthful ==
  ASSUME NEW results \in SUBSET NotifyResult, NEW overall \in NotifyResult,
         NEW state \in NotifyResult, Truthful(overall, results)
  PROVE  /\ WorseState(overall, state) \in NotifyResult
         /\ Truthful(WorseState(overall, state), results \cup {state})
  BY DEF WorseState, Rank, Truthful, NotifyResult

LEMMA NextChannelInv ==
  ASSUME NotifierInv, NEW w \in Worker, NEW state \in NotifyResult,
         job[w].step = "send", job[w].left # <<>>, NextChannel(w, state),
         UNCHANGED <<life, queue, notifyState>>
  PROVE  NotifierInv'
<1> DEFINE j == job[w]
           r == [j EXCEPT !.left = Tail(@), !.attempt = 1, !.overall = WorseState(@, state)]
<1>1. j \in SendJob
  BY DEF NotifierInv, NotifierType, IdleJob, ListJob, Resting
<1>2. Tail(j.left) \in Seq(Range(Channels)) /\ WorseState(j.overall, state) \in NotifyResult
  BY <1>1, HeadTailProperties DEF SendJob, WorseState
<1>3. /\ r \in SendJob /\ r.item = job[w].item /\ r.overall = WorseState(j.overall, state)
      /\ j.overall \in NotifyResult /\ j.item \in Item
  BY <1>1, <1>2 DEF SendJob
<1>4. /\ job' = [job EXCEPT ![w] = r]
      /\ outcome' = IF j.item.kind = "recovered" THEN outcome
                    ELSE [outcome EXCEPT ![j.item.alert] = @ \cup {state}]
  BY DEF NextChannel, Become
<1> HIDE DEF r
<1>5. /\ outcome' \in [Alert -> SUBSET NotifyResult]
      /\ \A a \in Alert : outcome'[a] = IF Carries(w, a) THEN outcome[a] \cup {state} ELSE outcome[a]
  BY <1>3, <1>4 DEF NotifierInv, NotifierType, Carries, Announces, Item
<1>6. ASSUME NEW a \in Alert, Carries(w, a) PROVE Truthful(r.overall, outcome'[a])
  <2>1. Truthful(j.overall, outcome[a])
    BY <1>6 DEF NotifierInv, AnnouncedOnce
  <2>2. outcome[a] \in SUBSET NotifyResult
    BY DEF NotifierInv, NotifierType
  <2>3. QED
    BY <1>3, <1>5, <1>6, <2>1, <2>2, WorseIsTruthful
<1>7. QED
  BY <1>3, <1>4, <1>5, <1>6, GoesOnInv

LEMMA SendInv ==
  ASSUME NotifierInv, NEW w \in Worker, Send(w)
  PROVE  NotifierInv'
<1>1. job[w].step = "send" /\ job[w].left # <<>> /\ UNCHANGED <<life, queue, notifyState>>
  BY DEF Send
<1>2. ASSUME NEW state \in NotifyResult, NextChannel(w, state) PROVE NotifierInv'
  BY <1>1, <1>2, NextChannelInv
<1>3. CASE job' = [job EXCEPT ![w].attempt = @ + 1] /\ UNCHANGED outcome
  <2> DEFINE r == [job[w] EXCEPT !.attempt = @ + 1]
  <2>1. job[w] \in SendJob
    BY <1>1 DEF NotifierInv, NotifierType, IdleJob, ListJob, Resting
  <2>2. job' = [job EXCEPT ![w] = r]
    BY <1>3 DEF NotifierInv, NotifierType
  <2>3. r \in SendJob /\ r.item = job[w].item /\ r.overall = job[w].overall
    BY <2>1 DEF SendJob
  <2> HIDE DEF r
  <2>4. \A a \in Alert : Carries(w, a) => Truthful(r.overall, outcome'[a])
    BY <1>1, <1>3, <2>3 DEF NotifierInv, AnnouncedOnce
  <2>5. outcome' \in [Alert -> SUBSET NotifyResult]
    BY <1>3 DEF NotifierInv, NotifierType
  <2>6. QED
    BY <1>1, <1>3, <2>2, <2>3, <2>4, <2>5, GoesOnInv
<1>4. QED
  BY <1>2, <1>3 DEF Send, NotifyResult

LEMMA ListChannelsInv ==
  ASSUME NotifierInv, NEW w \in Worker, ListChannels(w)
  PROVE  NotifierInv'
<1> DEFINE r == [step |-> "send", item |-> job[w].item, left |-> Channels,
                 attempt |-> 1, overall |-> "skipped"]
<1>1. job[w].step = "list" /\ UNCHANGED <<life, queue, notifyState, outcome>>
  BY DEF ListChannels
<1>2. CASE job' = [job EXCEPT ![w] = r]
  <2>1. job[w] \in ListJob
    BY <1>1 DEF NotifierInv, NotifierType, IdleJob, SendJob, Resting
  <2>2. r \in SendJob /\ r.item = job[w].item /\ r.overall = "skipped"
    BY <2>1, NotifierAssumption DEF NotifierAssumption, SendJob, ListJob, NotifyResult
  <2> HIDE DEF r
  <2>3. \A a \in Alert : Carries(w, a) => Truthful(r.overall, outcome'[a])
    BY <1>1, <2>2 DEF NotifierInv, AnnouncedOnce, Truthful
  <2>4. outcome' \in [Alert -> SUBSET NotifyResult]
    BY <1>1 DEF NotifierInv, NotifierType
  <2>5. QED
    BY <1>1, <1>2, <2>2, <2>3, <2>4, GoesOnInv
<1>3. CASE Become(w, Resting)
  <2>1. Resting \in IdleJob /\ notifyState' \in [Alert -> NotifyResult \cup {"pending"}]
    BY <1>1 DEF IdleJob, NotifierInv, NotifierType
  <2>2. QED
    BY <1>1, <1>3, <2>1, LeavesInv DEF Become
<1>4. QED
  BY <1>2, <1>3 DEF ListChannels, Become

LEMMA MarkInv ==
  ASSUME NotifierInv, NEW w \in Worker, Mark(w)
  PROVE  NotifierInv'
<1>1. /\ job[w].step = "send" /\ job' = [job EXCEPT ![w] = Resting]
      /\ UNCHANGED <<life, queue, outcome>>
      /\ \/ /\ job[w].item.kind = "firing"
            /\ notifyState' = [notifyState EXCEPT ![job[w].item.alert] = job[w].overall]
         \/ UNCHANGED notifyState
  BY DEF Mark, Become
<1>2. job[w] \in SendJob
  BY <1>1 DEF NotifierInv, NotifierType, IdleJob, ListJob, Resting
<1>3. job[w].item.alert \in Alert /\ job[w].overall \in NotifyResult
  BY <1>2 DEF SendJob, Item
<1>4. /\ notifyState' \in [Alert -> NotifyResult \cup {"pending"}]
      /\ \A a \in Alert :
           \/ notifyState'[a] = notifyState[a]
           \/ job[w].step = "send" /\ Carries(w, a) /\ notifyState'[a] = job[w].overall
  BY <1>1, <1>3 DEF NotifierInv, NotifierType, Carries, Announces
<1>5. Resting \in IdleJob
  BY DEF IdleJob
<1>6. QED
  BY <1>1, <1>4, <1>5, LeavesInv

LEMMA QuitInv ==
  ASSUME NotifierInv, NEW w \in Worker, Quit(w)
  PROVE  NotifierInv'
<1>1. [step |-> "gone"] \in IdleJob /\ notifyState' \in [Alert -> NotifyResult \cup {"pending"}]
  BY DEF IdleJob, NotifierInv, NotifierType, Quit
<1>2. QED
  BY <1>1, LeavesInv DEF Quit, Become

\* Every step of the alerts and of the workers keeps the invariant.
LEMMA NotifierStepInv == NotifierInv /\ [NotifierNext]_notifierVars => NotifierInv'
<1> SUFFICES ASSUME NotifierInv, [NotifierNext]_notifierVars PROVE NotifierInv'
  OBVIOUS
<1>1. ASSUME NEW a \in Alert, Raise(a) \/ Clear(a) PROVE NotifierInv'
  BY <1>1, LifeInv
<1>2. ASSUME NEW w \in Worker, Work(w) PROVE NotifierInv'
  BY <1>2, TakeItemInv, QuitInv, ListChannelsInv, SendInv, MarkInv DEF Work
<1>3. CASE UNCHANGED <<life, queue, job, notifyState, outcome>>
  BY <1>3
  DEF NotifierInv, NotifierType, QueuedOnce, CarriedOnce, AnnouncedOnce, Unannounced, Queued, Carries
<1>4. QED
  BY <1>1, <1>2, <1>3 DEF NotifierNext, Cancel, notifierVars

\* Whatever the queue drops, and however many workers and channels there are, an
\* alert is announced by one worker at most, which knows the worst result.
THEOREM NotifierInvariant == NotifierSpec => []NotifierInv
<1>1. QED
  BY NotifierInitInv, NotifierStepInv, PTL DEF NotifierSpec

\* What alert_event says of a notification is the worst that happened to it.
THEOREM NotifierTellsTheTruth == NotifierSpec => []NotifyStateTruthful
<1>1. NotifierInv => NotifyStateTruthful
  BY DEF NotifierInv, AnnouncedOnce, Truthful, NotifyStateTruthful
<1>2. QED
  BY <1>1, NotifierInvariant, PTL
=============================================================================
