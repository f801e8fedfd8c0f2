-------------------------------- MODULE Hub --------------------------------
(***************************************************************************)
(* The WebSocket hub (backend/internal/ws/hub.go): requests for            *)
(* /ws/alerts subscribe before the handshake, broadcasts send to every     *)
(* subscriber under a read lock and never block on one.                    *)
(***************************************************************************)
EXTENDS Naturals, Sequences

CONSTANTS
  Client,       \* requests, each a goroutine in serve with its channel
  Broadcast,    \* calls of BroadcastJSON, each with its message
  ClientBuffer  \* capacity of a client's channel

ASSUME HubAssumption == ClientBuffer \in Nat \ {0}

VARIABLES
  clients,   \* Hub.clients
  channel,   \* what is in a client's channel
  closed,    \* channels that are closed
  serving,   \* the step a request is at
  call,      \* the step a broadcast is at: "new", "sending" or "done"
  rest,      \* clients a broadcast has not come to yet
  written,   \* messages written to a client's connection
  dropped,   \* history: messages that met a full channel
  before,    \* history: broadcasts that began before a client was told 101
  panicked   \* a send on a closed channel

hubVars == <<clients, channel, closed, serving, call, rest, written, dropped, before, panicked>>

\* RWMutex: a writer gets it when nobody reads.
NoReader == \A b \in Broadcast : call[b] # "sending"

At(c, from, to) == serving[c] = from /\ serving' = [serving EXCEPT ![c] = to]

-----------------------------------------------------------------------------
(* serve *)

Subscribe_AfterHandshake(c) ==
  /\ \/ At(c, "new", "handshake") /\ UNCHANGED clients
     \/ /\ serving[c] = "open" /\ c \notin clients /\ NoReader
        /\ clients' = clients \cup {c} /\ UNCHANGED serving
  /\ UNCHANGED <<channel, closed, call, rest, written, dropped, before, panicked>>

Subscribe(c) ==
  /\ At(c, "new", "handshake") /\ NoReader
  /\ clients' = clients \cup {c}
  /\ UNCHANGED <<channel, closed, call, rest, written, dropped, before, panicked>>

\* The client reads 101 and knows that it is subscribed, or the upgrade fails.
Upgrade(c) ==
  /\ \/ /\ At(c, "handshake", "open")
        /\ before' = [before EXCEPT ![c] = {b \in Broadcast : call[b] # "new"}]
     \/ At(c, "handshake", "leaving") /\ UNCHANGED before
  /\ UNCHANGED <<clients, channel, closed, call, rest, written, dropped, panicked>>

\* The write pump; a write that fails ends the request.
WriteMessage(c) ==
  /\ channel[c] # <<>>
  /\ channel' = [channel EXCEPT ![c] = Tail(@)]
  /\ \/ /\ serving[c] = "open" /\ UNCHANGED serving
        /\ written' = [written EXCEPT ![c] = @ \cup {Head(channel[c])}]
     \/ At(c, "open", "leaving") /\ UNCHANGED written
  /\ UNCHANGED <<clients, closed, call, rest, dropped, before, panicked>>

\* The read pump has noticed that the client is gone.
Disconnect(c) ==
  /\ At(c, "open", "leaving")
  /\ UNCHANGED <<clients, channel, closed, call, rest, written, dropped, before, panicked>>

\* unsubscribe: the delete, under the lock, and then the close.
Unsubscribe(c) ==
  /\ At(c, "leaving", "unsubscribed") /\ NoReader
  /\ clients' = clients \ {c}
  /\ UNCHANGED <<channel, closed, call, rest, written, dropped, before, panicked>>

CloseChannel(c) ==
  /\ At(c, "unsubscribed", "gone")
  /\ closed' = closed \cup {c}
  /\ UNCHANGED <<clients, channel, call, rest, written, dropped, before, panicked>>

-----------------------------------------------------------------------------
(* BroadcastJSON *)

ReadLock(b) ==
  /\ call[b] = "new"
  /\ call' = [call EXCEPT ![b] = "sending"]
  /\ rest' = [rest EXCEPT ![b] = clients]
  /\ UNCHANGED <<clients, channel, closed, serving, written, dropped, before, panicked>>

\* A full channel: the message is dropped for this client.
Offer(b, c) ==
  /\ call[b] = "sending" /\ c \in rest[b]
  /\ rest' = [rest EXCEPT ![b] = @ \ {c}]
  /\ panicked' = (panicked \/ c \in closed)
  /\ IF Len(channel[c]) < ClientBuffer
     THEN channel' = [channel EXCEPT ![c] = Append(@, b)] /\ UNCHANGED dropped
     ELSE dropped' = [dropped EXCEPT ![c] = @ \cup {b}] /\ UNCHANGED channel
  /\ UNCHANGED <<clients, closed, serving, call, written, before>>

ReadUnlock(b) ==
  /\ call[b] = "sending" /\ rest[b] = {}
  /\ call' = [call EXCEPT ![b] = "done"]
  /\ UNCHANGED <<clients, channel, closed, serving, rest, written, dropped, before, panicked>>

HubInit ==
  /\ clients = {} /\ closed = {} /\ panicked = FALSE
  /\ channel = [c \in Client |-> <<>>]
  /\ serving = [c \in Client |-> "new"]
  /\ call = [b \in Broadcast |-> "new"]
  /\ rest = [b \in Broadcast |-> {}]
  /\ written = [c \in Client |-> {}]
  /\ dropped = [c \in Client |-> {}]
  /\ before = [c \in Client |-> {}]

Serve(c) ==
  \/ Subscribe(c) \/ Upgrade(c) \/ WriteMessage(c) \/ Disconnect(c)
  \/ Unsubscribe(c) \/ CloseChannel(c)

Distribute(b) == ReadLock(b) \/ ReadUnlock(b) \/ \E c \in Client : Offer(b, c)

HubNext == (\E c \in Client : Serve(c)) \/ \E b \in Broadcast : Distribute(b)

-----------------------------------------------------------------------------
(* Properties *)

Buffered(c) == {channel[c][i] : i \in DOMAIN channel[c]}

\* A client that has read 101 misses no broadcast that begins after it, except
\* those that met its full channel; and nobody sends on a closed channel,
\* although unsubscribe closes it outside the lock.
NothingMissed ==
  /\ ~panicked
  /\ \A c \in Client, b \in Broadcast :
       serving[c] = "open" /\ call[b] = "done" /\ b \notin before[c] =>
         b \in Buffered(c) \cup written[c] \cup dropped[c]
=============================================================================
