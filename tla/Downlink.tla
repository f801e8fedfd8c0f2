------------------------------ MODULE Downlink ------------------------------
(***************************************************************************)
(* The commands to one agent: SendCommand looks up the sink of the host's  *)
(* stream and puts the command into it (api/agent/stream_server.go), the   *)
(* stream's loop sends it, and the agent handles commands as they come.    *)
(* Streams overlap when the agent reconnects before the server has noticed *)
(* that its last stream is dead, and a call holds the sink it found across *)
(* everything that happens to the stream meanwhile.                        *)
(***************************************************************************)
EXTENDS Integers, Sequences, FiniteSets

CONSTANTS
  Stream,     \* the streams of the host
  Order,      \* the commands, one call of SendCommand each
  NoStream,   \* the map sinks holds no entry for the host
  SinkSize    \* the buffer of a sink

ASSUME DownlinkAssumption == NoStream \notin Stream /\ SinkSize \in Nat \ {0}

VARIABLES
  stream,    \* "new", "open", "ended" (the loop has returned), "over" (its defer has run)
  entry,     \* the stream whose sink the map sinks holds
  sink,      \* what the sink of each stream buffers
  sending,   \* each call: "none", "looked" (it has the sink), "accepted", "full", "offline"
  found,     \* the stream whose sink a call found
  handled,   \* history: the commands the agent received on each stream
  late       \* history: the streams that were over when a call began

downlinkVars == <<stream, entry, sink, sending, found, handled, late>>

DownlinkInit ==
  /\ stream = [s \in Stream |-> "new"] /\ entry = NoStream
  /\ sink = [s \in Stream |-> <<>>]
  /\ sending = [o \in Order |-> "none"] /\ found = [o \in Order |-> NoStream]
  /\ handled = [s \in Stream |-> <<>>] /\ late = [o \in Order |-> {}]

\* The agent has one stream at a time, but what ended for it may be open here.
Connect(s) ==
  /\ stream[s] = "new"
  /\ stream' = [stream EXCEPT ![s] = "open"]
  /\ entry' = s
  /\ UNCHANGED <<sink, sending, found, handled, late>>

\* The loop returns: an error of Recv or Send, or the context's end.
StreamEnds(s) ==
  /\ stream[s] = "open"
  /\ stream' = [stream EXCEPT ![s] = "ended"]
  /\ UNCHANGED <<entry, sink, sending, found, handled, late>>

Unregister_Never(s) == UNCHANGED entry
\* The deferred cleanup deletes the host's entry, whosever sink it is.
Unregister(s) == entry' = NoStream
Cleanup(s) ==
  /\ stream[s] = "ended"
  /\ stream' = [stream EXCEPT ![s] = "over"]
  /\ Unregister(s)
  /\ UNCHANGED <<sink, sending, found, handled, late>>

\* SendCommand reads the map under the lock,
LookUp(o) ==
  /\ sending[o] = "none"
  /\ sending' = [sending EXCEPT ![o] = IF entry = NoStream THEN "offline" ELSE "looked"]
  /\ found' = [found EXCEPT ![o] = entry]
  /\ late' = [late EXCEPT ![o] = {s \in Stream : stream[s] = "over"}]
  /\ UNCHANGED <<stream, entry, sink, handled>>

\* and offers the command to the sink without it: a full sink is an error.
Put(o) ==
  /\ sending[o] = "looked"
  /\ \/ /\ Len(sink[found[o]]) < SinkSize
        /\ sink' = [sink EXCEPT ![found[o]] = Append(@, o)]
        /\ sending' = [sending EXCEPT ![o] = "accepted"]
     \/ /\ Len(sink[found[o]]) = SinkSize
        /\ sending' = [sending EXCEPT ![o] = "full"] /\ UNCHANGED sink
  /\ UNCHANGED <<stream, entry, found, handled, late>>

\* The loop takes a command, sends it, and the agent handles it; on a dead
\* connection the send fails and the loop returns.
Forward(s) ==
  /\ stream[s] = "open" /\ sink[s] # <<>>
  /\ sink' = [sink EXCEPT ![s] = Tail(@)]
  /\ \/ handled' = [handled EXCEPT ![s] = Append(@, Head(sink[s]))] /\ UNCHANGED stream
     \/ stream' = [stream EXCEPT ![s] = "ended"] /\ UNCHANGED handled
  /\ UNCHANGED <<entry, sending, found, late>>

DownlinkNext ==
  \/ \E s \in Stream : Connect(s) \/ StreamEnds(s) \/ Cleanup(s) \/ Forward(s)
  \/ \E o \in Order : LookUp(o) \/ Put(o)

-----------------------------------------------------------------------------
\* A call that begins after the cleanup of a stream never puts its command
\* into that stream's sink, whatever the order in which overlapping streams
\* come and go: it is refused, or a newer stream takes it. A command in the
\* sink of a stream that is over was offered by a call that began before.
NoDeadSink ==
  \A o \in Order : sending[o] = "accepted" => found[o] \notin late[o]
=============================================================================
