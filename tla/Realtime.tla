------------------------------ MODULE Realtime ------------------------------
(***************************************************************************)
(* From the event bus to the sockets of the clients.                       *)
(*                                                                         *)
(* aionui-realtime: broadcaster.rs, manager.rs, handler.rs; aionui-app:    *)
(* router/routes.rs.  Every component publishes on the bus, a broadcast    *)
(* channel that keeps the last BusSize events.  One task, the bridge,      *)
(* takes them off and offers each to the bounded queue of every connection *)
(* in the map; a send loop per connection writes its queue to the socket   *)
(* and a receive loop reads from it.  The queue's sender lives in the map, *)
(* so a connection that leaves the map gets what is queued and no more.    *)
(***************************************************************************)
EXTENDS Naturals, Sequences, SequencesExt

CONSTANTS
  Conns,           \* connections
  MaxEvents,       \* bound: events published
  BusSize,         \* capacity of BroadcastEventBus, lowered
  Buffer,          \* PER_CONNECTION_BUFFER, lowered
  MaxTicks,        \* bound: heartbeats
  MaxTalk          \* bound: messages and token losses

VARIABLES
  published,       \* events published so far, numbered from 1
  bridge,          \* [next, alive]: the receiver of the bridge task
  conn,            \* the connections
  heart,           \* start_heartbeat was called; the application never does
  ticks, talk      \* bounds

RealtimeAssumption == {MaxEvents, BusSize, Buffer, MaxTicks, MaxTalk} \subseteq Nat

vars == <<published, bridge, conn, heart, ticks, talk>>

Events == 1 .. MaxEvents
Frames == {<<"event", n>> : n \in Events} \cup {<<k, 0>> : k \in {"ping", "reply", "expired", "close"}}

\* pc: of handle_socket; known: in the map; sending: the send loop runs;
\* silent: heartbeats since last_ping; got, told: the events and the close
\* frame written to the socket; joined, dropped: the events forwarded before
\* the connection came and those its queue had no room for.
ConnState ==
  [pc : {"new", "live", "gone"}, known : BOOLEAN, sending : BOOLEAN, up : BOOLEAN,
   valid : BOOLEAN, silent : 0 .. 2, queue : Seq(Frames), got : Seq(Events), told : BOOLEAN,
   joined : 0 .. MaxEvents, dropped : SUBSET Events]

Init ==
  /\ published = 0 /\ bridge = [next |-> 1, alive |-> TRUE]
  /\ conn = [c \in Conns |->
       [pc |-> "new", known |-> FALSE, sending |-> FALSE, up |-> TRUE, valid |-> TRUE,
        silent |-> 0, queue |-> <<>>, got |-> <<>>, told |-> FALSE, joined |-> 0, dropped |-> {}]]
  /\ heart \in BOOLEAN /\ ticks = 0 /\ talk = 0

-----------------------------------------------------------------------------
(* Helpers *)

\* try_send: a full queue loses the frame, a closed one reports it.
HasRoom(s) == Len(s.queue) < Buffer

\* Mutant of Put: an unbounded channel.
PutAlways(s, frame) == [s EXCEPT !.queue = Append(@, frame)]

Put(s, frame) == IF HasRoom(s) THEN [s EXCEPT !.queue = Append(@, frame)] ELSE s

Forget(s) == [s EXCEPT !.known = FALSE]

Forwarded == bridge.next - 1

Talk == talk < MaxTalk /\ talk' = talk + 1

-----------------------------------------------------------------------------
(* The bus and the bridge *)

\* BroadcastEventBus::broadcast
Publish ==
  /\ published < MaxEvents /\ published' = published + 1
  /\ UNCHANGED <<bridge, conn, heart, ticks, talk>>

\* Mutant of Lag: the bridge skips what it lost and goes on.
LagSkip ==
  /\ bridge.alive /\ published - Forwarded > BusSize
  /\ bridge' = [bridge EXCEPT !.next = published - BusSize + 1]
  /\ UNCHANGED <<published, conn, heart, ticks, talk>>

\* recv: more than BusSize events behind, it reports the lag, and the loop of
\* create_router takes any error for the end.
Lag ==
  /\ bridge.alive /\ published - Forwarded > BusSize
  /\ bridge' = [next |-> published - BusSize + 1, alive |-> FALSE]
  /\ UNCHANGED <<published, conn, heart, ticks, talk>>

\* broadcast_all: a full queue loses the event, a closed one the connection.
Forward ==
  LET n == bridge.next IN
  /\ bridge.alive /\ n <= published /\ published - Forwarded <= BusSize
  /\ bridge' = [bridge EXCEPT !.next = n + 1]
  /\ conn' = [c \in Conns |->
       IF ~conn[c].known THEN conn[c]
       ELSE IF ~conn[c].sending THEN Forget(conn[c])
       ELSE IF HasRoom(conn[c]) THEN Put(conn[c], <<"event", n>>)
       ELSE [conn[c] EXCEPT !.dropped = @ \cup {n}]]
  /\ UNCHANGED <<published, heart, ticks, talk>>

-----------------------------------------------------------------------------
(* Connections: ws_upgrade_handler, handle_socket, send_loop, recv_loop *)

\* A client without a token that verifies is told so and closed; another gets
\* a queue, an entry in the map and a send loop.
Accept(c) ==
  /\ conn[c].pc = "new"
  /\ conn' = [conn EXCEPT ![c] =
       IF ~conn[c].valid
       THEN [conn[c] EXCEPT !.pc = "gone", !.told = TRUE]
       ELSE [conn[c] EXCEPT !.pc = "live", !.known = TRUE, !.sending = TRUE, !.joined = Forwarded]]
  /\ UNCHANGED <<published, bridge, heart, ticks, talk>>

\* The send loop writes one frame.  It ends when the socket refuses it, or
\* when the queue is empty and its sender is gone.
Write(c) ==
  LET s == conn[c] IN
  /\ s.sending
  /\ \/ /\ s.queue # <<>> /\ s.up
        /\ LET f == Head(s.queue) IN
           conn' = [conn EXCEPT ![c].queue = Tail(@),
                      ![c].got = IF f[1] = "event" THEN Append(@, f[2]) ELSE @,
                      ![c].told = @ \/ f[1] = "close"]
     \/ /\ s.queue # <<>> /\ ~s.up
        /\ conn' = [conn EXCEPT ![c].sending = FALSE, ![c].queue = <<>>]
     \/ /\ s.queue = <<>> /\ ~s.known
        /\ conn' = [conn EXCEPT ![c].sending = FALSE]
  /\ UNCHANGED <<published, bridge, heart, ticks, talk>>

\* External: the network fails, or the token expires or is revoked.
SocketDown(c) ==
  /\ conn[c].up /\ conn[c].pc = "live" /\ Talk
  /\ conn' = [conn EXCEPT ![c].up = FALSE]
  /\ UNCHANGED <<published, bridge, heart, ticks>>

TokenLost(c) ==
  /\ conn[c].valid /\ Talk
  /\ conn' = [conn EXCEPT ![c].valid = FALSE]
  /\ UNCHANGED <<published, bridge, heart, ticks>>

\* handle_text_message: a pong renews last_ping.
Pong(c) ==
  /\ conn[c].pc = "live" /\ conn[c].up /\ heart /\ conn[c].silent > 0
  /\ conn' = [conn EXCEPT ![c].silent = IF conn[c].known THEN 0 ELSE @]
  /\ UNCHANGED <<published, bridge, heart, ticks, talk>>

\* Anything it cannot parse is answered with an error, subscribe-show-open
\* with a request, through the map; the router drops the rest.
Ask(c) ==
  /\ conn[c].pc = "live" /\ conn[c].up /\ Talk
  /\ conn' = [conn EXCEPT ![c] = IF ~@.known THEN @ ELSE IF ~@.sending THEN Forget(@)
                                 ELSE Put(@, <<"reply", 0>>)]
  /\ UNCHANGED <<published, bridge, heart, ticks>>

\* The receive loop ends, by an error, the answer to our close frame or a
\* close of the client's own: the send loop is aborted, the entry removed.
Hangup(c) ==
  /\ conn[c].pc = "live"
  /\ conn' = [conn EXCEPT ![c] = [Forget(@) EXCEPT !.pc = "gone", !.sending = FALSE, !.queue = <<>>]]
  /\ UNCHANGED <<published, bridge, heart, ticks, talk>>

\* heartbeat_tick, every 30 seconds: silent for more than 60, or a token that
\* does not verify, and the connection is told, if there is room, and removed.
Beat(s) ==
  IF ~s.known THEN s
  ELSE IF s.silent = 2 THEN Forget(IF s.sending THEN Put(s, <<"close", 0>>) ELSE s)
  ELSE IF ~s.valid THEN Forget(IF s.sending THEN Put(Put(s, <<"expired", 0>>), <<"close", 0>>) ELSE s)
  ELSE IF ~s.sending THEN Forget([s EXCEPT !.silent = @ + 1])
  ELSE [Put(s, <<"ping", 0>>) EXCEPT !.silent = @ + 1]

Tick ==
  /\ heart /\ ticks < MaxTicks /\ ticks' = ticks + 1
  /\ conn' = [c \in Conns |-> Beat(conn[c])]
  /\ UNCHANGED <<published, bridge, heart, talk>>

-----------------------------------------------------------------------------

Next ==
  \/ Publish \/ Lag \/ Forward \/ Tick
  \/ \E c \in Conns :
       \/ Accept(c) \/ Write(c) \/ SocketDown(c) \/ TokenLost(c)
       \/ Pong(c) \/ Ask(c) \/ Hangup(c)

Spec == Init /\ [][Next]_vars

-----------------------------------------------------------------------------
(* Properties *)

TypeOK ==
  /\ published \in 0 .. MaxEvents
  /\ bridge \in [next : 1 .. MaxEvents + 1, alive : BOOLEAN]
  /\ conn \in [Conns -> ConnState] /\ \A c \in Conns : Len(conn[c].queue) <= Buffer
  /\ heart \in BOOLEAN /\ ticks \in 0 .. MaxTicks /\ talk \in 0 .. MaxTalk

\* The places of a queue where an event waits, and the events among what a
\* client was sent and what waits for it.
Waiting(queue) == {i \in DOMAIN queue : queue[i][1] = "event"}
EventsOf(s) == ToSet(s.got) \cup {s.queue[i][2] : i \in Waiting(s.queue)}

InOrder(s) ==
  /\ \A i, j \in DOMAIN s.got : i < j => s.got[i] < s.got[j]
  /\ \A i \in DOMAIN s.got, j \in Waiting(s.queue) : s.got[i] < s.queue[j][2]
  /\ \A i, j \in Waiting(s.queue) : i < j => s.queue[i][2] < s.queue[j][2]

\* A client in the map misses only what its own queue had no room for: between
\* the bus, the bridge, the queue and the socket every other event forwarded
\* since it joined is passed on once and in order.
LossIsFullQueue ==
  \A c \in Conns :
    conn[c].known /\ conn[c].sending =>
      /\ bridge.alive => EventsOf(conn[c]) = (conn[c].joined + 1 .. Forwarded) \ conn[c].dropped
      /\ InOrder(conn[c])

-----------------------------------------------------------------------------
(* What the documents say and the code does not do *)

\* "Bridge event bus -> WebSocket manager: forward all broadcast events to
\* connected WebSocket clients" (create_router).
BridgeForwardsAll == bridge.alive

\* "Timeout check -- closes connections with no pong" (start_heartbeat).
DroppedIsClosed ==
  \A c \in Conns :
    conn[c].pc = "live" /\ ~conn[c].known /\ conn[c].up /\ ~conn[c].sending
      => conn[c].told
=============================================================================
