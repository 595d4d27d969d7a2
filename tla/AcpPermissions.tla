--------------------------- MODULE AcpPermissions ---------------------------
(***************************************************************************)
(* How an ACP agent's requests for permission reach the user, and return.  *)
(*                                                                         *)
(* aionui-ai-agent: permission_router.rs, protocol/acp.rs, the stop and    *)
(* the kill of manager/acp/agent.rs; aionui-conversation: service.rs       *)
(* (confirm), stream_relay.rs as far as it forwards.  A request waits in   *)
(* its handler for an answer, its responder goes through a channel to the  *)
(* router, which keeps it and then announces it on the agent's event       *)
(* channel; a turn's relay forwards what it reads until the turn's end.    *)
(* The agent itself is external: it asks and ends its prompts when it      *)
(* likes.  Whether its handlers run side by side is up to the library; here *)
(* they do.                                                                *)
(***************************************************************************)
EXTENDS Naturals, Sequences, SequencesExt

CONSTANTS
  Calls,           \* tool call ids; one may be asked about twice
  Room,            \* of the channel of requests (32), lowered
  Capacity,        \* of the event channel (256), lowered
  MaxAsks, MaxTurns, MaxStops   \* bounds

VARIABLES
  ask,             \* the requests, in the order they were made
  queue,           \* requests on their way to the router
  router,          \* <<what it is about to do, with which request>>
  pending,         \* pending_permissions: by call, the request; 0: none
  reader,          \* the relay: it reads, has read the end, or there is none
  events,          \* what it has yet to read: a request's number, 0 for an end
  shown,           \* history: requests the client was shown
  missed,          \* history: announced behind an end, or lost by lagging
  prompts,         \* at the agent
  over,            \* the runtime's status is Finished, for good
  stop,            \* the stop or kill in progress: "no", "stop", "kill"
  killed, up,      \* the agent was killed; its process runs
  turns, stops     \* bounds

vars == <<ask, queue, router, pending, reader, events, shown, missed, prompts, over, stop, killed,
          up, turns, stops>>

PermissionAssumption ==
  /\ Room \in Nat \ {0} /\ Capacity \in Nat \ {0}
  /\ MaxAsks \in Nat /\ MaxTurns \in Nat /\ MaxStops \in Nat

States == {"sending", "waiting", "answered", "cancelled", "gone"}
Asks == 1 .. Len(ask)
End == 0

TypeOK ==
  /\ ask \in Seq([call : Calls, team : BOOLEAN, state : States]) /\ Len(ask) <= MaxAsks
  /\ queue \in Seq(Asks) /\ Len(queue) <= Room
  /\ router \in {"recv", "tell", "undo"} \X (0 .. Len(ask))
  /\ pending \in [Calls -> 0 .. Len(ask)]
  /\ reader \in {"none", "reads", "ended"}
  /\ events \in Seq(0 .. Len(ask)) /\ Len(events) <= Capacity
  /\ shown \subseteq Asks /\ missed \subseteq Asks
  /\ prompts \in 0 .. MaxTurns /\ over \in BOOLEAN /\ stop \in {"no", "stop", "kill"}
  /\ killed \in BOOLEAN /\ up \in BOOLEAN
  /\ turns \in 0 .. MaxTurns /\ stops \in 0 .. MaxStops

Init ==
  /\ ask = <<>> /\ queue = <<>> /\ router = <<"recv", 0>> /\ pending = [c \in Calls |-> 0]
  /\ reader = "none" /\ events = <<>> /\ shown = {} /\ missed = {}
  /\ prompts = 0 /\ over = FALSE /\ stop = "no" /\ killed = FALSE /\ up = TRUE
  /\ turns = 0 /\ stops = 0

-----------------------------------------------------------------------------
(* The event channel *)

\* A receiver that has fallen behind loses what is oldest.
Keep(s) == IF Len(s) > Capacity THEN SubSeq(s, Len(s) - Capacity + 1, Len(s)) ELSE s
Emit(s) ==
  /\ events' = IF reader = "none" THEN events ELSE Keep(events \o s)
  /\ missed' = missed \cup
       (IF reader = "none" THEN {}
        ELSE (ToSet(events \o s) \ (ToSet(events') \cup {End}))
             \cup (IF reader = "ended" \/ End \in ToSet(events) THEN ToSet(s) \ {End} ELSE {}))

\* emit_finish and emit_error: once in the life of the runtime.
EmitEnd == Emit(IF over THEN <<>> ELSE <<End>>) /\ over' = TRUE

\* The responders of these requests are used.
Settle(asks, state) ==
  ask' = [n \in Asks |-> IF n \in asks /\ ask[n].state = "waiting"
                         THEN [ask[n] EXCEPT !.state = state] ELSE ask[n]]

-----------------------------------------------------------------------------
(* Turns *)

\* The turn's relay subscribes before the prompt goes out.
Begin ==
  /\ up /\ ~killed /\ reader = "none" /\ turns < MaxTurns
  /\ turns' = turns + 1 /\ reader' = "reads" /\ events' = <<>> /\ prompts' = prompts + 1
  /\ UNCHANGED <<ask, queue, router, pending, shown, missed, over, stop, killed, up, stops>>

\* The prompt returns: an end for certain, and one more if it is the first.
PromptEnds ==
  /\ up /\ prompts > 0 /\ prompts' = prompts - 1
  /\ Emit(IF over THEN <<End>> ELSE <<End, End>>) /\ over' = TRUE
  /\ UNCHANGED <<ask, queue, router, pending, reader, shown, stop, killed, up, turns, stops>>

PromptFails ==
  /\ prompts > 0 /\ prompts' = prompts - 1 /\ EmitEnd
  /\ UNCHANGED <<ask, queue, router, pending, reader, shown, stop, killed, up, turns, stops>>

\* The relay forwards an event; at an end it reads no more, but has yet to
\* finish its work on the database.
Forward ==
  /\ reader = "reads" /\ events # <<>> /\ events' = Tail(events)
  /\ IF Head(events) = End THEN reader' = "ended" /\ UNCHANGED shown
     ELSE shown' = shown \cup {Head(events)} /\ UNCHANGED reader
  /\ UNCHANGED <<ask, queue, router, pending, missed, prompts, over, stop, killed, up, turns, stops>>

RelayLeaves ==
  /\ reader = "ended" /\ reader' = "none" /\ events' = <<>>
  /\ UNCHANGED <<ask, queue, router, pending, shown, missed, prompts, over, stop, killed, up, turns, stops>>

-----------------------------------------------------------------------------
(* Requests *)

\* The agent asks for permission; team: a tool of the team's own.
Ask(c, team) ==
  /\ up /\ prompts > 0 /\ Len(ask) < MaxAsks
  /\ ask' = Append(ask, [call |-> c, team |-> team, state |-> "sending"])
  /\ UNCHANGED <<queue, router, pending, reader, events, shown, missed, prompts, over, stop,
                 killed, up, turns, stops>>

\* handle_permission_request, once the channel has room; then it waits.
Hand(n) ==
  /\ ask[n].state = "sending" /\ Len(queue) < Room
  /\ queue' = Append(queue, n) /\ ask' = [ask EXCEPT ![n].state = "waiting"]
  /\ UNCHANGED <<router, pending, reader, events, shown, missed, prompts, over, stop, killed, up,
                 turns, stops>>

\* The router takes a request: a team tool is approved, an earlier request
\* about the same call is cancelled.
Route ==
  /\ router[1] = "recv" /\ queue # <<>> /\ queue' = Tail(queue)
  /\ LET n == Head(queue)
         c == ask[n].call
     IN IF ask[n].team THEN Settle({n}, "answered") /\ UNCHANGED <<router, pending>>
        ELSE /\ Settle({pending[c]}, "cancelled")
             /\ pending' = [pending EXCEPT ![c] = n] /\ router' = <<"tell", n>>
  /\ UNCHANGED <<reader, events, shown, missed, prompts, over, stop, killed, up, turns, stops>>

\* What the router does when nobody is subscribed, if it did nothing.
TellAnyway ==
  /\ router[1] = "tell" /\ router' = <<"recv", 0>> /\ Emit(<<router[2]>>)
  /\ UNCHANGED <<ask, queue, pending, reader, shown, prompts, over, stop, killed, up, turns, stops>>

\* It announces the request; nobody subscribed is the one error it notices.
Tell ==
  /\ router[1] = "tell"
  /\ IF reader = "none" THEN router' = <<"undo", router[2]>> /\ UNCHANGED <<events, missed>>
     ELSE router' = <<"recv", 0>> /\ Emit(<<router[2]>>)
  /\ UNCHANGED <<ask, queue, pending, reader, shown, prompts, over, stop, killed, up, turns, stops>>

Undo ==
  /\ router[1] = "undo" /\ router' = <<"recv", 0>>
  /\ LET c == ask[router[2]].call
     IN Settle({pending[c]}, "cancelled") /\ pending' = [pending EXCEPT ![c] = 0]
  /\ UNCHANGED <<queue, reader, events, shown, missed, prompts, over, stop, killed, up, turns, stops>>

\* The user answers what the client was shown about a call.
Confirm(c) ==
  /\ ~killed /\ pending[c] # 0 /\ \E n \in shown : ask[n].call = c
  /\ Settle({pending[c]}, "answered") /\ pending' = [pending EXCEPT ![c] = 0]
  /\ UNCHANGED <<queue, router, reader, events, shown, missed, prompts, over, stop, killed, up,
                 turns, stops>>

-----------------------------------------------------------------------------
(* Stop and kill *)

\* cancel_all, of a stop or of a kill.
CancelAll(kind) ==
  /\ stop = "no" /\ ~killed /\ stops < MaxStops /\ stops' = stops + 1
  /\ stop' = kind /\ killed' = (kind = "kill")
  /\ Settle({pending[c] : c \in Calls}, "cancelled") /\ pending' = [c \in Calls |-> 0]
  /\ UNCHANGED <<queue, router, reader, events, shown, missed, prompts, over, up, turns>>

StopEnds ==
  /\ stop # "no" /\ stop' = "no" /\ EmitEnd
  /\ UNCHANGED <<ask, queue, router, pending, reader, shown, prompts, killed, up, turns, stops>>

\* The process ends, and with it the handlers of its requests.
Exit ==
  /\ up /\ up' = FALSE
  /\ ask' = [n \in Asks |-> IF ask[n].state \in {"sending", "waiting"}
                            THEN [ask[n] EXCEPT !.state = "gone"] ELSE ask[n]]
  /\ UNCHANGED <<queue, router, pending, reader, events, shown, missed, prompts, over, stop,
                 killed, turns, stops>>

Next ==
  \/ Begin \/ PromptEnds \/ PromptFails \/ Forward \/ RelayLeaves
  \/ \E c \in Calls : Confirm(c) \/ \E team \in BOOLEAN : Ask(c, team)
  \/ \E n \in Asks : Hand(n)
  \/ Route \/ Tell \/ Undo
  \/ CancelAll("stop") \/ CancelAll("kill") \/ StopEnds \/ Exit

Spec == Init /\ [][Next]_vars

-----------------------------------------------------------------------------
(* Properties *)

\* An agent that waits for a permission waits for somebody: its request is on
\* its way to the router, or the router is at it, or it is kept and the client
\* was shown it or is about to be.  However turns end, stops and kills cross
\* it, no responder is forgotten and none is kept that nobody hears of.
\* Excepted are the requests announced to a relay that had its end before it
\* or lost them by lagging (missed): they wait for the next stop.
AskIsHeard ==
  \A n \in Asks : ask[n].state = "waiting" =>
    \/ n \in ToSet(queue)
    \/ pending[ask[n].call] = n
       /\ \/ n \in shown \cup missed
          \/ router[1] # "recv" /\ router[2] = n
          \/ reader = "reads" /\ n \in ToSet(events)
=============================================================================
