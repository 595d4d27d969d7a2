------------------------------ MODULE OpenClaw ------------------------------
(***************************************************************************)
(* The turns of a conversation with an agent behind an OpenClaw gateway.   *)
(*                                                                         *)
(* aionui-ai-agent: manager/openclaw/agent/mod.rs, connection.rs,          *)
(* event_mapper.rs, agent_runtime.rs.  A message is a few requests over    *)
(* one socket, each with an answer or 30 seconds; what the run says comes  *)
(* as events on the same socket, of every session of the gateway.  A turn  *)
(* of the conversation lasts until its relay hears an end; the agent is    *)
(* built by then.  Frames say which session they are of.  Requests for     *)
(* approval are left out.                                                  *)
(***************************************************************************)
EXTENDS Naturals, Sequences

CONSTANTS
  MaxTurns,        \* bound: messages sent to this agent
  Capacity,        \* EVENT_CHANNEL_CAPACITY
  Own, Other,      \* sessions of the gateway: this conversation's, somebody else's
  None,
  Budgets          \* bound: how often each kind of event may come

Kinds == {"stop", "foreign", "break", "kill", "refuse", "slow"}

VARIABLES
  key,             \* OpenClawState.session_key
  said,            \* OpenClawState.has_messages
  status,          \* AgentRuntime.status
  active,          \* TextFallbackState.turn_active
  sink,            \* ws_sink is there
  listening,       \* run_reader is running
  call,            \* by turn: where its send_message is
  events,          \* event_tx: frames for run_event_relay
  held,            \* what run_event_relay has made of a frame and not yet told
  turn, waiting,   \* the last turn, and whether its relay still waits
  out,             \* what was broadcast since the relay subscribed
  timer,           \* the turn of a stop whose fallback is to come
  link,            \* the socket carries
  inbox, wire,     \* requests to the gateway, frames from it
  run, home,       \* the gateway: the run of a turn, the session it is in
  killed, used,
  ending,          \* history: what ended each turn
  muted,           \* history: turns whose end nobody will tell
  adrift           \* history: a frame of another session came while no key was known

vars == <<key, said, status, active, sink, listening, call, events, held, turn, waiting, out, timer,
          link, inbox, wire, run, home, killed, used, ending, muted, adrift>>

Turns == 1 .. MaxTurns
Keys == {Own, Other, None}
Asks == {"resolve", "reset", "send"}
CallState == [pc : {"idle", "enter", "post", "wait", "told", "fail", "over"}, ask : Asks,
              ok : BOOLEAN, sid : Keys]
End == [by : {"run", "call", "stop"}, turn : 0 .. MaxTurns]
Answer == [kind : {"answer"}, turn : Turns, ask : Asks, ok : BOOLEAN, sid : Keys]
Event == [kind : {"delta", "end"}, turn : 0 .. MaxTurns, session : {Own, Other}]
Request == [turn : Turns, ask : Asks, to : Keys] \cup [turn : {0}, ask : {"abort"}, to : Keys]

GatewayAssumption ==
  /\ MaxTurns \in Nat /\ Capacity \in Nat \ {0}
  /\ Own # Other /\ None \notin {Own, Other} \cup End \cup Event

\* An agent that was just built, for a new conversation or with a stored key.
Init ==
  /\ key \in {None, Own} /\ said = (key # None) /\ status = "none" /\ active = FALSE
  /\ sink = TRUE /\ listening = TRUE /\ link = TRUE /\ killed = FALSE
  /\ call = [t \in Turns |-> [pc |-> "idle", ask |-> "send", ok |-> FALSE, sid |-> None]]
  /\ events = <<>> /\ held = None /\ turn = 0 /\ waiting = FALSE /\ out = <<>> /\ timer = 0
  /\ inbox = <<>> /\ wire = <<>>
  /\ run = [t \in Turns |-> "none"] /\ home = [t \in Turns |-> None]
  /\ used = [k \in Kinds |-> 0]
  /\ ending = [t \in Turns |-> None] /\ muted = {} /\ adrift = FALSE

-----------------------------------------------------------------------------
(* Helpers *)

Spend(kind) ==
  /\ used' = [used EXCEPT ![kind] = @ + 1]
  /\ \E limit \in Budgets : \A k \in Kinds : used'[k] <= limit[k]

At(t, pc) == call[t].pc = pc
Goto(t, pc) == call' = [call EXCEPT ![t].pc = pc]

\* transition_to: finished is absorbing.
Transition(s) == status' = IF status = "finished" THEN status ELSE s

Broadcast(end) == out' = IF waiting THEN Append(out, end) ELSE out

\* emit_error, then emit_finish: the second never has an effect.
EmitError(end) ==
  /\ status' = "finished"
  /\ IF status = "finished" THEN UNCHANGED out ELSE Broadcast(end)

\* A request came to nothing: a session that cannot be resumed is made anew.
Refused(c) == IF c.ask = "resolve" THEN [c EXCEPT !.ask = "reset", !.pc = "post"]
              ELSE [c EXCEPT !.pc = "fail"]

\* All that is pending fails.
Drain == call' = [t \in Turns |-> IF At(t, "wait")
                                  THEN [call[t] EXCEPT !.pc = "told", !.ok = FALSE] ELSE call[t]]

\* What is on the way is lost, but for what has already arrived.
Cut ==
  /\ link' = FALSE /\ inbox' = <<>>
  /\ \E n \in 0 .. Len(wire) : wire' = SubSeq(wire, 1, n)
  /\ muted' = muted \cup {t \in Turns : run[t] # "none"}

gateway == <<inbox, wire, run, home, link>>
socket == <<sink, listening>>
turns == <<turn, waiting, ending>>
client == <<events, held>>

-----------------------------------------------------------------------------
(* The conversation *)

\* The relay subscribes, send_message is spawned.
Begin ==
  /\ ~waiting /\ ~killed /\ turn < MaxTurns
  /\ turn' = turn + 1 /\ waiting' = TRUE /\ out' = <<>>
  /\ Goto(turn', "enter")
  /\ UNCHANGED <<key, said, status, active, socket, client, timer, gateway, killed, used, ending,
                 muted, adrift>>

\* The relay leaves with the first end it hears.
Hear ==
  /\ waiting /\ out # <<>>
  /\ waiting' = FALSE /\ out' = <<>> /\ ending' = [ending EXCEPT ![turn] = Head(out)]
  /\ UNCHANGED <<key, said, status, active, socket, call, client, turn, timer, gateway, killed,
                 used, muted, adrift>>

-----------------------------------------------------------------------------
(* send_message *)

First(t) == [call[t] EXCEPT !.pc = "post",
               !.ask = IF said THEN "send" ELSE IF key = None THEN "reset" ELSE "resolve"]

\* The session is asked for with the first message only.
Enter(t) ==
  /\ At(t, "enter")
  /\ said' = TRUE /\ Transition("running") /\ active' = TRUE
  /\ call' = [call EXCEPT ![t] = First(t)]
  /\ UNCHANGED <<key, socket, client, turns, out, timer, gateway, killed, used, muted, adrift>>

\* request: into pending, then onto the socket, which may be dead unnoticed.
Post(t) ==
  /\ At(t, "post")
  /\ LET c == call[t]
         possible == sink /\ (c.ask = "send" => key # None)
     IN \/ /\ possible /\ link
           /\ Goto(t, "wait")
           /\ inbox' = Append(inbox, [turn |-> t, ask |-> c.ask, to |-> key])
        \/ possible /\ ~link /\ Goto(t, "wait") /\ UNCHANGED inbox
        \/ ~(possible /\ link) /\ call' = [call EXCEPT ![t] = Refused(c)] /\ UNCHANGED inbox
  /\ UNCHANGED <<key, said, status, active, socket, client, turns, out, timer, wire, run, home,
                 link, killed, used, muted, adrift>>

\* The answer is there, or the news that there will be none.
Resume(t) ==
  /\ At(t, "told")
  /\ LET c == call[t]
     IN /\ call' = [call EXCEPT ![t] =
                      IF ~c.ok THEN Refused(c)
                      ELSE IF c.ask = "send" THEN [c EXCEPT !.pc = "over"]
                      ELSE [c EXCEPT !.ask = "send", !.pc = "post"]]
        /\ key' = IF c.ok /\ c.sid # None THEN c.sid ELSE key
  /\ UNCHANGED <<said, status, active, socket, client, turns, out, timer, gateway, killed, used,
                 muted, adrift>>

\* REQUEST_TIMEOUT
Timeout(t) ==
  /\ At(t, "wait") /\ Spend("slow")
  /\ call' = [call EXCEPT ![t] = Refused(call[t])]
  /\ UNCHANGED <<key, said, status, active, socket, client, turns, out, timer, gateway, killed,
                 muted, adrift>>

\* The message could not be sent; a finished agent says nothing of it.
Fail(t) ==
  /\ At(t, "fail")
  /\ EmitError([by |-> "call", turn |-> t]) /\ Goto(t, "over")
  /\ muted' = IF status = "finished" THEN muted \cup {t} ELSE muted
  /\ UNCHANGED <<key, said, active, socket, client, turns, timer, gateway, killed, used, adrift>>

-----------------------------------------------------------------------------
(* cancel and kill *)

\* chat.abort goes to the session, whatever runs in it.
Stop ==
  /\ timer = 0 /\ turn > 0 /\ ~killed /\ Spend("stop")
  /\ timer' = turn
  /\ inbox' = IF key # None /\ sink /\ link
              THEN Append(inbox, [turn |-> 0, ask |-> "abort", to |-> key]) ELSE inbox
  /\ UNCHANGED <<key, said, status, active, socket, call, client, turns, out, wire, run, home,
                 link, killed, muted, adrift>>

\* STOP_FINISH_FALLBACK_TIMEOUT after the abort was answered, or was not.
Fallback ==
  /\ timer # 0
  /\ timer' = 0
  /\ IF status = "running" THEN EmitError([by |-> "stop", turn |-> timer])
     ELSE UNCHANGED <<status, out>>
  /\ UNCHANGED <<key, said, active, socket, call, client, turns, gateway, killed, used, muted,
                 adrift>>

\* close, by kill or by the watchdog over the ticks.
Close ==
  /\ sink /\ Spend("kill")
  /\ sink' = FALSE /\ killed' \in {TRUE, killed}
  /\ Drain /\ Cut
  /\ UNCHANGED <<key, said, status, active, listening, client, turns, out, timer, run, home,
                 adrift>>

-----------------------------------------------------------------------------
(* The connection *)

\* The socket breaks.
Break ==
  /\ link /\ Spend("break")
  /\ Cut
  /\ UNCHANGED <<key, said, status, active, socket, call, client, turns, out, timer, run, home,
                 killed, adrift>>

\* run_reader: an answer goes to who waits for it, an event into the channel,
\* which drops its oldest when it is full.
Read ==
  /\ listening /\ wire # <<>>
  /\ wire' = Tail(wire)
  /\ LET f == Head(wire)
     IN IF f.kind = "answer"
        THEN /\ call' = IF At(f.turn, "wait") /\ call[f.turn].ask = f.ask
                        THEN [call EXCEPT ![f.turn] = [pc |-> "told", ask |-> f.ask, ok |-> f.ok,
                                                       sid |-> f.sid]]
                        ELSE call
             /\ UNCHANGED <<events, muted>>
        ELSE /\ events' = IF Len(events) < Capacity THEN Append(events, f)
                          ELSE Append(Tail(events), f)
             /\ muted' = IF Len(events) < Capacity \/ Head(events).kind = "delta" THEN muted
                         ELSE muted \cup {Head(events).turn}
             /\ UNCHANGED call
  /\ UNCHANGED <<key, said, status, active, socket, held, turns, out, timer, inbox, run, home,
                 link, killed, used, adrift>>

\* The reader ends with the socket; nobody else hears of it.
ReaderEnds ==
  /\ listening /\ ~link /\ wire = <<>>
  /\ listening' = FALSE /\ Drain
  /\ UNCHANGED <<key, said, status, active, sink, client, turns, out, timer, gateway, killed, used,
                 muted, adrift>>

-----------------------------------------------------------------------------
(* run_event_relay *)

\* Mutant of Map: whatever comes over the socket is of this conversation.
MapAll ==
  /\ held = None /\ events # <<>>
  /\ events' = Tail(events)
  /\ LET f == Head(events)
         passes == TRUE
     IN /\ held' = IF passes /\ (f.kind = "end" \/ ~active) THEN f ELSE None
        /\ active' = IF passes THEN f.kind = "delta" ELSE active
        /\ adrift' = (adrift \/ (key = None /\ f.session = Other))
  /\ UNCHANGED <<key, said, status, socket, call, turns, out, timer, gateway, killed, used, muted>>

\* map_openclaw_event: a frame of another session is passed over, if there is a
\* key to tell it by.  A first delta outside of a turn is a start.
Map ==
  /\ held = None /\ events # <<>>
  /\ events' = Tail(events)
  /\ LET f == Head(events)
         passes == key \in {None, f.session}
     IN /\ held' = IF passes /\ (f.kind = "end" \/ ~active) THEN f ELSE None
        /\ active' = IF passes THEN f.kind = "delta" ELSE active
        /\ adrift' = (adrift \/ (key = None /\ f.session = Other))
  /\ UNCHANGED <<key, said, status, socket, call, turns, out, timer, gateway, killed, used, muted>>

\* update_state_from_event, then emit; an error has no key.
Tell ==
  /\ held # None
  /\ held' = None
  /\ IF held.kind = "end"
     THEN /\ status' = "finished" /\ key' \in {key, held.session}
          /\ Broadcast([by |-> "run", turn |-> held.turn])
     ELSE Transition("running") /\ key' = held.session /\ UNCHANGED out
  /\ UNCHANGED <<said, active, socket, call, events, turns, timer, gateway, killed, used, muted,
                 adrift>>

-----------------------------------------------------------------------------
(* The gateway *)

Reply(r, ok, sid) ==
  [kind |-> "answer", turn |-> r.turn, ask |-> r.ask, ok |-> ok, sid |-> sid]
Frame(kind, t, s) == [kind |-> kind, turn |-> t, session |-> s]
Going(t) == run[t] \in {"going", "spoke"}

\* A request is granted: a message starts a run, an abort ends those of the
\* session.
Serve ==
  /\ link /\ inbox # <<>>
  /\ inbox' = Tail(inbox)
  /\ LET r == Head(inbox)
     IN IF r.ask = "abort"
        THEN \/ \E t \in Turns :
                  /\ Going(t) /\ home[t] = r.to
                  /\ run' = [run EXCEPT ![t] = "over"]
                  /\ wire' = Append(wire, Frame("end", t, r.to))
             \/ (\A t \in Turns : Going(t) => home[t] # r.to) /\ UNCHANGED <<run, wire>>
        ELSE /\ wire' = Append(wire, Reply(r, TRUE, CASE r.ask = "resolve" -> r.to
                                                      [] r.ask = "reset" -> Own
                                                      [] r.ask = "send" -> None))
             /\ run' = IF r.ask = "send" THEN [run EXCEPT ![r.turn] = "going"] ELSE run
  /\ home' = IF Head(inbox).ask = "send" THEN [home EXCEPT ![Head(inbox).turn] = Head(inbox).to]
             ELSE home
  /\ UNCHANGED <<key, said, status, active, socket, call, client, turns, out, timer, link, killed,
                 used, muted, adrift>>

\* It is not, or a session comes without a key.
Refuse ==
  /\ link /\ inbox # <<>> /\ Head(inbox).ask # "abort" /\ Spend("refuse")
  /\ inbox' = Tail(inbox)
  /\ \E ok \in {FALSE, Head(inbox).ask = "reset"} :
       wire' = Append(wire, Reply(Head(inbox), ok, None))
  /\ UNCHANGED <<key, said, status, active, socket, call, client, turns, out, timer, run, home,
                 link, killed, muted, adrift>>

\* A run says something, and ends once.
Speak(t) ==
  /\ Going(t) /\ link
  /\ \/ /\ run[t] = "going" /\ run' = [run EXCEPT ![t] = "spoke"]
        /\ wire' = Append(wire, Frame("delta", t, home[t]))
     \/ /\ run' = [run EXCEPT ![t] = "over"]
        /\ wire' = Append(wire, Frame("end", t, home[t]))
  /\ UNCHANGED <<key, said, status, active, socket, call, client, turns, out, timer, inbox, home,
                 link, killed, used, muted, adrift>>

\* So does a run of somebody else.
Foreign ==
  /\ link /\ Spend("foreign")
  /\ \E kind \in {"delta", "end"} : wire' = Append(wire, Frame(kind, 0, Other))
  /\ UNCHANGED <<key, said, status, active, socket, call, client, turns, out, timer, inbox, run,
                 home, link, killed, muted, adrift>>

-----------------------------------------------------------------------------
Next ==
  \/ Begin \/ Hear
  \/ \E t \in Turns : Enter(t) \/ Post(t) \/ Resume(t) \/ Timeout(t) \/ Fail(t) \/ Speak(t)
  \/ Stop \/ Fallback \/ Close
  \/ Break \/ Read \/ ReaderEnds \/ Map \/ Tell
  \/ Serve \/ Refuse \/ Foreign

Spec == Init /\ [][Next]_vars

-----------------------------------------------------------------------------
(* Properties *)

\* Every variable is of its type.
TypeOK ==
  /\ key \in Keys /\ status \in {"none", "running", "finished"}
  /\ {said, active, sink, listening, waiting, link, killed, adrift} \subseteq BOOLEAN
  /\ call \in [Turns -> CallState] /\ events \in Seq(Event) /\ held \in Event \cup {None}
  /\ {turn, timer} \subseteq 0 .. MaxTurns /\ out \in Seq(End)
  /\ inbox \in Seq(Request) /\ wire \in Seq(Answer \cup Event)
  /\ run \in [Turns -> {"none", "going", "spoke", "over"}] /\ home \in [Turns -> Keys]
  /\ used \in [Kinds -> Nat] /\ ending \in [Turns -> End \cup {None}]
  /\ muted \subseteq 0 .. MaxTurns

IsEnd(f, t) == f.kind = "end" /\ f.turn = t

\* A relay that waits has an end before it, or the sending, the run or its end
\* is on the way.
WaitIsOwed ==
  waiting =>
    \/ out # <<>> \/ call[turn].pc # "over" \/ turn \in muted
    \/ link /\ (Going(turn) \/ \E k \in DOMAIN inbox : inbox[k].turn = turn)
    \/ \E k \in DOMAIN wire : IsEnd(wire[k], turn)
    \/ \E k \in DOMAIN events : IsEnd(events[k], turn)
    \/ held # None /\ IsEnd(held, turn)

\* A turn ends by its own run, sending or stop; or by the run of an earlier one
\* that ended otherwise.
EndIsOwn ==
  \A t \in Turns : ending[t] # None =>
    \/ ending[t].turn = t
    \/ /\ ending[t].by = "run" /\ ending[t].turn \in 1 .. t - 1
       /\ ending[ending[t].turn] # ending[t]

\* A message goes to the session of its conversation.
MessageIsHome == \A t \in Turns : home[t] \in {None, Own}

\* agent/mod.rs, event_mapper.rs: a turn with an OpenClaw agent is not left
\* without an end, nor ended by the failure or the stop of another, nor by
\* another session, into which nothing is sent; unless a message could not be
\* sent once the agent has finished a turn, the socket broke on a run, or the
\* channel lost its end (muted), or a session spoke before this one had a key
\* (adrift).
TurnHasItsEnd == adrift \/ (WaitIsOwed /\ EndIsOwn /\ MessageIsHome)
=============================================================================
