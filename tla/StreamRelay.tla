----------------------------- MODULE StreamRelay -----------------------------
(***************************************************************************)
(* One turn's relay: from the agent's events to the client and the rows.   *)
(*                                                                         *)
(* aionui-conversation: stream_relay.rs; aionui-db: sqlite_conversation.rs.*)
(* The relay reads the agent's broadcast channel, forwards every event to  *)
(* the client and persists what a later reader needs: the text, a bit      *)
(* behind, and whole at the end; the thinking, at the end; a row for each  *)
(* tool call, merged from its events.  A step is one event taken off the   *)
(* channel or one access to the database, each of which may fail alone,    *)
(* and the error is only logged.                                           *)
(*                                                                         *)
(* Text is counted in pieces, as the agent sends them; white space at its  *)
(* ends is left out.  When the turn is completed, and by whom, is          *)
(* AgentTurn's matter.                                                     *)
(***************************************************************************)
EXTENDS Naturals, Sequences

CONSTANTS
  None,
  Calls,           \* tool calls
  MaxEvents,       \* bound: events of the agent
  Capacity,        \* of the channel (128 or 256), lowered
  FlushInterval,   \* FLUSH_INTERVAL, lowered
  MaxFaults        \* bound: statements that fail

VARIABLES
  acp,             \* the agent speaks ACP: calls start, then are updated
  queue,           \* events the relay has yet to read
  sent, open,      \* events sent; the channel has a sender
  begun,           \* calls the agent has started
  relay,           \* the relay's locals
  client,          \* what the client shows
  row, thinking, tips, tool,   \* the rows of the turn
  conv,            \* the conversation exists
  faults,          \* statements that failed
  heard            \* history: what the relay heard of each call

vars == <<acp, queue, sent, open, begun, relay, client, row, thinking, tips, tool, conv, faults, heard>>

Statuses == {"work", "finish", "error"}
Forms == {"raw", "cleaned", "emptied"}

\* What an event says of its tool call, and what the content of the call's row
\* holds: completed and failed are both over; an update may leave the status
\* out, and every event the input (a group's events are all whole).
Info == [status : {"none", "work", "over"}, input : BOOLEAN]
Whole == {i \in Info : i.status # "none"}

Plain == [kind : {"text", "think", "finish", "error"}]
Start == [kind : {"start"}, call : Calls, info : Whole]
Update == [kind : {"update"}, call : Calls, info : Info]
Tool == [kind : {"tool"}, call : Calls, info : Whole]
Events == Plain \cup Start \cup Update \cup Tool

\* The row of a call has the status in a column of its own, and in its content.
ToolRow == [column : {"work", "over"}, content : Info]

\* What the relay heard of a call: did that begin with its start, its status
\* and input so far, and did the last event leave the status out.
HeardCall ==
  {h \in [start : BOOLEAN, status : {"none", "work", "over"}, input : BOOLEAN, bare : BOOLEAN] :
     h.status = "none" => h.bare}

TextRow == [text : 0 .. MaxEvents, form : Forms, status : Statuses]

RelayAssumption ==
  /\ Capacity \in Nat \ {0} /\ FlushInterval \in Nat \ {0}
  /\ MaxEvents \in Nat /\ MaxFaults \in Nat
  /\ None \notin TextRow /\ None \notin Info /\ None \notin Events
  /\ None \notin ToolRow /\ None \notin HeardCall

RelayState ==
  [pc : {"read", "flush", "lookup", "write", "think", "clean", "save", "done", "dead"},
   text : 0 .. MaxEvents, pending : 0 .. MaxEvents, created : BOOLEAN, thinks : 0 .. MaxEvents,
   event : Events \cup {None}, found : Info \cup {None}, end : Statuses, form : Forms]

Init ==
  /\ acp \in BOOLEAN /\ queue = <<>> /\ sent = 0 /\ open = TRUE /\ begun = {}
  /\ relay = [pc |-> "read", text |-> 0, pending |-> 0, created |-> FALSE, thinks |-> 0,
              event |-> None, found |-> None, end |-> "work", form |-> "raw"]
  /\ client = [text |-> 0, form |-> "raw"]
  /\ row = None /\ thinking = 0 /\ tips = FALSE
  /\ tool = [c \in Calls |-> None] /\ heard = [c \in Calls |-> None]
  /\ conv = TRUE /\ faults = 0

-----------------------------------------------------------------------------
(* Helpers *)

rows == <<row, thinking, tips, tool>>

\* A statement succeeds or fails; without the conversation it has no row to
\* update and the foreign key refuses an insert.
Works == conv /\ UNCHANGED faults
Breaks == IF conv THEN faults < MaxFaults /\ faults' = faults + 1 ELSE UNCHANGED faults

Go(pc) == relay' = [relay EXCEPT !.pc = pc]

\* Mutant of Merge: the update replaces the row.
MergeNothing(old, new) == new

\* merge_json_content: what the update leaves out stays.
Merge(old, new) ==
  IF old = None THEN new
  ELSE [status |-> IF new.status = "none" THEN old.status ELSE new.status,
        input |-> old.input \/ new.input]

\* persist_acp_tool_call: a call without a status is at work.
Column(status) == IF status = "none" THEN "work" ELSE status

\* What was heard of a call, with one event more.
Hear(was, e) ==
  IF was = None
  THEN [start |-> e.kind # "update", status |-> e.info.status, input |-> e.info.input,
        bare |-> e.info.status = "none"]
  ELSE [was EXCEPT !.status = IF e.info.status = "none" THEN @ ELSE e.info.status,
                   !.input = @ \/ e.info.input, !.bare = e.info.status = "none"]

-----------------------------------------------------------------------------
(* The agent *)

\* An ACP agent starts a call once and then updates it.  A broadcast channel
\* drops the oldest event when it is full.
Send(e) ==
  /\ open /\ sent < MaxEvents
  /\ e \in Start => acp /\ e.call \notin begun
  /\ e \in Update => acp /\ e.call \in begun
  /\ e \in Tool => ~acp
  /\ begun' = IF e \in Start THEN begun \cup {e.call} ELSE begun
  /\ sent' = sent + 1
  /\ queue' = Append(IF Len(queue) < Capacity THEN queue ELSE Tail(queue), e)
  /\ open' = (open /\ e \notin [kind : {"finish", "error"}])
  /\ UNCHANGED <<acp, relay, client, rows, conv, faults, heard>>

\* The agent goes, and the channel closes.
Close ==
  /\ open /\ open' = FALSE
  /\ UNCHANGED <<acp, queue, sent, begun, relay, client, rows, conv, faults, heard>>

-----------------------------------------------------------------------------
(* StreamRelay::consume *)

Take == relay.pc = "read" /\ queue # <<>> /\ queue' = Tail(queue)
TakeKind(kind) == Take /\ Head(queue).kind = kind

\* Mutant of ReadText: every chunk counts from the last one that was flushed.
ReadTextLate ==
  /\ TakeKind("text")
  /\ client' = [client EXCEPT !.text = @ + 1]
  /\ relay' = [relay EXCEPT !.text = @ + 1, !.pending = @ + 1,
                 !.pc = IF relay.pending + 1 > FlushInterval THEN "flush" ELSE "read"]
  /\ UNCHANGED <<acp, sent, open, begun, rows, conv, faults, heard>>

ReadText ==
  /\ TakeKind("text")
  /\ client' = [client EXCEPT !.text = @ + 1]
  /\ relay' = [relay EXCEPT !.text = @ + 1, !.pending = @ + 1,
                 !.pc = IF relay.pending + 1 >= FlushInterval THEN "flush" ELSE "read"]
  /\ UNCHANGED <<acp, sent, open, begun, rows, conv, faults, heard>>

ReadThink ==
  /\ TakeKind("think")
  /\ relay' = [relay EXCEPT !.thinks = @ + 1]
  /\ UNCHANGED <<acp, sent, open, begun, client, rows, conv, faults, heard>>

\* Finish or Error, or a closed channel, which counts as Finish.
ReadEnd ==
  /\ \/ \E e \in {"finish", "error"} :
          TakeKind(e) /\ relay' = [relay EXCEPT !.pc = "think", !.end = e]
     \/ /\ relay.pc = "read" /\ queue = <<>> /\ ~open
        /\ relay' = [relay EXCEPT !.pc = "think", !.end = "finish"]
        /\ UNCHANGED queue
  /\ UNCHANGED <<acp, sent, open, begun, client, rows, conv, faults, heard>>

\* The event of a tool call: a start is inserted as it is, the others look
\* for the row there is.
ReadTool ==
  /\ Take
  /\ LET e == Head(queue) IN
     /\ e.kind \in {"start", "update", "tool"}
     /\ relay' = [relay EXCEPT !.event = e, !.found = None,
                    !.pc = IF e.kind = "start" THEN "write" ELSE "lookup"]
     /\ heard' = [heard EXCEPT ![e.call] = Hear(@, e)]
  /\ UNCHANGED <<acp, sent, open, begun, client, rows, conv, faults>>

\* flush_text: the row counts as created even if the insert failed.
Flush ==
  /\ relay.pc = "flush"
  /\ relay' = [relay EXCEPT !.pc = "read", !.pending = 0, !.created = TRUE]
  /\ \/ /\ Works
        /\ row' = IF relay.created /\ row = None THEN None
                  ELSE [text |-> relay.text, form |-> "raw", status |-> "work"]
     \/ Breaks /\ UNCHANGED row
  /\ UNCHANGED <<acp, queue, sent, open, begun, client, thinking, tips, tool, conv, heard>>

\* persist_tool_call, persist_tool_group, merge_acp_tool_call_content: a
\* lookup that fails counts as no row.
Lookup ==
  LET was == tool[relay.event.call] IN
  /\ relay.pc = "lookup"
  /\ \/ /\ Works
        /\ relay' = [relay EXCEPT !.pc = "write",
                                  !.found = IF was = None THEN None ELSE was.content]
     \/ Breaks /\ relay' = [relay EXCEPT !.pc = "write", !.found = None]
  /\ UNCHANGED <<acp, queue, sent, open, begun, client, rows, conv, heard>>

\* persist_acp_tool_call and the rest: an update of no row and an insert over
\* a row are refused.
Write ==
  LET e == relay.event
      c == e.call
      update == e.kind = "update" \/ relay.found # None
  IN
  /\ relay.pc = "write"
  /\ relay' = [relay EXCEPT !.pc = "read", !.event = None, !.found = None]
  /\ \/ /\ Works
        /\ tool' = IF update = (tool[c] # None)
                   THEN [tool EXCEPT ![c] = [column |-> Column(e.info.status),
                                             content |-> Merge(relay.found, e.info)]]
                   ELSE tool
     \/ Breaks /\ UNCHANGED tool
  /\ UNCHANGED <<acp, queue, sent, open, begun, client, row, thinking, tips, conv, heard>>

\* persist_thinking
Think ==
  /\ relay.pc = "think" /\ Go("clean")
  /\ IF relay.thinks = 0 THEN UNCHANGED <<thinking, faults>>
     ELSE \/ Works /\ thinking' = relay.thinks
          \/ Breaks /\ UNCHANGED thinking
  /\ UNCHANGED <<acp, queue, sent, open, begun, client, row, tips, tool, conv, heard>>

\* finalize, process_final_text: think tags and cron commands are cut out, the
\* commands are carried out.
Clean ==
  /\ relay.pc = "clean"
  /\ \E form \in IF relay.text = 0 THEN {"raw"} ELSE Forms :
       relay' = [relay EXCEPT !.pc = "save", !.form = form]
  /\ UNCHANGED <<acp, queue, sent, open, begun, client, rows, conv, faults, heard>>

\* finalize: a text the cleaning has emptied is hidden, and not stored at all
\* if no row was created; the client is sent what differs.
SaveText ==
  LET final == [text |-> relay.text, form |-> relay.form, status |-> relay.end]
      skip == relay.form = "emptied" /\ ~relay.created
  IN
  /\ relay.pc = "save" /\ relay.text > 0 /\ Go("done")
  /\ IF skip THEN UNCHANGED <<row, client, faults>>
     ELSE /\ client' = [client EXCEPT !.form = relay.form]
          /\ \/ Works /\ row' = IF relay.created /\ row = None THEN None ELSE final
             \/ Breaks /\ UNCHANGED row
  /\ UNCHANGED <<acp, queue, sent, open, begun, thinking, tips, tool, conv, heard>>

\* finalize: an error without a text is stored as a message of its own.
SaveTips ==
  /\ relay.pc = "save" /\ relay.text = 0 /\ Go("done")
  /\ IF relay.end # "error" THEN UNCHANGED <<tips, faults>>
     ELSE \/ Works /\ tips' = TRUE
          \/ Breaks /\ UNCHANGED tips
  /\ UNCHANGED <<acp, queue, sent, open, begun, client, row, thinking, tool, conv, heard>>

-----------------------------------------------------------------------------
(* What cuts in *)

\* External: the conversation is deleted, and its messages with it.
Delete ==
  /\ conv /\ conv' = FALSE
  /\ row' = None /\ thinking' = 0 /\ tips' = FALSE /\ tool' = [c \in Calls |-> None]
  /\ UNCHANGED <<acp, queue, sent, open, begun, relay, client, faults, heard>>

\* External: the server dies.
Crash ==
  /\ relay.pc \notin {"done", "dead"} /\ Go("dead")
  /\ UNCHANGED <<acp, queue, sent, open, begun, client, rows, conv, faults, heard>>

-----------------------------------------------------------------------------

Next ==
  \/ \E e \in Events : Send(e)
  \/ Close \/ ReadText \/ ReadThink \/ ReadEnd \/ ReadTool \/ Flush \/ Lookup \/ Write
  \/ Think \/ Clean \/ SaveText \/ SaveTips \/ Delete \/ Crash

Spec == Init /\ [][Next]_vars

-----------------------------------------------------------------------------
(* Properties *)

TypeOK ==
  /\ acp \in BOOLEAN /\ queue \in Seq(Events) /\ sent \in 0 .. MaxEvents /\ open \in BOOLEAN
  /\ begun \subseteq Calls
  /\ relay \in RelayState
  /\ client \in [text : 0 .. MaxEvents, form : Forms]
  /\ row \in TextRow \cup {None} /\ thinking \in 0 .. MaxEvents /\ tips \in BOOLEAN
  /\ tool \in [Calls -> ToolRow \cup {None}] /\ heard \in [Calls -> HeardCall \cup {None}]
  /\ conv \in BOOLEAN /\ faults \in 0 .. MaxFaults

Spoilt == faults > 0 \/ ~conv

\* What a turn's transcript promises: the stored text never falls back or runs
\* ahead, is never more than FlushInterval pieces behind what the client has
\* been shown, also when the server dies, and is complete at the end.
Kept == IF row = None THEN 0 ELSE row.text

Stage == CASE relay.pc = "done" -> "closed" [] relay.pc = "dead" -> "cut" [] OTHER -> "open"

Promise == INSTANCE Transcript WITH
  Window <- FlushInterval, shown <- client.text, kept <- Kept,
  blank <- relay.form = "emptied", spoilt <- Spoilt, state <- Stage

KeepsTranscript == Promise!Spec

\* The row of a tool call, by what was heard of the call.
Recorded(call) ==
  IF call = None \/ ~call.start THEN None
  ELSE [column |-> IF call.bare THEN "work" ELSE call.status,
        content |-> [status |-> call.status, input |-> call.input]]

\* Who reloads the conversation after the turn sees what the client was shown
\* of it: the text as it was cleaned, with the outcome of the turn, the
\* thinking, an error without a text, and each tool call with its last status
\* and the input any of its events brought.  Not so when a statement failed.
\* Three things differ all the same: a short answer that is empty once cleaned
\* is nowhere, though the client still shows it as it came; a call whose start
\* the channel dropped has no row, whatever updates the client was sent; and a
\* call whose last update leaves the status out is at work again by the column
\* of its row, though not by its content.
ReloadShowsTheSame ==
  relay.pc = "done" /\ ~Spoilt =>
    /\ row = None => relay.text = 0 \/ (relay.form = "emptied" /\ relay.text < FlushInterval)
    /\ row # None => /\ row.text = client.text /\ row.form = client.form
                     /\ row.status = relay.end
    /\ thinking = relay.thinks
    /\ tips = (relay.end = "error" /\ relay.text = 0)
    /\ tool = [c \in Calls |-> Recorded(heard[c])]
=============================================================================
