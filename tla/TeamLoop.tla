------------------------------ MODULE TeamLoop ------------------------------
(***************************************************************************)
(* One team at run time: its mailbox, the event loop of every agent, the   *)
(* scheduler's slots, the session that owns them, and the conversation     *)
(* rows the loops share with ordinary user turns.                          *)
(*                                                                         *)
(* aionui-team: event_loop.rs, session.rs, scheduler/, mailbox.rs,         *)
(* service.rs (sessions, add, remove, spawn), mcp/server.rs (the tools an  *)
(* agent calls during a turn); the turn of ConversationService is reduced  *)
(* to its check, its claim and its completion.                             *)
(*                                                                         *)
(* A step is what the code does between two points where another tokio     *)
(* task can observe it.                                                    *)
(***************************************************************************)
EXTENDS Integers, FiniteSets

CONSTANTS
  Agents,          \* every slot the team may ever have
  Lead,            \* the leader's slot
  User,            \* the sender of rows written for the user
  Founders,        \* the slots in the team row at the start
  Added,           \* slots an HTTP add_agent may add
  Spawned,         \* slots the leader may spawn
  Removable,       \* slots that may be removed
  MaxLoops,        \* bound: event loop tasks of one slot alive at once
  Budgets          \* bound: how often each kind of outside event may happen,
                   \* one function for each mixture of them explored

Kinds == {"write", "direct", "stop", "crash", "warmup", "fail", "markFail"}

ASSUME TeamAssumption ==
  /\ Lead \in Founders
  /\ User \notin Agents
  /\ Founders \cup Added \cup Spawned \subseteq Agents
  /\ (Added \cup Spawned) \cap Founders = {}
  /\ Removable \subseteq Agents \ {Lead}

ASSUME BoundAssumption ==
  /\ MaxLoops \in Nat \ {0}
  /\ Budgets \subseteq [Kinds -> Nat]

Loops == 1 .. MaxLoops
Tasks == Agents \X Loops          \* <<slot, which of its loops>>

\* A mailbox row; "via" is the code path that wrote it.
Row == [id : Nat, to : Agents, from : Agents \cup {User},
        via : {"user", "mcp", "idle", "declined", "welcome"}]

VARIABLES
  \* the database
  mail,            \* the mailbox rows
  nextId,          \* the id of the next row
  read,            \* the rows marked read
  member,          \* the slots in the team row
  conv,            \* status column of each slot's conversation
  \* the session and its scheduler
  session,         \* the entry of TeamSessionService::sessions
  snapshot,        \* the slots ensure_session loaded
  live,            \* the slots of the scheduler
  status,          \* TeammateStatus of each slot
  needs,           \* the slots that still need their role prompt
  \* the event loops
  reg,             \* the loop registered for each slot, 0 if none
  pc,              \* where each loop is
  permit,          \* the permit stored in each loop's Notify
  batch,           \* the rows each loop peeked
  ok,              \* the outcome of each loop's turn
  doomed,          \* replaced loops whose registry was shut down
  \* calls and tasks in flight
  owed,            \* rows whose writer has not reached its wake call
  stale,           \* those of owed whose writer holds a stopped session
  inline,          \* try_wake_inline of each slot
  waiting,         \* StreamRelays of each slot that wait for a terminal event
  ended,           \* StreamRelays that got it and have yet to complete
  direct,          \* the user turn on each slot's conversation
  stranded,        \* rows left running by an abort, a dropped request or a crash
  joining,         \* how far each new slot's add or spawn has come
  leaving,         \* slots gone from the team row, not yet from the session
  \* bookkeeping
  used,            \* outside events so far
  handed,          \* rows some turn has carried
  repeated,        \* rows two turns have carried
  excused,         \* rows whose turn was cut off or sent inline, or whose mark failed
  skipped          \* slots whose loop gave up a batch on its last signal

mailVars == <<mail, nextId, read>>
teamVars == <<member, joining, leaving>>
slotVars == <<live, status, needs>>
loopVars == <<reg, pc, permit, batch, ok, doomed>>
wakeVars == <<owed, stale, inline>>
turnVars == <<conv, waiting, ended, direct, stranded>>
history  == <<handed, repeated, excused>>
vars == <<mailVars, teamVars, slotVars, loopVars, wakeVars, turnVars, history,
          session, snapshot, used, skipped>>

NoInline == [pc |-> "no", batch |-> {}, old |-> FALSE]

Init ==
  /\ mail = {} /\ nextId = 1 /\ read = {}
  /\ member = Founders
  /\ conv = [a \in Agents |-> "finished"]
  /\ session = "down" /\ snapshot = {}
  /\ live = {} /\ status = [a \in Agents |-> "idle"] /\ needs = {}
  /\ reg = [a \in Agents |-> 0]
  /\ pc = [t \in Tasks |-> "dead"]
  /\ permit = [t \in Tasks |-> FALSE]
  /\ batch = [t \in Tasks |-> {}]
  /\ ok = [t \in Tasks |-> TRUE]
  /\ doomed = {}
  /\ owed = {} /\ stale = {} /\ inline = [a \in Agents |-> NoInline]
  /\ waiting = [a \in Agents |-> 0] /\ ended = [a \in Agents |-> 0]
  /\ direct = [a \in Agents |-> "no"] /\ stranded = {}
  /\ joining = [a \in Agents |-> "no"] /\ leaving = {}
  /\ used = [k \in Kinds |-> 0]
  /\ handed = {} /\ repeated = {} /\ excused = {} /\ skipped = {}

-----------------------------------------------------------------------------
(* Helpers *)

Spend(kind) ==
  /\ used' = [used EXCEPT ![kind] = @ + 1]
  /\ \E limit \in Budgets : \A k \in Kinds : used'[k] <= limit[k]

NewRow(to, from, via) == [id |-> nextId, to |-> to, from |-> from, via |-> via]

\* Mailbox::write_with_files
Write(to, from, via) ==
  /\ mail' = mail \cup {NewRow(to, from, via)}
  /\ nextId' = nextId + 1
  /\ read' = read

\* Mutant: the history of a, read or not.
UnreadHistory(a) == {m \in mail : m.to = a /\ m.from # a}

\* compute_wake_input: unread rows of a, without those a sent itself
Unread(a) == {m \in mail \ read : m.to = a /\ m.from # a}

\* A turn runs on the slot's agent process.
InTurn(a) ==
  \/ \E g \in Loops : pc[<<a, g>>] = "prompt"
  \/ inline[a].pc = "prompt"
  \/ direct[a] = "running"

\* The loop's scheduler is the current one and still has its slot.
Attached(t) == t[1] \in live /\ t \notin doomed

\* Mutant: notify_waiters, which stores no permit.
NotifiedWaiters(a) ==
  IF reg[a] = 0 \/ pc[<<a, reg[a]>>] # "wait" THEN permit
  ELSE [permit EXCEPT ![<<a, reg[a]>>] = TRUE]

\* EventLoopRegistry::notify
Notified(a) == IF reg[a] = 0 THEN permit ELSE [permit EXCEPT ![<<a, reg[a]>>] = TRUE]

\* Rows a turn is being given now.
Hand(rows) ==
  /\ handed' = handed \cup rows
  /\ repeated' = repeated \cup (rows \cap handed)

\* The relays subscribed to a slot's stream get a terminal event.
Hear(a) ==
  /\ ended' = [ended EXCEPT ![a] = @ + waiting[a]]
  /\ waiting' = [waiting EXCEPT ![a] = 0]

\* A slot's conversation row is written finished.
Release(a) ==
  /\ conv' = [conv EXCEPT ![a] = "finished"]
  /\ stranded' = stranded \ {a}

\* Rows that loops in S would leave running: claimed, with no relay yet.
Strands(S) == {a \in Agents : conv[a] = "running" /\ \E t \in S : t[1] = a /\ pc[t] = "relay"}

\* Loops of a slot that still run.
Running(a) == {g \in Loops : pc[<<a, g>>] # "dead"}

Free(a) == CHOOSE g \in Loops \ Running(a) : TRUE

\* Rows that loops in S would leave between a turn and its mark.
CutOff(S) == UNION {batch[t] : t \in {u \in S : pc[u] \in {"prompt", "mark"}}}

-----------------------------------------------------------------------------
(* run_event_loop *)

\* The select gets the permit; shutdown comes first (biased).
TakePermit(t) ==
  /\ pc[t] = "wait" /\ permit[t] /\ t \notin doomed
  /\ pc' = [pc EXCEPT ![t] = "peek"]
  /\ permit' = [permit EXCEPT ![t] = FALSE]
  /\ skipped' = skipped \ {t[1]}
  /\ UNCHANGED <<mailVars, teamVars, slotVars, reg, batch, ok, doomed, wakeVars,
                 turnVars, history, session, snapshot, used>>

\* Shutdown is seen by the select or at the top of the drain loop.
Exit(t) ==
  /\ t \in doomed /\ pc[t] \in {"wait", "peek"}
  /\ pc' = [pc EXCEPT ![t] = "dead"]
  /\ permit' = [permit EXCEPT ![t] = FALSE]
  /\ doomed' = doomed \ {t}
  /\ UNCHANGED <<mailVars, teamVars, slotVars, reg, batch, ok, wakeVars,
                 turnVars, history, session, snapshot, used, skipped>>

\* compute_wake_input: fails for an unknown slot; otherwise takes the role
\* prompt flag whether or not there is anything to send.
Peek(t) ==
  LET a == t[1] IN
  /\ pc[t] = "peek" /\ t \notin doomed
  /\ \/ /\ a \notin live
        /\ pc' = [pc EXCEPT ![t] = "wait"]
        /\ UNCHANGED <<batch, needs>>
     \/ /\ a \in live
        /\ needs' = needs \ {a}
        /\ batch' = [batch EXCEPT ![t] = Unread(a)]
        /\ pc' = [pc EXCEPT ![t] = IF Unread(a) = {} THEN "park" ELSE "guard"]
  /\ UNCHANGED <<mailVars, teamVars, live, status, reg, permit, ok, doomed, wakeVars,
                 turnVars, history, session, snapshot, used, skipped>>

\* Nothing to send: the drain loop is left for the select.  The read and the
\* select are two steps, for another thread may signal in between.
Park(t) ==
  /\ pc[t] = "park"
  /\ pc' = [pc EXCEPT ![t] = "wait"]
  /\ UNCHANGED <<mailVars, teamVars, slotVars, reg, permit, batch, ok, doomed, wakeVars,
                 turnVars, history, session, snapshot, used, skipped>>

-----------------------------------------------------------------------------
(* execute_turn *)

GiveUp(t) ==
  /\ pc[t] = "guard"
  /\ pc' = [pc EXCEPT ![t] = "wait"]
  /\ batch' = [batch EXCEPT ![t] = {}]
  /\ skipped' = skipped \cup {t[1]}
  /\ UNCHANGED <<mailVars, teamVars, slotVars, reg, permit, ok, doomed, wakeVars,
                 turnVars, history, session, snapshot>>

\* The handle may report Running only while some turn uses it.
SkipBusy(t) ==
  /\ conv[t[1]] = "running" \/ InTurn(t[1])
  /\ GiveUp(t)
  /\ UNCHANGED used

SkipWarmup(t) == Spend("warmup") /\ GiveUp(t)

\* Neither guard stops the turn.
Pass(t) ==
  /\ pc[t] = "guard" /\ conv[t[1]] # "running"
  /\ pc' = [pc EXCEPT ![t] = "claim"]
  /\ UNCHANGED <<mailVars, teamVars, slotVars, reg, permit, batch, ok, doomed, wakeVars,
                 turnVars, history, session, snapshot, used, skipped>>

\* The claim is three steps, for the two awaits of it let others in between,
\* and an abort may land on either.  The slot says Working first ...
SetWorking(t) ==
  /\ pc[t] = "claim"
  /\ pc' = [pc EXCEPT ![t] = "row"]
  /\ status' = IF Attached(t) THEN [status EXCEPT ![t[1]] = "working"] ELSE status
  /\ UNCHANGED <<mailVars, teamVars, live, needs, reg, permit, batch, ok, doomed, wakeVars,
                 turnVars, history, session, snapshot, used, skipped>>

\* ... then the conversation row says running ...
ClaimRow(t) ==
  /\ pc[t] = "row"
  /\ pc' = [pc EXCEPT ![t] = "relay"]
  /\ conv' = [conv EXCEPT ![t[1]] = "running"]
  /\ UNCHANGED <<mailVars, teamVars, slotVars, reg, permit, batch, ok, doomed, wakeVars,
                 waiting, ended, direct, stranded, history, session, snapshot, used, skipped>>

\* ... then, without a pause, the relay is subscribed and the prompt sent.
Send(t) ==
  /\ pc[t] = "relay"
  /\ pc' = [pc EXCEPT ![t] = "prompt"]
  /\ waiting' = [waiting EXCEPT ![t[1]] = @ + 1]
  /\ Hand(batch[t])
  /\ UNCHANGED <<mailVars, teamVars, slotVars, reg, permit, batch, ok, doomed, wakeVars,
                 conv, ended, direct, stranded, excused, session, snapshot, used, skipped>>

\* send_message returns.  A turn that succeeds has broadcast its terminal
\* event; one that fails may have broadcast none.
TurnEnds(t) ==
  /\ pc[t] = "prompt"
  /\ pc' = [pc EXCEPT ![t] = "mark"]
  /\ \/ ok' = [ok EXCEPT ![t] = TRUE] /\ Hear(t[1]) /\ UNCHANGED used
     \/ /\ ok' = [ok EXCEPT ![t] = FALSE] /\ Spend("fail")
        /\ Hear(t[1]) \/ UNCHANGED <<waiting, ended>>
  /\ UNCHANGED <<mailVars, teamVars, slotVars, reg, permit, batch, doomed, wakeVars,
                 conv, direct, stranded, history, session, snapshot, skipped>>

\* Mutant: marks whatever is unread by now (read_unread_and_mark).
MarkAll(t) ==
  /\ pc[t] = "mark"
  /\ pc' = [pc EXCEPT ![t] = "finish"]
  /\ read' = read \cup Unread(t[1])
  /\ batch' = [batch EXCEPT ![t] = {}]
  /\ UNCHANGED <<mail, nextId, teamVars, slotVars, reg, permit, ok, doomed, wakeVars,
                 turnVars, history, session, snapshot, used, skipped>>

\* mark_read_batch, whatever the outcome of the turn.
Mark(t) ==
  /\ pc[t] = "mark"
  /\ pc' = [pc EXCEPT ![t] = "finish"]
  /\ read' = read \cup batch[t]
  /\ batch' = [batch EXCEPT ![t] = {}]
  /\ UNCHANGED <<mail, nextId, teamVars, slotVars, reg, permit, ok, doomed, wakeVars,
                 turnVars, history, session, snapshot, used, skipped>>

\* mark_read_batch fails: logged, and the turn goes on as if it had not.
MarkFails(t) ==
  /\ pc[t] = "mark" /\ Spend("markFail")
  /\ pc' = [pc EXCEPT ![t] = "finish"]
  /\ excused' = excused \cup batch[t]
  /\ batch' = [batch EXCEPT ![t] = {}]
  /\ UNCHANGED <<mailVars, teamVars, slotVars, reg, permit, ok, doomed, wakeVars,
                 turnVars, handed, repeated, session, snapshot, skipped>>

-----------------------------------------------------------------------------
(* finalize_turn *)

FinishRow(t) ==
  /\ pc[t] = "finish"
  /\ Release(t[1])
  /\ pc' = [pc EXCEPT ![t] = IF ok[t] THEN "idle" ELSE "error"]
  /\ ok' = [ok EXCEPT ![t] = TRUE]
  /\ UNCHANGED <<mailVars, teamVars, slotVars, reg, permit, batch, doomed, wakeVars,
                 waiting, ended, direct, history, session, snapshot, used, skipped>>

SetError(t) ==
  /\ pc[t] = "error"
  /\ pc' = [pc EXCEPT ![t] = "idle"]
  /\ status' = IF Attached(t) THEN [status EXCEPT ![t[1]] = "error"] ELSE status
  /\ UNCHANGED <<mailVars, teamVars, live, needs, reg, permit, batch, ok, doomed, wakeVars,
                 turnVars, history, session, snapshot, used, skipped>>

\* Mutant: the early return for the leader comes before set_status.
MarkIdleLeadFirst(t) ==
  LET a == t[1] IN
  /\ pc[t] = "idle"
  /\ status' = IF a # Lead /\ Attached(t) THEN [status EXCEPT ![a] = "idle"] ELSE status
  /\ pc' = [pc EXCEPT ![t] = IF a = Lead \/ (a \notin live /\ t \notin doomed)
                             THEN "peek" ELSE "note"]
  /\ UNCHANGED <<mailVars, teamVars, live, needs, reg, permit, batch, ok, doomed, wakeVars,
                 turnVars, history, session, snapshot, used, skipped>>

\* TeammateManager::mark_idle.  It ends here for the leader, and for a slot
\* the scheduler no longer has.
MarkIdle(t) ==
  LET a == t[1] IN
  /\ pc[t] = "idle"
  /\ status' = IF Attached(t) THEN [status EXCEPT ![a] = "idle"] ELSE status
  /\ pc' = [pc EXCEPT ![t] = IF a = Lead \/ (a \notin live /\ t \notin doomed)
                             THEN "peek" ELSE "note"]
  /\ UNCHANGED <<mailVars, teamVars, live, needs, reg, permit, batch, ok, doomed, wakeVars,
                 turnVars, history, session, snapshot, used, skipped>>

\* A teammate leaves the leader an idle notification; nobody is signalled.
Note(t) ==
  /\ pc[t] = "note"
  /\ pc' = [pc EXCEPT ![t] = "check"]
  /\ Write(Lead, t[1], "idle")
  /\ UNCHANGED <<teamVars, slotVars, reg, permit, batch, ok, doomed, wakeVars,
                 turnVars, history, session, snapshot, used, skipped>>

Settled(a) == status[a] \in {"idle", "error"}

AllSettled ==
  /\ live \ {Lead} # {}
  /\ \A a \in live \ {Lead} : Settled(a)

\* Mutant: every teammate's loop must be parked, the caller's own included.
CheckAllParked(t) ==
  /\ pc[t] = "check"
  /\ pc' = [pc EXCEPT ![t] = "peek"]
  /\ permit' = IF /\ t \notin doomed /\ Lead \in live /\ status[Lead] = "idle" /\ AllSettled
                  /\ \A u \in Tasks : u[1] \in live \ {Lead} => pc[u] = "wait"
               THEN Notified(Lead) ELSE permit
  /\ UNCHANGED <<mailVars, teamVars, slotVars, reg, batch, ok, doomed, wakeVars,
                 turnVars, history, session, snapshot, used, skipped>>

\* maybe_wake_leader_when_all_idle, and the notify its caller makes of it.
\* A replaced session's scheduler signals only its own, empty registry.
Check(t) ==
  /\ pc[t] = "check"
  /\ pc' = [pc EXCEPT ![t] = "peek"]
  /\ permit' = IF t \notin doomed /\ Lead \in live /\ status[Lead] = "idle" /\ AllSettled
               THEN Notified(Lead) ELSE permit
  /\ UNCHANGED <<mailVars, teamVars, slotVars, reg, batch, ok, doomed, wakeVars,
                 turnVars, history, session, snapshot, used, skipped>>

-----------------------------------------------------------------------------
(* Mail and wakes *)

\* TeamSession::send_message, send_message_to_agent
UserWrite(a) ==
  /\ session = "up" /\ a \in live /\ Spend("write")
  /\ Write(a, User, "user")
  /\ owed' = owed \cup {NewRow(a, User, "user")}
  /\ UNCHANGED <<teamVars, slotVars, loopVars, stale, inline, turnVars, history,
                 session, snapshot, skipped>>

\* team_send_message and team_shutdown_agent, called during a turn.  A
\* broadcast is one of these per target.
McpWrite(s, a) ==
  /\ session = "up" /\ {s, a} \subseteq live /\ InTurn(s) /\ Spend("write")
  /\ Write(a, s, "mcp")
  /\ owed' = owed \cup {NewRow(a, s, "mcp")}
  /\ UNCHANGED <<teamVars, slotVars, loopVars, stale, inline, turnVars, history,
                 session, snapshot, skipped>>

\* shutdown_rejected: a row for the leader and no wake.
Decline(s) ==
  /\ session = "up" /\ s \in live \ {Lead} /\ InTurn(s) /\ Spend("write")
  /\ Write(Lead, s, "declined")
  /\ UNCHANGED <<teamVars, slotVars, loopVars, wakeVars, turnVars, history,
                 session, snapshot, skipped>>

\* The writer's wake call.  TeamSession::try_wake finds a loop, or falls back
\* to an inline send unless one holds the wake lock; wake_agent_in_session
\* only notifies.
Wake(m) ==
  LET a      == m.to
      noLoop == m.via = "user" /\ (m \in stale \/ reg[a] = 0)
  IN
  /\ m \in owed
  /\ owed' = owed \ {m} /\ stale' = stale \ {m}
  /\ inline' = IF noLoop /\ inline[a].pc = "no"
               THEN [inline EXCEPT ![a] = [pc |-> "peek", batch |-> {}, old |-> m \in stale]]
               ELSE inline
  /\ permit' = IF noLoop THEN permit ELSE Notified(a)
  /\ UNCHANGED <<mailVars, teamVars, slotVars, reg, pc, batch, ok, doomed, turnVars, history,
                 session, snapshot, used, skipped>>

-----------------------------------------------------------------------------
(* try_wake_inline *)

InlineUnchanged == <<teamVars, loopVars, owed, stale, turnVars, session,
                     snapshot, used, skipped>>

\* Nothing to send, no slot, no task, or a busy one: the lock is released.
InlinePeek(a) ==
  LET current == ~inline[a].old /\ a \in live IN
  /\ inline[a].pc = "peek"
  /\ needs' = IF current THEN needs \ {a} ELSE needs
  /\ \/ inline' = [inline EXCEPT ![a] = NoInline]
     \/ /\ current \/ inline[a].old
        /\ Unread(a) # {}
        /\ inline' = [inline EXCEPT ![a] = [pc |-> "send", batch |-> Unread(a), old |-> @.old]]
  /\ UNCHANGED <<InlineUnchanged, mailVars, live, status, history>>

InlineSend(a) ==
  /\ inline[a].pc = "send"
  /\ inline' = [inline EXCEPT ![a] = [pc |-> "prompt", batch |-> @.batch, old |-> @.old]]
  /\ status' = IF a \in live /\ ~inline[a].old
               THEN [status EXCEPT ![a] = "working"] ELSE status
  /\ Hand(inline[a].batch)
  /\ excused' = excused \cup inline[a].batch
  /\ UNCHANGED <<InlineUnchanged, mailVars, live, needs>>

\* On success the rows are marked and the slot stays Working; on an error the
\* slot is idle and the rows stay unread.
InlineEnds(a) ==
  /\ inline[a].pc = "prompt"
  /\ inline' = [inline EXCEPT ![a] = NoInline]
  /\ \/ /\ read' = read \cup inline[a].batch
        /\ UNCHANGED status
     \/ /\ status' = IF a \in live /\ ~inline[a].old
                     THEN [status EXCEPT ![a] = "idle"] ELSE status
        /\ UNCHANGED read
  /\ UNCHANGED <<InlineUnchanged, mail, nextId, live, needs, history>>

-----------------------------------------------------------------------------
(* User turns and relays on a slot's conversation *)

TurnUnchanged == <<mailVars, teamVars, slotVars, loopVars, wakeVars, history, session,
                   snapshot, skipped>>

\* ConversationService::send_message reads the status column ...
DirectCheck(a) ==
  /\ a \in member /\ direct[a] = "no" /\ conv[a] # "running" /\ Spend("direct")
  /\ direct' = [direct EXCEPT ![a] = "checked"]
  /\ UNCHANGED <<TurnUnchanged, conv, waiting, ended, stranded>>

\* ... and claims it after storing the message and building the task.
DirectStart(a) ==
  /\ direct[a] = "checked"
  /\ direct' = [direct EXCEPT ![a] = "running"]
  /\ conv' = [conv EXCEPT ![a] = "running"]
  /\ UNCHANGED <<TurnUnchanged, waiting, ended, stranded, used>>

\* Or it fails before that, or is dropped with the connection of a client
\* that goes away: on the await of the claim too, the row written and the
\* task of the turn not yet spawned.
DirectDropped(a) ==
  /\ direct[a] = "checked"
  /\ direct' = [direct EXCEPT ![a] = "no"]
  /\ \/ conv' = [conv EXCEPT ![a] = "running"] /\ stranded' = stranded \cup {a}
     \/ UNCHANGED <<conv, stranded>>
  /\ UNCHANGED <<TurnUnchanged, waiting, ended, used>>

\* Its terminal event reaches every relay subscribed to the agent.
DirectEnds(a) ==
  /\ direct[a] = "running"
  /\ direct' = [direct EXCEPT ![a] = "ended"]
  /\ Hear(a)
  /\ UNCHANGED <<TurnUnchanged, conv, stranded, used>>

DirectDone(a) ==
  /\ direct[a] = "ended"
  /\ direct' = [direct EXCEPT ![a] = "no"]
  /\ Release(a)
  /\ UNCHANGED <<TurnUnchanged, waiting, ended, used>>

\* Mutant: the relay of a loop's turn leaves the row to its caller, as that
\* of a user turn does (with_turn_completion(false)).
RelayDoneQuiet(a) ==
  /\ ended[a] > 0
  /\ ended' = [ended EXCEPT ![a] = @ - 1]
  /\ UNCHANGED <<TurnUnchanged, waiting, direct, conv, stranded, used>>

\* complete_conversation, at the end of StreamRelay::consume.
RelayDone(a) ==
  /\ ended[a] > 0
  /\ ended' = [ended EXCEPT ![a] = @ - 1]
  /\ Release(a)
  /\ UNCHANGED <<TurnUnchanged, waiting, direct, used>>

\* The agent's stream closes, its process gone: relays still waiting end.
StreamCloses(a) ==
  /\ waiting[a] > 0 /\ ~InTurn(a)
  /\ Hear(a)
  /\ UNCHANGED <<TurnUnchanged, direct, conv, stranded, used>>

-----------------------------------------------------------------------------
(* Members come and go *)

JoinUnchanged == <<read, snapshot, session, leaving, status, live, needs, reg, pc, permit,
                   batch, ok, doomed, wakeVars, turnVars, history, used, skipped>>

\* The scheduler gets a slot, or a fresh one in place of the one it has.
SlotFor(a) ==
  /\ live' = live \cup {a}
  /\ status' = [status EXCEPT ![a] = "idle"]
  /\ needs' = needs \cup {a}

\* EventLoopRegistry::spawn; a loop already there is detached, not stopped.
Spawn(a, signalled) ==
  /\ Running(a) # Loops
  /\ reg' = [reg EXCEPT ![a] = Free(a)]
  /\ pc' = [pc EXCEPT ![<<a, Free(a)>>] = "wait"]
  /\ permit' = [permit EXCEPT ![<<a, Free(a)>>] = signalled]
  /\ UNCHANGED <<batch, ok, doomed>>

\* add_agent and persist_spawned_agent: the team row gets the slot.
Persist(a) ==
  /\ joining[a] = "no"
  /\ \/ /\ a \in Added
        /\ joining' = [joining EXCEPT ![a] = "adding"]
     \/ /\ a \in Spawned /\ session = "up" /\ Lead \in live /\ InTurn(Lead)
        /\ joining' = [joining EXCEPT ![a] = "spawning"]
  /\ member' = member \cup {a}
  /\ UNCHANGED <<JoinUnchanged, mail, nextId>>

\* add_agent: then the scheduler of the session there is, if any ...
AddAttach(a) ==
  /\ joining[a] = "adding"
  /\ IF session = "up"
     THEN SlotFor(a) /\ joining' = [joining EXCEPT ![a] = "added"]
     ELSE joining' = [joining EXCEPT ![a] = "done"] /\ UNCHANGED slotVars
  /\ UNCHANGED <<mailVars, member, leaving, loopVars, wakeVars, turnVars, history,
                 session, snapshot, used, skipped>>

\* ... then a loop, which nobody signals.
AddRegister(a) ==
  /\ joining[a] = "added"
  /\ joining' = [joining EXCEPT ![a] = "done"]
  /\ IF session = "up" THEN Spawn(a, FALSE) ELSE UNCHANGED loopVars
  /\ UNCHANGED <<mailVars, member, leaving, slotVars, wakeVars, turnVars, history,
                 session, snapshot, used, skipped>>

\* spawn_agent: the scheduler's slot and the welcome row, without a wake.
\* The call holds the session it was made on, stopped or not.
SpawnAttach(a) ==
  /\ joining[a] \in {"spawning", "orphaned"}
  /\ IF joining[a] = "spawning" THEN SlotFor(a) ELSE UNCHANGED slotVars
  /\ joining' = [joining EXCEPT ![a] = "spawned"]
  /\ Write(a, Lead, "welcome")
  /\ UNCHANGED <<member, leaving, loopVars, wakeVars, turnVars, history,
                 session, snapshot, used, skipped>>

\* spawn_agent's background task: process up or not, the loop and a wake.
SpawnRegister(a) ==
  /\ joining[a] = "spawned"
  /\ joining' = [joining EXCEPT ![a] = "done"]
  /\ IF session = "up" THEN Spawn(a, TRUE) ELSE UNCHANGED loopVars
  /\ UNCHANGED <<mailVars, member, leaving, slotVars, wakeVars, turnVars, history,
                 session, snapshot, used, skipped>>

\* Abort the loops in S: they stop where they are.
Abort(S) ==
  /\ pc' = [t \in Tasks |-> IF t \in S THEN "dead" ELSE pc[t]]
  /\ permit' = [t \in Tasks |-> permit[t] /\ t \notin S]
  /\ batch' = [t \in Tasks |-> IF t \in S THEN {} ELSE batch[t]]
  /\ ok' = [t \in Tasks |-> ok[t] \/ t \in S]

\* remove_agent: the team row first ...
RemovePersist(a) ==
  /\ a \in Removable \cap member
  /\ member' = member \ {a}
  /\ leaving' = leaving \cup {a}
  /\ UNCHANGED <<mailVars, joining, slotVars, loopVars, wakeVars, turnVars, history,
                 session, snapshot, used, skipped>>

\* Mutant: the loop goes, the slot stays.
RemoveSlotLoopOnly(a) ==
  LET mine == {<<a, reg[a]>>} \cap Tasks IN
  /\ a \in leaving
  /\ leaving' = leaving \ {a}
  /\ IF session = "up" /\ a \in live
     THEN /\ Abort(mine) /\ reg' = [reg EXCEPT ![a] = 0]
          /\ excused' = excused \cup CutOff(mine)
     ELSE UNCHANGED <<reg, pc, permit, batch, ok, excused>>
  /\ UNCHANGED <<mailVars, slotVars, member, joining, doomed, wakeVars, turnVars, handed,
                 repeated, session, snapshot, used, skipped>>

\* ... then the loop and the slot of the session there is, if any.
RemoveSlot(a) ==
  LET mine == {<<a, reg[a]>>} \cap Tasks IN
  /\ a \in leaving
  /\ leaving' = leaving \ {a}
  /\ IF session = "up" /\ a \in live
     THEN /\ Abort(mine) /\ reg' = [reg EXCEPT ![a] = 0]
          /\ excused' = excused \cup CutOff(mine)
          /\ stranded' = stranded \cup Strands(mine)
          /\ live' = live \ {a} /\ needs' = needs \ {a}
          /\ status' = [status EXCEPT ![a] = "idle"]
     ELSE UNCHANGED <<slotVars, reg, pc, permit, batch, ok, excused, stranded>>
  /\ UNCHANGED <<mailVars, member, joining, doomed, wakeVars, conv, waiting, ended, direct,
                 handed, repeated, session, snapshot, used, skipped>>

-----------------------------------------------------------------------------
(* The session and the process *)

\* ensure_session: the team row is read, the processes are rebuilt ...
EnsureBegin ==
  /\ session = "down"
  /\ session' = "booting" /\ snapshot' = member
  /\ UNCHANGED <<mailVars, teamVars, slotVars, loopVars, wakeVars, turnVars, history,
                 used, skipped>>

\* ... and the slots read then get a loop each, every loop a signal.
EnsureReady ==
  /\ session = "booting"
  /\ \A a \in snapshot : Running(a) # Loops
  /\ session' = "up" /\ snapshot' = {}
  /\ live' = snapshot /\ needs' = snapshot
  /\ status' = [a \in Agents |-> "idle"]
  /\ reg' = [a \in Agents |-> IF a \in snapshot THEN Free(a) ELSE 0]
  /\ pc' = [t \in Tasks |-> IF t[1] \in snapshot /\ t[2] = Free(t[1]) THEN "wait" ELSE pc[t]]
  /\ permit' = [t \in Tasks |-> permit[t] \/ (t[1] \in snapshot /\ t[2] = Free(t[1]))]
  /\ UNCHANGED <<mailVars, teamVars, batch, ok, doomed, wakeVars, turnVars, history,
                 used, skipped>>

\* What is left of a session that is stopped: nothing but detached loops and
\* calls that hold it.
NoSession ==
  /\ session' = "down" /\ snapshot' = {}
  /\ live' = {} /\ needs' = {} /\ status' = [a \in Agents |-> "idle"]
  /\ reg' = [a \in Agents |-> 0] /\ skipped' = {}

\* stop_session: the registered loops are aborted, the replaced ones told.
StopSession ==
  LET mine == {t \in Tasks : t[2] = reg[t[1]]} IN
  /\ session = "up" /\ Spend("stop")
  /\ NoSession
  /\ Abort(mine)
  /\ excused' = excused \cup CutOff(mine)
  /\ stranded' = stranded \cup Strands(mine)
  /\ doomed' = doomed \cup {t \in Tasks \ mine : pc[t] # "dead"}
  /\ stale' = owed
  /\ inline' = [a \in Agents |-> [pc |-> inline[a].pc, batch |-> inline[a].batch,
                                    old |-> inline[a].pc # "no"]]
  /\ joining' = [a \in Agents |-> IF joining[a] = "spawning"
                                  THEN "orphaned" ELSE joining[a]]
  /\ UNCHANGED <<mailVars, member, leaving, owed, conv, waiting, ended, direct, handed, repeated>>

\* The process dies: only the database is left, the status column included.
Crash ==
  /\ Spend("crash")
  /\ NoSession
  /\ Abort(Tasks) /\ doomed' = {}
  /\ excused' = excused \cup CutOff(Tasks)
  /\ stranded' = {a \in Agents : conv[a] = "running"}
  /\ owed' = {} /\ stale' = {} /\ inline' = [a \in Agents |-> NoInline]
  /\ waiting' = [a \in Agents |-> 0] /\ ended' = [a \in Agents |-> 0]
  /\ direct' = [a \in Agents |-> "no"]
  /\ joining' = [a \in Agents |-> IF joining[a] = "no" THEN "no" ELSE "done"]
  /\ leaving' = {}
  /\ UNCHANGED <<mailVars, member, conv, handed, repeated>>

-----------------------------------------------------------------------------
(* The specification *)

LoopStep(t) ==
  \/ TakePermit(t) \/ Exit(t) \/ Peek(t) \/ Park(t)
  \/ SkipBusy(t) \/ SkipWarmup(t) \/ Pass(t) \/ SetWorking(t)
  \/ ClaimRow(t) \/ Send(t) \/ TurnEnds(t) \/ Mark(t) \/ MarkFails(t)
  \/ FinishRow(t) \/ SetError(t) \/ MarkIdle(t) \/ Note(t) \/ Check(t)

InlineStep(a) == InlinePeek(a) \/ InlineSend(a) \/ InlineEnds(a)

DirectStep(a) == DirectStart(a) \/ DirectEnds(a) \/ DirectDone(a)

JoinStep(a) == AddAttach(a) \/ AddRegister(a) \/ SpawnAttach(a) \/ SpawnRegister(a)

EnsureStep == EnsureBegin \/ EnsureReady

Next ==
  \/ \E t \in Tasks : LoopStep(t)
  \/ \E a \in Agents :
       \/ UserWrite(a) \/ Decline(a) \/ DirectCheck(a) \/ Persist(a)
       \/ InlineStep(a) \/ DirectStep(a) \/ JoinStep(a)
       \/ DirectDropped(a) \/ RelayDone(a) \/ StreamCloses(a)
       \/ RemovePersist(a) \/ RemoveSlot(a)
  \/ \E s, a \in Agents : McpWrite(s, a)
  \/ \E m \in owed : Wake(m)
  \/ EnsureStep \/ StopSession \/ Crash

Spec == Init /\ [][Next]_vars

\* The tokio runtime polls every ready task, an agent answers its prompt, and
\* a session is asked for (restore_all_sessions, or the client) when none is.
Fairness ==
  /\ \A t \in Tasks : WF_vars(LoopStep(t))
  /\ \A a \in Agents :
       /\ WF_vars(\E m \in owed : m.to = a /\ Wake(m))
       /\ WF_vars(InlineStep(a)) /\ WF_vars(DirectStep(a)) /\ WF_vars(JoinStep(a))
       /\ WF_vars(RelayDone(a)) /\ WF_vars(StreamCloses(a)) /\ WF_vars(RemoveSlot(a))
  /\ WF_vars(EnsureStep)

FairSpec == Spec /\ Fairness

-----------------------------------------------------------------------------
(* Properties *)

PC == {"dead", "wait", "peek", "park", "guard", "claim", "row", "relay", "prompt", "mark",
       "finish", "error", "idle", "note", "check"}

\* Every variable has its type.
TypeOK ==
  /\ mail \subseteq Row /\ nextId \in Nat /\ read \subseteq Row
  /\ member \subseteq Agents /\ conv \in [Agents -> {"running", "finished"}]
  /\ session \in {"down", "booting", "up"} /\ snapshot \subseteq Agents
  /\ live \subseteq Agents /\ needs \subseteq Agents
  /\ status \in [Agents -> {"idle", "working", "error"}]
  /\ reg \in [Agents -> 0 .. MaxLoops]
  /\ pc \in [Tasks -> PC] /\ permit \in [Tasks -> BOOLEAN]
  /\ batch \in [Tasks -> SUBSET Row] /\ ok \in [Tasks -> BOOLEAN]
  /\ doomed \subseteq Tasks
  /\ owed \subseteq Row /\ stale \subseteq Row
  /\ inline \in [Agents -> [pc : {"no", "peek", "send", "prompt"},
                            batch : SUBSET Row, old : BOOLEAN]]
  /\ waiting \in [Agents -> Nat] /\ ended \in [Agents -> Nat]
  /\ direct \in [Agents -> {"no", "checked", "running", "ended"}] /\ stranded \subseteq Agents
  /\ joining \in [Agents -> {"no", "adding", "added", "spawning", "orphaned", "spawned", "done"}]
  /\ leaving \subseteq Agents
  /\ used \in [Kinds -> Nat]
  /\ handed \subseteq Row /\ repeated \subseteq Row /\ excused \subseteq Row
  /\ skipped \subseteq Agents

\* Where the rows are: a loop and the inline fallback hold rows of the
\* mailbox, during a turn and its mark rows that have been handed over, and
\* nothing is marked read that no turn has carried: event_loop.rs and
\* try_wake_inline mark the rows of their own batch, after the send.
RowsInHand ==
  /\ \A t \in Tasks :
       /\ batch[t] \subseteq mail
       /\ pc[t] \in {"prompt", "mark"} => batch[t] \subseteq handed
  /\ \A a \in Agents :
       /\ inline[a].batch \subseteq mail
       /\ inline[a].pc = "prompt" => inline[a].batch \subseteq handed
  /\ read \subseteq handed
  /\ handed \subseteq mail

\* A row is handed to its agent twice only when the turn that carried it was
\* cut off, its mark failed, or it went through the inline fallback, which
\* excludes no loop.  (Slots with one loop: no add or spawn.)
RepeatsAreExcused == repeated \subseteq excused

Parked(a) ==
  /\ reg[a] # 0
  /\ pc[<<a, reg[a]>>] = "wait" /\ ~permit[<<a, reg[a]>>]

\* No lost wake-up: when a loop is parked without a permit and has not given
\* up a batch, every unread row a writer signals is still owed its signal.
NoStrandedMail ==
  \A a \in live : Parked(a) /\ a \notin skipped =>
    \A m \in Unread(a) : m \in owed \/ m.via \in {"idle", "declined"}

\* Idle notifications carry no signal of their own: when every teammate has
\* settled and the leader is parked and idle with one unread, some teammate
\* is still on its way to signal the leader.
LeaderNotForgotten ==
  /\ Parked(Lead) /\ status[Lead] = "idle" /\ Lead \notin skipped /\ AllSettled
  /\ \E m \in Unread(Lead) : m.via = "idle"
  => \E t \in Tasks : pc[t] \in {"idle", "note", "check"}

\* A slot is Working only while its own loop is between claim and mark_idle;
\* nothing else would let the leader count it as settled again.
WorkingIsBacked ==
  \A a \in live : status[a] = "working" =>
    \E g \in Loops :
      pc[<<a, g>>] \in {"row", "relay", "prompt", "mark", "finish", "error", "idle"}

\* A conversation row says running only while something is left that will
\* write finished, whichever loops a stop or a removal aborts: a user turn, a
\* relay, or a loop that has just claimed it.  But execute_turn claims the row
\* before it has a relay, and send_message before it has a task: an abort, or
\* a client that goes away, on the await of that write, leaves the row to
\* nobody, as a crash does.  Those rows, and no others, are "stranded".
RunningIsReleased ==
  \A a \in Agents : conv[a] = "running" =>
    \/ direct[a] \in {"running", "ended"}
    \/ waiting[a] + ended[a] > 0
    \/ \E g \in Loops : pc[<<a, g>>] = "relay"
    \/ a \in stranded

\* Every slot of the scheduler has a loop to read its mail, or is about to
\* get one: add, spawn, remove, stop and ensure_session keep it so together.
LiveHasLoop ==
  \A a \in live : reg[a] # 0 \/ joining[a] \in {"added", "spawned"}

\* scheduler/mod.rs: needs_role_prompt is "true until the first wake
\* completes"; only a wake that has something to send may use it up.
RolePromptReachesATurn ==
  [][\A a \in needs : a \in live' /\ a \notin needs' =>
       \/ \E g \in Loops : pc'[<<a, g>>] = "guard"
       \/ inline'[a].pc = "send"]_vars

\* The mailbox is drained again and again: of what was written, only declined
\* shutdowns, which nobody signals, and what an agent sent itself, which
\* compute_wake_input skips, may stay unread.
MailDrained ==
  []<>(\A m \in mail \ read : m.via = "declined" \/ m.from = m.to)

\* What the team mailbox promises, whatever the loops do.
Mailbox == INSTANCE TeamMailbox WITH Row <- Row, mail <- mail, handed <- handed, read <- read

MailboxSpec == Mailbox!Spec

=============================================================================
