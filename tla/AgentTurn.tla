----------------------------- MODULE AgentTurn -----------------------------
(***************************************************************************)
(* One conversation: the calls that send it a message or warm it up, the   *)
(* task slots that keep its agent, the prompts on the agent, the relays    *)
(* that wait for their outcome, and what may cut in: a stop by the user, a *)
(* kill, the idle scanner, a reset, a delete, the death of the server.     *)
(*                                                                         *)
(* aionui-conversation: service.rs (send_message, warmup, cancel, reset,   *)
(* delete), stream_relay.rs; aionui-ai-agent: task_manager.rs,             *)
(* idle_scanner.rs, agent_runtime.rs and the ACP and aionrs managers.      *)
(*                                                                         *)
(* A step is what a task does up to its next await.  Only the terminal     *)
(* events of a stream matter here: a relay ends at the first one.          *)
(***************************************************************************)
EXTENDS Integers, FiniteSets

CONSTANTS
  Calls,           \* calls of send_message and warmup
  MaxRounds,       \* prompts of one call: the first and its continuations
  MaxSlots,        \* bound: task slots made
  Budgets          \* bound: how often each kind of outside event may happen,
                   \* one function for each mixture of them explored

Kinds == {"send", "warm", "fail", "cancel", "kill", "idle", "delete", "reset", "crash"}

ASSUME TurnAssumption ==
  /\ MaxRounds \in Nat \ {0} /\ MaxSlots \in Nat
  /\ Budgets \subseteq [Kinds -> Nat]

Slots == 1 .. MaxSlots
Rounds == 1 .. MaxRounds
Prompts == Calls \X Rounds

VARIABLES
  type,            \* the agent's type: acp or aionrs
  row,             \* status column of the conversation, or "deleted"
  slot,            \* the slot in WorkerTaskManagerImpl::tasks, 0 if none
  made,            \* slots made so far
  cell,            \* OnceCell of each slot
  status,          \* AgentRuntime::status of the agent in each slot
  dead,            \* slots whose agent process was killed
  pc,              \* where each call is
  warm,            \* the calls that are warmups
  at,              \* the slot each call holds
  round,           \* prompts of each call so far
  prompt,          \* where each prompt is
  deleting,        \* the row is gone, the delete hooks have not run
  used,            \* outside events so far
  raced,           \* a call claimed a conversation that was running
  late             \* calls that a delete of the row overtook on their way to an agent

callVars == <<pc, warm, at, round, prompt>>
taskVars == <<slot, made, cell, status, dead>>
vars == <<type, row, callVars, taskVars, deleting, used, raced, late>>

Init ==
  /\ type \in {"acp", "aionrs"}
  /\ row = "pending" /\ deleting = FALSE
  /\ slot = 0 /\ made = 0 /\ dead = {}
  /\ cell = [s \in Slots |-> "empty"] /\ status = [s \in Slots |-> "none"]
  /\ pc = [c \in Calls |-> "idle"] /\ warm = {}
  /\ at = [c \in Calls |-> 0] /\ round = [c \in Calls |-> 0]
  /\ prompt = [p \in Prompts |-> "no"]
  /\ used = [k \in Kinds |-> 0]
  /\ raced = FALSE /\ late = {}

-----------------------------------------------------------------------------
(* Helpers *)

Spend(kind) ==
  /\ used' = [used EXCEPT ![kind] = @ + 1]
  /\ \E limit \in Budgets : \A k \in Kinds : used'[k] <= limit[k]

\* The relays subscribed to the agent in slot s get a terminal event.
Heard(s) == [c \in Calls |-> IF at[c] = s /\ pc[c] = "listen" THEN "heard" ELSE pc[c]]

\* AgentRuntime::emit of a terminal event
Emit(s) ==
  /\ pc' = Heard(s)
  /\ status' = [status EXCEPT ![s] = "finished"]

\* AgentRuntime::emit_finish and emit_error: silent once Finished.
EmitOnce(s) ==
  /\ pc' = IF status[s] = "finished" THEN pc ELSE Heard(s)
  /\ status' = [status EXCEPT ![s] = "finished"]

\* The relay loop of the call runs.
Active(c) == pc[c] \in {"loop", "listen", "heard", "closing"}

\* Prompts sent to the agent in slot s that have not come back.
Outstanding(s) ==
  {p \in Prompts : at[p[1]] = s /\ prompt[p] \in {"spawned", "queued", "running"}}

-----------------------------------------------------------------------------
(* send_message and warmup, up to the agent *)

To(c, state) == pc' = [pc EXCEPT ![c] = state]

\* Mutant: the row is claimed together with the check.
CheckClaims(c) ==
  /\ pc[c] = "idle" /\ row \in {"pending", "finished"} /\ Spend("send")
  /\ To(c, "checked") /\ row' = "running"
  /\ UNCHANGED <<type, taskVars, warm, at, round, prompt, deleting, raced, late>>

\* send_message refuses a conversation that is running.
Check(c) ==
  /\ pc[c] = "idle" /\ row \in {"pending", "finished"} /\ Spend("send")
  /\ To(c, "checked")
  /\ UNCHANGED <<type, row, taskVars, warm, at, round, prompt, deleting, raced, late>>

\* The user's message is stored; its foreign key needs the conversation.
Store(c) ==
  /\ pc[c] = "checked"
  /\ To(c, IF row = "deleted" THEN "over" ELSE "stored")
  /\ UNCHANGED <<type, row, taskVars, warm, at, round, prompt, deleting, used, raced, late>>

\* warmup looks only whether the conversation is there.
Warm(c) ==
  /\ pc[c] = "idle" /\ row # "deleted" /\ Spend("warm")
  /\ To(c, "stored") /\ warm' = warm \cup {c}
  /\ UNCHANGED <<type, row, taskVars, at, round, prompt, deleting, raced, late>>

\* get_or_build_task: the conversation's slot, or a new empty one ...
GetSlot(c) ==
  /\ pc[c] = "stored"
  /\ slot # 0 \/ made < MaxSlots
  /\ made' = IF slot = 0 THEN made + 1 ELSE made
  /\ slot' = IF slot = 0 THEN made + 1 ELSE slot
  /\ at' = [at EXCEPT ![c] = slot']
  /\ To(c, "held")
  /\ UNCHANGED <<type, row, cell, status, dead, warm, round, prompt, deleting, used, raced, late>>

\* ... whose first caller runs the factory while the others wait.
Enter(c) ==
  /\ pc[c] = "held"
  /\ \/ cell[at[c]] = "full" /\ To(c, "ready") /\ UNCHANGED cell
     \/ /\ cell[at[c]] = "empty" /\ To(c, "building")
        /\ cell' = [cell EXCEPT ![at[c]] = "building"]
  /\ UNCHANGED <<type, row, slot, made, status, dead, warm, at, round, prompt, deleting, used,
                 raced, late>>

\* The factory returns, and a failure leaves the cell empty.
Built(c) ==
  /\ pc[c] = "building"
  /\ \/ To(c, "ready") /\ cell' = [cell EXCEPT ![at[c]] = "full"] /\ UNCHANGED used
     \/ /\ Spend("fail") /\ To(c, "over")
        /\ cell' = [cell EXCEPT ![at[c]] = "empty"]
  /\ UNCHANGED <<type, row, slot, made, status, dead, warm, at, round, prompt, deleting,
                 raced, late>>

\* The row is set to running; a warmup is over before that.
Claim(c) ==
  /\ pc[c] = "ready"
  /\ IF c \in warm \/ row = "deleted"
     THEN To(c, "over") /\ UNCHANGED <<row, raced>>
     ELSE To(c, "loop") /\ row' = "running" /\ raced' = (raced \/ row = "running")
  /\ UNCHANGED <<type, taskVars, warm, at, round, prompt, deleting, used, late>>

-----------------------------------------------------------------------------
(* The background loop of send_message *)

\* Mutant: the prompt goes out before the relay subscribes.
SubscribeLate(c) ==
  /\ pc[c] = "loop"
  /\ \/ /\ round[c] < MaxRounds /\ prompt[<<c, round[c] + 1>>] = "no"
        /\ prompt' = [prompt EXCEPT ![<<c, round[c] + 1>>] = "spawned"]
        /\ UNCHANGED <<pc, round>>
     \/ /\ round[c] < MaxRounds /\ prompt[<<c, round[c] + 1>>] # "no"
        /\ To(c, "listen") /\ round' = [round EXCEPT ![c] = @ + 1]
        /\ UNCHANGED prompt
     \/ round[c] = MaxRounds /\ To(c, "closing") /\ UNCHANGED <<round, prompt>>
  /\ UNCHANGED <<type, row, taskVars, warm, at, deleting, used, raced, late>>

\* A relay subscribes and the prompt is sent from a task of its own, unless
\* the call has had its continuations.
Subscribe(c) ==
  /\ pc[c] = "loop"
  /\ IF round[c] < MaxRounds
     THEN /\ To(c, "listen") /\ round' = [round EXCEPT ![c] = @ + 1]
          /\ prompt' = [prompt EXCEPT ![<<c, round[c] + 1>>] = "spawned"]
     ELSE To(c, "closing") /\ UNCHANGED <<round, prompt>>
  /\ UNCHANGED <<type, row, taskVars, warm, at, deleting, used, raced, late>>

\* Mutant: each relay completes the conversation itself (complete_turn left on).
RelayCompletes(c) ==
  /\ pc[c] = "heard"
  /\ To(c, "loop") \/ To(c, "closing")
  /\ row' = IF row = "deleted" THEN row ELSE "finished"
  /\ UNCHANGED <<type, taskVars, warm, at, round, prompt, deleting, used, raced, late>>

\* StreamRelay::consume returns; cron commands in the reply ask for one more
\* prompt.
RelayEnds(c) ==
  /\ pc[c] = "heard"
  /\ To(c, "loop") \/ To(c, "closing")
  /\ UNCHANGED <<type, row, taskVars, warm, at, round, prompt, deleting, used, raced, late>>

\* complete_conversation
Complete(c) ==
  /\ pc[c] = "closing" /\ To(c, "over")
  /\ row' = IF row = "deleted" THEN row ELSE "finished"
  /\ UNCHANGED <<type, taskVars, warm, at, round, prompt, deleting, used, raced, late>>

-----------------------------------------------------------------------------
(* send_message of the agent, on a task of its own *)

Becomes(p, state) == prompt' = [prompt EXCEPT ![p] = state]

PromptUnchanged == <<type, row, slot, made, cell, dead, warm, at, round, deleting, raced, late>>

\* Mutant: aionrs moves to Running as ACP does, and Finished absorbs it.
OpenNoReset(p) ==
  LET s == at[p[1]] IN
  /\ prompt[p] = "spawned"
  /\ Becomes(p, IF type = "acp" THEN "running" ELSE "queued")
  /\ status' = [status EXCEPT ![s] = IF @ = "finished" THEN @ ELSE "running"]
  /\ UNCHANGED <<PromptUnchanged, pc, used>>

\* ACP opens the session and moves to Running, which Finished absorbs;
\* aionrs resets to Running and then waits for its engine.
Open(p) ==
  LET s == at[p[1]] IN
  /\ prompt[p] = "spawned"
  /\ \/ type = "acp" /\ s \notin dead /\ Becomes(p, "running")
     \/ type = "aionrs" /\ Becomes(p, "queued")
  /\ status' = [status EXCEPT ![s] = IF type = "acp" /\ @ = "finished" THEN @ ELSE "running"]
  /\ UNCHANGED <<PromptUnchanged, pc, used>>

\* aionrs: the engine runs one prompt at a time.
Lock(p) ==
  /\ prompt[p] = "queued"
  /\ \A q \in Outstanding(at[p[1]]) : prompt[q] # "running"
  /\ Becomes(p, "running")
  /\ UNCHANGED <<PromptUnchanged, pc, status, used>>

\* The agent is done.  ACP broadcasts Finish whatever the status, aionrs only
\* if nothing has finished since the reset.
Answer(p) ==
  LET s == at[p[1]] IN
  /\ prompt[p] = "running" /\ s \notin dead
  /\ Becomes(p, "done")
  /\ IF type = "acp" THEN Emit(s) ELSE EmitOnce(s)
  /\ UNCHANGED <<PromptUnchanged, used>>

\* The agent or, for ACP, its session fails; a killed process always does.
Fail(p) ==
  LET s == at[p[1]] IN
  /\ prompt[p] \in IF type = "acp" THEN {"spawned", "running"} ELSE {"running"}
  /\ IF s \in dead THEN UNCHANGED used ELSE Spend("fail")
  /\ Becomes(p, "done")
  /\ EmitOnce(s)
  /\ UNCHANGED PromptUnchanged

-----------------------------------------------------------------------------
(* What cuts in *)

\* ConversationService::cancel, on the agent the map has.  The ACP prompt
\* comes back by itself; aionrs drops the one its engine is running.
Cancel ==
  /\ slot # 0 /\ cell[slot] = "full" /\ row # "deleted" /\ Spend("cancel")
  /\ IF type = "acp"
     THEN EmitOnce(slot) /\ UNCHANGED prompt
     ELSE /\ Emit(slot)
          /\ prompt' = [p \in Prompts |-> IF p \in Outstanding(slot) /\ prompt[p] = "running"
                                          THEN "done" ELSE prompt[p]]
  /\ UNCHANGED PromptUnchanged

\* WorkerTaskManagerImpl::kill: the slot goes whatever is in it, and the ACP
\* agent there is killed; kill of aionrs only logs.
KillTask ==
  /\ slot' = 0
  /\ IF slot # 0 /\ cell[slot] = "full" /\ type = "acp"
     THEN dead' = dead \cup {slot} /\ EmitOnce(slot)
     ELSE UNCHANGED <<dead, status, pc>>
  /\ UNCHANGED <<type, made, cell, warm, at, round, prompt, raced>>

\* A change of model, and the team's rebuilds and removals.
Kill ==
  /\ slot # 0 /\ Spend("kill") /\ KillTask
  /\ UNCHANGED <<row, deleting, late>>

\* scan_and_cleanup: ACP agents whose status is Finished, idle for long enough.
IdleKill ==
  /\ slot # 0 /\ cell[slot] = "full" /\ type = "acp" /\ status[slot] = "finished"
  /\ Spend("idle") /\ KillTask
  /\ UNCHANGED <<row, deleting, late>>

\* delete: the row goes, its messages with it ...
DeleteRow ==
  /\ row # "deleted" /\ Spend("delete")
  /\ row' = "deleted" /\ deleting' = TRUE
  /\ late' = {c \in Calls : pc[c] \in {"stored", "held", "building"}}
  /\ UNCHANGED <<type, taskVars, callVars, raced>>

\* Mutant: the task manager is not among the hooks.
DeleteHookOff ==
  /\ deleting /\ deleting' = FALSE
  /\ UNCHANGED <<type, row, taskVars, callVars, used, raced, late>>

\* ... then the hooks, the task manager's kill among them.
DeleteHook ==
  /\ deleting /\ deleting' = FALSE /\ KillTask
  /\ UNCHANGED <<row, used, late>>

\* reset writes pending over whatever the row says.
Reset ==
  /\ row # "deleted" /\ Spend("reset") /\ row' = "pending"
  /\ UNCHANGED <<type, taskVars, callVars, deleting, raced, late>>

\* The process dies: the row is all that is left.
Crash ==
  /\ Spend("crash")
  /\ slot' = 0 /\ dead' = Slots /\ deleting' = FALSE
  /\ pc' = [c \in Calls |-> IF pc[c] = "idle" THEN "idle" ELSE "over"]
  /\ prompt' = [p \in Prompts |-> IF prompt[p] = "no" THEN "no" ELSE "done"]
  /\ UNCHANGED <<type, row, made, cell, status, warm, at, round, raced, late>>

-----------------------------------------------------------------------------
(* The specification *)

CallStep(c) ==
  \/ Store(c) \/ GetSlot(c) \/ Enter(c) \/ Built(c) \/ Claim(c)
  \/ Subscribe(c) \/ RelayEnds(c) \/ Complete(c)

PromptStep(p) == Open(p) \/ Lock(p) \/ Answer(p) \/ Fail(p)

Next ==
  \/ \E c \in Calls : Check(c) \/ Warm(c) \/ CallStep(c)
  \/ \E p \in Prompts : PromptStep(p)
  \/ Cancel \/ Kill \/ IdleKill \/ DeleteRow \/ DeleteHook \/ Reset \/ Crash

Spec == Init /\ [][Next]_vars

\* The runtime polls every ready task and an agent answers its prompt.
Fairness ==
  /\ \A c \in Calls : WF_vars(CallStep(c))
  /\ \A p \in Prompts : WF_vars(PromptStep(p))
  /\ WF_vars(DeleteHook)

FairSpec == Spec /\ Fairness

-----------------------------------------------------------------------------
(* Properties *)

\* Every variable has its type.
TypeOK ==
  /\ type \in {"acp", "aionrs"}
  /\ row \in {"pending", "running", "finished", "deleted"}
  /\ slot \in 0 .. MaxSlots /\ made \in 0 .. MaxSlots
  /\ cell \in [Slots -> {"empty", "building", "full"}]
  /\ status \in [Slots -> {"none", "running", "finished"}]
  /\ dead \subseteq Slots
  /\ pc \in [Calls -> {"idle", "checked", "stored", "held", "building", "ready", "loop",
                       "listen", "heard", "closing", "over"}]
  /\ warm \subseteq Calls
  /\ at \in [Calls -> 0 .. MaxSlots] /\ round \in [Calls -> 0 .. MaxRounds]
  /\ prompt \in [Prompts -> {"no", "spawned", "queued", "running", "done"}]
  /\ deleting \in BOOLEAN /\ raced \in BOOLEAN /\ late \subseteq Calls
  /\ used \in [Kinds -> Nat]

\* A conversation says running only while some call will complete it: an
\* early failure, of the factory for one, leaves no claim behind.
RunningIsBacked ==
  row = "running" /\ used["crash"] = 0 => \E c \in Calls : Active(c)

\* Once a call has claimed the conversation it stays claimed through all its
\* continuations, so the check of send_message keeps other calls out; unless
\* two calls raced through that check, or a reset took the claim away.
ClaimIsHeld ==
  ~raced /\ used["reset"] = 0 =>
    \A c \in Calls : Active(c) => row \in {"running", "deleted"}

\* A relay that waits will hear: on an aionrs agent its own prompt has not
\* started, or some prompt is outstanding that will find the status Running.
RelayIsOwed ==
  type = "aionrs" => \A c \in Calls : pc[c] = "listen" =>
    \/ prompt[<<c, round[c]>>] = "spawned"
    \/ /\ status[at[c]] = "running"
       /\ Outstanding(at[c]) # {}

\* A delete leaves no slot behind, but for one a call was about to get when
\* the row went: the hook runs after the row is gone, so that nobody who
\* checks later can make another.
DeleteTearsDown ==
  row = "deleted" /\ ~deleting /\ late = {} => slot = 0

\* A claimed conversation is released in the end: the aionrs agent always
\* broadcasts an outcome the waiting relay hears.
TurnIsReleased ==
  (type = "aionrs" /\ row = "running" /\ used["crash"] = 0)
    ~> (row # "running" \/ used["crash"] > 0)

\* acp/agent.rs: kill emits an error so that "subscribers see a terminal event".
KillIsHeard ==
  [][\A s \in dead' \ dead : used'["crash"] = used["crash"] =>
       \A c \in Calls : at[c] = s => pc'[c] # "listen"]_vars

\* idle_scanner.rs: the agents killed are those that are "idle (finished + no
\* activity)", never one in the middle of a turn.
IdleKillSparesTurns ==
  [][used'["idle"] > used["idle"] => Outstanding(slot) = {}]_vars

=============================================================================
