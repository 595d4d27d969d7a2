# AionCore in TLA+

AionCore (`aionui-backend`) is the server behind the AionUi desktop client: Rust, Axum and Tokio
over one SQLite database. It runs conversations with external coding agents, teams of such agents
that write to each other, scheduled jobs, and the services around them: chats on messaging platforms,
sockets to the clients, sign-ins, previews of documents, extensions, MCP servers. Its hard part is not computation but
**asynchronous control**: many tokio tasks, no lock that spans an `await`, rows in a database shared
by all of them, child processes that die, and a server that may be killed at any time.

This directory holds TLA+ models of that control, TLC configurations that check them on small
instances, and TLAPS proofs for every instance.

Contents: [inventory](#1-inventory) · [modules](#2-modules-and-how-they-correspond-to-the-code) ·
[runs](#3-runs) · [bounds and fairness](#4-bounds-granularity-fairness) · [proofs](#5-proofs) ·
[what the code does not prevent](#6-where-the-code-falls-short) · [not modelled](#7-not-modelled) ·
[plan](#8-plan)

## 1. Inventory

Paths are below `src/crates/`. `PROJECT.json` lists every component with its sources and status.

### Modelled

| component | state | operations | hard because |
|---|---|---|---|
| **Team run time** (`aionui-team`: `event_loop.rs`, `session.rs`, `scheduler/`, `mailbox.rs`, `service.rs`) | mailbox rows with a read flag; per slot a status, a "needs role prompt" flag, a registered event loop with a `Notify`; the session map; the agents in the team row | write to the mailbox, wake, peek, claim, send, mark read, settle, add, spawn, remove, stop, ensure | a `Notify` keeps one permit; peek, send and mark are three steps; a removed slot's loop and the relay of its last turn live on; loops share the status column with user turns |
| **Team roster** (`service.rs`, `service/spawn_support.rs`, `scheduler/agent_lifecycle.rs`; `sqlite_team.rs`) | the members in one column of the team's row, their conversations, their copy in the session's memory; a lock for additions, one for the start of a session | add, spawn, remove, rename, remove the team, start and stop its session | the column is read and written whole; a conversation is made or deleted in between; removals and renamings take no lock |
| **Team task board** (`task_board.rs`, `aionui-db` `sqlite_team.rs`) | tasks with `blocked_by` and `blocks`, two JSON lists that mirror each other | create, update, complete (which crosses the task out downstream) | lists are read and written back; each side in its own transaction; a deferred SQLite transaction fails when its snapshot is stale |
| **Conversation turn** (`aionui-conversation`: `service.rs`, `stream_relay.rs`) | status column; one relay task per turn | send, warm up, continue, stop, reset, delete | status checked long before it is claimed; the relay must hear exactly one terminal event; delete runs hooks after the row is gone |
| **Task manager and managers** (`aionui-ai-agent`: `task_manager.rs`, `idle_scanner.rs`, `agent_runtime.rs`, `manager/{acp,aionrs}`) | map of slots, each a once-cell; per agent a status that absorbs at Finished and a broadcast channel | get or build, kill, kill idle, prompt, cancel | factories run outside the map's lock; a second prompt meets a status already Finished |
| **Cron** (`aionui-cron`: `service.rs`, `scheduler.rs`, `executor.rs`, `busy_guard.rs`) | job rows; one timer task per job; the set of busy conversations | tick, retry, skip, run now, edit, remove, resume, conversation deleted, restart | a tick holds a copy of its row for minutes; timers are cancelled and armed by whoever comes last; a retry replaces the job's own timer |
| **ACP session** (`aionui-ai-agent`: `manager/acp/{agent,session,agent_session_flow,agent_reconcile,agent_event_tracker}.rs`, `factory/acp.rs`, `persistence/acp_session_sync.rs`) | per agent the mode wanted, observed and advertised, the session id; a row with both; a channel of domain events and a consumer that waits half a second | build, open, resume, set mode, hear of a mode, reconcile, flush, kill | the consumer outlives its agent; a request, its refusal and the agent's own change meet in one aggregate |
| **ACP permissions** (`manager/acp/permission_router.rs`, `protocol/acp.rs`) | responders by call id; a channel of requests; the turn's event channel | ask, route, announce, withdraw, confirm, cancel all | a request is kept, then announced, and the turn, a stop or the relay may end in between |
| **OpenClaw agents** (`manager/openclaw/{agent/mod,connection,event_mapper}.rs`, `agent_runtime.rs`) | the session key; pending requests; one socket and one channel of events; one status for all turns | send (with a session to resolve or reset first), stop with a fallback, kill, map events | events of all sessions, answers, time-outs, late fallbacks and a broken socket meet in one runtime |
| **Transcript of a turn** (`aionui-conversation`: `stream_relay.rs`, `response_middleware.rs`; `sqlite_conversation.rs`) | the relay's buffers; the rows of the answer, the thinking, the tool calls, the tips | forward, flush every n pieces, merge tool calls, clean and save at the end | rows lag behind the client; every statement may fail and is only logged; the channel may lag; a tool call's update reads and writes back |
| **Channel** (`aionui-channel`: `pairing.rs`, `session.rs`, `orchestrator.rs`, `action.rs`, `message_service.rs`, `manager.rs`, `plugins/telegram`) | pairing codes, users, sessions; plugins in memory against their rows; polling loops with an offset | text, approve, reject, revoke, renew, bind, relay; enable, disable, test, restore, poll | a task for every message, no lock in the manager; a loop outlives the instance that started it |
| **Realtime** (`aionui-realtime`: `broadcaster.rs`, `manager.rs`, `handler.rs`; `router/routes.rs`) | the bus of 256 events, the bridge's place in it, a bounded queue per connection | publish, forward, write, answer, ping, drop | a lagging receiver, a full queue, a client that is gone but still in the map |
| **Accounts** (`aionui-auth`: `jwt.rs`, `qr_token.rs`, `routes.rs`, `middleware.rs`; `services.rs`, `provider.rs`) | the secret in memory, in rows, in the environment; the blacklist; a QR token; the key for stored API keys | sign in, log out, refresh, change and reset passwords, QR sign-in, restart | the secret is rotated in memory first and stored later, in the row of whoever asked; a local request stores one the running server does not know |
| **Previews** (`aionui-office`: `watch_manager.rs`, `port.rs`) | a session per document with its officecli process and port | start, install, wait for the port, delayed stop, hang up | starts and stops of one document cross without a lock; a dead session is removed by its key |
| **Extensions** (`aionui-extension`: `registry.rs`, `state.rs`, `dependency.rs`, `hub/installer.rs`; `router/state.rs`) | the switches in the registry, in the store and, half a second late, in a file; the directories; the load order | enable, disable, install, update, uninstall with a hot reload, start, stop | three copies with one writer; a reload takes a while and commits what it read |
| **MCP servers** (`aionui-mcp`: `routes.rs`, `service.rs`, `sync_service.rs`, `adapters/`; `sqlite_mcp_server.rs`) | the rows; a copy of each enabled server in the configuration of every agent | add, import, edit, toggle, delete, sync, remove from agents | the row is written first, the copies follow under a lock, agent by agent; adapters fail alone, install less than they are told and detect less than they installed; a configuration is read and written back |

How they meet: the event loops and cron executions call the conversation service and read its status
column; the conversation service gets agents from the task manager; deleting a conversation runs the
hooks of the task manager and of cron; an agent in a team turn calls back through MCP tools (send,
spawn, shut down, tasks); a chat on a platform sends through the conversation service and listens to
the agent's events; every change is announced over the realtime bus. Each model keeps the part
of its neighbours it can observe: TeamLoop a turn reduced to check, claim and completion, CronJobs an
execution reduced to its outcome and the busy flag, ChannelChat a turn that runs or has ended,
StreamRelay and AcpPermissions an agent that may send anything at any time, OpenClaw a relay that leaves
with the first end it hears.

What makes each correct, in words: no row of the mailbox is lost, skipped or carried twice without a
fault; no signal is lost; the leader hears when all have settled; every slot has a loop. A dependency
is listed on both sides, and completion frees whoever waits. A running conversation has somebody who
will release it, one claim at a time; a relay that waits will hear; a delete leaves no agent. An
enabled job has a live timer; the guard comes down; a removed job is forgotten. What is stored of a
turn is what was shown. A turn with a remote gateway ends, and by its own run. Who waits for a permission waits for somebody. A person is admitted once, by
the owner's decision; contexts do not mix; no update of a platform is lost; what is off stays off. A
client misses only what its own queue had no room for. A restart keeps those signed in, and a logout
holds. What the agent was last seen in is what the next one starts from. No process is left behind. The row
of a team, its conversations and its session name the same members. An extension is switched as the
user asked last, and loads after what it needs. An agent knows the MCP servers that are on.

### Not modelled (yet or at all)

| component | state | properties it should have |
|---|---|---|
| mcp: OAuth | one pending login, tokens | a late callback completes no other login |
| auth: rate limiter | windows of attempts by address | no more than the limit in a window |
| file, system, assistant, shell, runtime, assets, api-types, common | files, rows, caches | mostly I/O and data; see section 7 |

The hazards of the modelled code, each at its line and with the properties that watch it, are the
`hazards` of `PROJECT.json`; those no property covers are told in section 6.

## 2. Modules and how they correspond to the code

| module | models | proofs | instances |
|---|---|---|---|
| `TeamMailbox` | what the mailbox promises (abstract) | | |
| `TeamLoop` | team run time | `TeamLoopProofs` | `MCTeamLoop` |
| `TaskBoard` | task board | `TaskBoardProofs` | `MCTaskBoard` |
| `AgentTurn` | conversation turn, task manager, managers | `AgentTurnProofs` | `MCAgentTurn` |
| `CronJobs` | cron | `CronJobsProofs` | `MCCronJobs` |
| `Transcript` | what the stored copy of a turn promises (abstract) | | |
| `StreamRelay` | the relay of one turn and its rows | `ServicesProofs` | `MCServices` |
| `OfficeWatch` | previews of documents | `ServicesProofs` | `MCServices` |
| `Access` | a group: who comes in, and by which way | `AccessProofs` | `MCServices` |
| &nbsp; `ChannelChat`, `ChannelPlugins` | chats on platforms; the plugins behind them | | |
| &nbsp; `Realtime` | event bus, bridge, connections | | |
| &nbsp; `Accounts` | sign-ins and secrets | | |
| `Agents` | a group: what stands between a turn and its agent | `AgentsProofs` | `MCServices` |
| &nbsp; `AcpSession`, `AcpPermissions` | an ACP agent's stored state; its requests for permission | | |
| &nbsp; `OpenClaw` | turns with an agent behind an OpenClaw gateway | | |
| `Catalog` | a group: what is configured, and its copies | `CatalogProofs` | `MCServices` |
| &nbsp; `TeamRoster` | the members of a team, stored and in memory | | |
| &nbsp; `Extensions` | the switches of extensions | | |
| &nbsp; `McpSync` | MCP servers and their copies in the agents | | |
| &nbsp; `LoadOrder` | the order extensions load in | | |
| `Services` | what the groups share: the service in focus | | |

`MCServices` puts the services side by side. They share nothing but the database file, so `focus`
says at the start which of them runs while the others stand still: one run explores them one after
the other, and no product of them. `StreamRelay` and `OfficeWatch` come in by EXTENDS. The others come
in groups: `Access`, `Agents` and `Catalog` hold an INSTANCE of each of their services under variables
of their own names, an initial condition, a next-state relation of the service in focus, and the
properties under the names the run checks. The proofs speak of these groups, so theorem and run are
about the very same definitions; a step of `SystemNext` is a step of one service and leaves the variables
of the others alone, so that `SystemSpec`, which the run explores, implements the specification of each group
(`ServicesProofs!SystemImplements`): what is proved of a group holds of the whole.

`PROJECT.json` (`map`) names the source lines of each definition. In each module: `VARIABLES` with the
code they stand for, helpers, one action per step of an operation, `Next`, fairness, properties.
Operators called like an action with a suffix (`MarkAll`, `LockFree`, ...) and marked "Mutant" are
plausible bugs; no specification uses them, and replacing the action by its mutant must violate the
property it is listed with.

**TeamLoop.** A loop (`run_agent_event_loop`) is a task `<<slot, n>>` with a program counter: `wait`
(the `select!` on Notify and shutdown; `TakePermit`, `Exit`), `peek` (`compute_wake_input`), `park`,
`guard` (`SkipBusy`, `SkipWarmup`, `Pass`), the claim with an await each for the slot and the row
(`claim`: `SetWorking`, `row`: `ClaimRow`, `relay`: `Send`), `prompt` (`TurnEnds`), `mark` (`Mark`,
`MarkFails`), `finish`, `error`, `idle` (`MarkIdle`), `note`, `check`. A stop or a removal aborts it
wherever it is (`Abort`); what that leaves running with no relay yet is `stranded`, history, as are rows
a crash or a dropped user request (`DirectDropped`) leaves. `Notified` is `notify_one`: it stores at most
one permit. A spawn for a slot that has a loop replaces the registered one and leaves
the other running (`doomed` once its registry was shut down). Writers put a row in first (`UserWrite`,
`McpWrite`, `Decline`, the welcome of a spawn) and signal later (`Wake`, by `owed`); when the writer
still holds a stopped session (`stale`) or the registry has no loop, the fallback `try_wake_inline`
runs (`InlinePeek`, `InlineSend`, `InlineEnds`). User turns on the same conversation are `Direct*`;
relays that outlive their turn are `waiting` and `ended`. `Crash` clears memory and keeps the rows.

**TeamMailbox** keeps only the rows written, carried and marked. `TeamLoop!MailboxSpec` says TeamLoop
implements it under the same names: no row is lost or changed, none is marked read before a turn
carried it.

**TaskBoard.** A call has a program counter and a step is one database access. `Check` and `Insert`
then `Link`/`Append` per dependency are `create_task`; `Find`, `Update`, then `Free`/`Remove` per
downstream task are `update_task` with `check_unblocks`. `Link`/`Append` and `Free`/`Remove` are the
read and the write of one deferred transaction: any write by another connection in between makes the
call `stale`, and it can only fail (`Busy`), as SQLite in WAL mode does. `cut` and `late` are history:
`cut[u]` holds the dependencies that a failed call or an edit left inconsistent, `late[u]` those
linked to a task completed or about to be.

**AgentTurn.** A call of `send_message` or `warmup` goes `idle, checked, stored, held, building,
ready, loop, listen, heard, closing, over`. `GetSlot`, `Enter`, `Built` are the once-cell of
`get_or_build_task`; `Claim` writes running; `Subscribe` and `RelayEnds` are the relay of one round;
`Complete` writes finished. A prompt runs on its own task (`Open`, `Lock`, `Answer`, `Fail`). `Emit` is
the runtime's broadcast and `EmitOnce` the variant that is silent once Finished. The agent's type
decides what differs: aionrs resets its status and serialises prompts on its engine lock, ACP does
neither.

**CronJobs.** A call in flight (`op`) carries the copy of the row it loaded (`snap`), as the code does.
`Fire` is the timer; `TickRead`, `Verdict` (the busy guard), `Retry`, `Skip`, `Resolve`, `Start`,
`Run`, `Count`, `Record`, `Reschedule` are the tick and run-now; `Edit`, `EditWrite`, `Rearm` the
update; `Remove`, `RemoveRow` the removal; `Missed`, `Again` the resume; `DeleteConversation`,
`Cascade`, `CascadeRows` the hook; `Restart` a crash with the start-up that removes orphans and arms
the rest. `crossed` and `overtaken` are history: jobs on which edits met edits, or other calls.

**StreamRelay.** The relay (`consume`) has a program counter: `read` (`ReadText`, `ReadThink`,
`ReadTool`, `ReadEnd` by the event at the head of the channel), `flush` (`Flush`, every
`FlushInterval` pieces), `lookup` and `write` (`Lookup`, `Write`: a tool call's update reads, merges
and writes back), `think`, `clean`, `save` (`SaveText`, `SaveTips`) at the end. `Send` is the agent, in
the order of its protocol (`acp`: a call starts, then is updated, and an update may leave the status out;
otherwise whole tool events); the row of a call has the status twice, in its `column` and in its `content`,
which an update changes in two ways (`Column`, `Merge`);
a full channel drops its oldest event, which is the lag. Every statement `Works` or `Breaks`. `Delete`
takes the conversation and, by the foreign key, its rows; `Crash` is the end of the server.
**Transcript** knows only how much was shown and how much is kept; `Promise` is its instance
under the mapping `client.text`, `Kept`, and `KeepsTranscript` says that StreamRelay implements it.

**AcpSession.** `agent` is the manager with its aggregate (`desired`, `observed`, ...), `cli` the
command-line agent, `chan` and `pend` the domain events and the debounce of the consumer, `old` the
consumer of the agent before. A mode stands for the model too, which is treated alike.

**AcpPermissions.** A request goes from its handler (`Hand`) through the channel to the router
(`Route`: keep it, cancel an earlier one on the same call, approve a team tool), is announced (`Tell`),
or withdrawn when nobody is subscribed (`Undo`), and is answered by `Confirm`, `CancelAll` (stop or
kill) or the end of the process (`Exit`). The turn is the prompt (`Begin`, `PromptEnds`,
`PromptFails`) and the relay as far as it reads (`Forward`, `RelayLeaves`). `missed` is history: what
was announced behind an end, or lost by lagging.

**OpenClaw.** A `send_message` goes through `enter`, then requests (`post`, `wait`, `told`): the session
first (`resolve`, `reset`), then the message (`send`). `Read` is the reader of the socket, `Map` and `Tell`
the event relay of the manager before and after the await in between, `Hear` the relay of the
conversation. The gateway (`Serve`, `Refuse`, `Speak`, `Foreign`) is external: it grants or refuses, and
a run ends once. `muted` and `adrift` are history: turns whose end nobody will tell, and a frame of
another session that came before a key was known.

**ChannelChat.** A call is a message on its way (look up the person, the pending codes, the session,
the conversation; subscribe; bind; relay) or a request of the owner. A session is numbered as it is
created; `owner` says for which session a conversation was made. `crossed` are persons of whom two
calls handled codes at once. **ChannelPlugins** keeps the row, the instance in the manager's map
(`active`) and the polling `loop`s, with the platform's queue of updates as `sent` and `confirmed`.

**Realtime.** `Publish` puts an event on the bus; `Forward` is one turn of the bridge task, `Lag` its
end; `Accept`, `Write`, `Ask`, `Hangup`, `Pong` a connection's two loops, `Tick` and `Beat` the
heartbeat (in both variants, for the application never starts it). Frames are kinds with a number.

**Accounts.** Secrets are numbered as they are made, a token has the number of the one that signed
it. `Change`, `Checked`, `StorePassword`, `Rotate`, `Persist` are the change of a password, a step
each; `Reset` and `UpdateJwtSecret` are the local requests; `Crash` and `Start` go through the resolution of
the secret. `astray` is history: the row of the system user need not have the secret in force. A start
and a lone change by the system user clear it.

**OfficeWatch.** A request is a start (`look`, `discard`, `spawn`, `install`, `again`, `poll`) or a
stop in its delay. `Kill` is the kill and the drop of a handle alike (`kill_on_drop`). A child binds
its port later (`Bind`), and whoever listens there satisfies the poll.

**TeamRoster.** A request is at `lock` (the lock for additions), `create` (a member's conversation),
`delete` (conversations), `write` (`update_team`, the whole column), `memory` (the session's
`TeammateManager`), `drop` (the team's row) or `insert` (a session starts with the members as read,
`seen`). `stale` says that the session a spawn came from is stopped: it tells that one, not the next.
`excused` is history: what has crossed without a lock, failed, or been cut off.

**Extensions.** `Toggle` changes the registry under its lock and `Set` the store after it; `Load`,
`SetAll`, `Commit` are the hot reload after its `onDeactivate` hooks, started by `Install` and
`Uninstall`; `WriterWakes`, `WriterSaves`, `WriterFails` the debounced writer; `Start`, `StartUnread`
and `Stop` the process. `wish` is history: how the user wants each extension switched.

**LoadOrder.** A step is a turn of one of the loops of `dependency.rs`: `Emit` is one round of Kahn's
algorithm, `Root` the loop of `find_cycles`, `Descend`, `Close` and `Pass` the three cases of a neighbour in
`dfs_find_cycles`, `Leave` its return, and `Finish` appends what is left. The recursion of the search
is its `path` with, for each extension on it, the neighbours still to follow (`rest`). What the manifests
declare (`needs`) is chosen at the start. The code computes all this in one call that nobody
observes; the steps are there to be reasoned about. What an extension requires through others (`Requires`)
is stated by the sets closed under need, which takes no recursion.

**McpSync.** A request writes its row (`Write`), then takes the lock of the sync (`Lock`) and goes
through the agents (`Look`, `Put`, `Fail`): `names` are the servers it has to do with, `target` and
`copy` what it puts into an agent, or takes out. A server is the form it is reached by, the end of its url
and what else it has (arguments, environment, headers). `Stored` is what the adapter of an agent makes of
it on the way in, `Shown` what it can tell of a copy on the way out, by the kind of adapter; an agent
whose copy looks right (`Looks`) is skipped and reported done. `doubt` is history: the copies of which a
request that met another, or failed with or without saying so, has left no promise.

## 3. Runs

| run | question | answer |
|---|---|---|
| `team_calm` | is a wake-up ever lost? does the leader hear when all have settled? | `NoStrandedMail`, `LeaderNotForgotten`, `WorkingIsBacked` hold |
| `team_faults` | what do a stop or a crash and one more fault break? | the loops implement `TeamMailbox`; a row is carried twice only for a fault (`RepeatsAreExcused`); a running row has a user turn, a relay or a loop about to send left to release it, but for those stranded on the claim itself (`RunningIsReleased`) |
| `team_members` | do add, spawn, remove, stop and ensure keep a loop for every slot? | `LiveHasLoop` holds, with up to two loops per slot alive |
| `team_delivery` | is the mailbox drained under fair scheduling? | `MailDrained` holds without faults |
| `turn` | claims, relays, deletes | `RunningIsBacked`, `ClaimIsHeld`, `RelayIsOwed`, `DeleteTearsDown` hold; `TurnIsReleased` holds for aionrs |
| `cron` | does a job die silently? does the guard stick? does a removed job return? | `EnabledIsArmed`, `BusyIsBacked`, `RemovedIsForgotten` hold |
| `board` | do concurrent calls lose a dependency, or leave one on a completed task? | `DependencyIsMutual`, `CompletedBlocksNobody` hold, with the exceptions below |
| `services` | of each service: does what is stored, kept or sent stay true to what was shown, decided or observed? | 19 properties hold, and the types of all thirteen: see the next table |
| `finding_crash_strands` | ensure_session drains mail "from a prior session or backend restart" | violated |
| `finding_idle_kill` | only agents that are "idle (finished + no activity)" are killed | violated for ACP |
| `finding_bridge` | "forward all broadcast events to connected WebSocket clients" | violated: a burst of more than the bus keeps ends the bridge |
| `finding_cron_binding` | "subsequent runs then reuse the same conversation" | violated |

The properties of `services`, by module:

| module | holds |
|---|---|
| `StreamRelay` | `KeepsTranscript`, `ReloadShowsTheSame` |
| `OfficeWatch` | `WatchersAreOwned` |
| `AcpSession`, `AcpPermissions` | `RowIsLastObserved`, `ObservedIsActual`; `AskIsHeard` |
| `ChannelChat` | `DecisionStands`, `SessionHasMember`, `ContextsAreSeparate` |
| `ChannelPlugins` | `NoUpdateLost`, `OffStaysOff` |
| `Realtime` | `LossIsFullQueue` |
| `Accounts` | `RestartKeepsSessions`, `LoggedOutStaysOut` |
| `TeamRoster` | `RosterAgrees` |
| `Extensions`, `LoadOrder` | `SwitchesAreKept`; `DependenciesLoadFirst` |
| `McpSync` | `CopiesFollowRows` |
| `OpenClaw` | `TurnHasItsEnd` |

The findings quote the comment and the code in `PROJECT.json`.

A run with deadlock checking off may really stop: its budgets of outside events are spent and
everybody waits for the next one.

## 4. Bounds, granularity, fairness

**Granularity.** A step is what a task does between two points where another can see it: one database
access, one message, or the synchronous code up to the next await. Two threads inside one synchronous
stretch are not interleaved (section 6, `schedule_job`).

**Budgets.** Every module counts what comes from outside (writes, edits, faults, crashes) in `used`
and admits it while some function of the set `Budgets` allows it. A run explores all the mixtures of
its set, e.g. "one write, a stop or a crash, and one fault of any kind", so that every pair of events
meets at every point, without the product of them all. The proofs hold for any `Budgets`.

| bound | run value | the code | why it is enough |
|---|---|---|---|
| team agents | leader and 2, or leader and 1 | any | "everybody settled" needs two teammates; the rest concerns one slot and the leader |
| `MaxLoops` | 1, or 2 with members | none | replacing a loop takes two; with no spawn there is one |
| team budgets | 1 or 2 rows, up to 2 faults | | a lost permit takes a row written while another is handled |
| turn `Calls`, `MaxSlots`, `MaxRounds` | 2, 2, 2 | any, any, 4 | a race takes two calls, a rebuild two slots, a continuation two rounds |
| cron `Ops` | 2 calls in flight, 1 job | any | jobs share nothing but conversations; every hazard listed is a pair of calls |
| cron budgets | an edit or a removal with any other call or a crash; run-nows, a delete with a crash, a resume with a crash | | pairs of calls, and a delete that the server does not live to finish |
| cron `MaxRetries` | 1 | 3 unless the row says otherwise | one retry shows both the retry and the skip |
| board `Tasks`, `Calls` | 3 tasks, 2 calls | any | a chain, a fork and a join all fit in three |
| relay `MaxEvents`, `Capacity`, `FlushInterval`, `MaxFaults` | 4, 2, 2, 1 | any, 128 or 256, 20, any | two flushes and an end; the third unread event is lost; each statement is the one that fails |
| previews `Documents`, `Requests`, `MaxRequests`, `MaxChildren` | 2, 2, 3, 3 | any | two starts that cross on a document whose child died, with another document beside |
| permissions `MaxAsks`, `MaxTurns`, `MaxStops`, `Room`, `Capacity` | 2, 2, 1, 1, 2 | any, any, any, 32, 256 | two requests on one call or on two, an end of the turn before, a stop between |
| chat `Codes`, `MaxRows`, budgets | 2 codes, 3 sessions, up to 3 messages, 2 calls at once | any | two messages and an owner's request cross; a renewal makes the second session |
| plugin `MaxUpdates`, `MaxLoops`, `MaxErrors` | 2, 2, 2 | any, any, 10 | a loop and its successor share a queue |
| bus `MaxEvents`, `BusSize`, `Buffer`, `MaxTicks` | 4, 2, 2, 3 | any, 256, 64, any | one event more than each keeps |
| accounts `MaxSecrets`, `MaxTokens`, budgets | 3, 3; besides the rest, a sign-in, a local request, a change and a crash | any | two changes of password, a token of each; a secret stored beside a change and a start |
| ACP `Modes`, `MaxSessions`, budgets | 2, 2, 2 agents in a row | any | an agent, its left-over consumer and the successor |
| roster `Names`, `MaxSlots`, `Calls` | 2, 3, 2 | any | two requests cross on two members; each sees the other's name taken or free |
| extensions `Exts`, `MaxVersion`, `Calls` | 1, 2, 2 | any | the store is kept by extension; a toggle meets a reload, a reload another |
| `LoadOrder` `Many` | 3, all 4096 sets of manifests | any | a chain, a fork or a join, a cycle of one, two or three with a dependent, a missing name |
| MCP `MaxRows`, `Names`, `Count`, `Calls`; `Transports`, `Adapter` | 2 of each; 3; Claude and Codex | any | two servers side by side, two agents of which one fails; http with and without headers and sse at one url, before an agent that is told headers and cannot show them and one that is not told |
| gateway `MaxTurns`, `Capacity`, budgets | 2, 2; a stop with a late answer or a break, a foreign event with a refusal, a kill | any, 256, any | what a turn leaves behind meets the next one |

Symmetry: the two teammates of `team_calm`, which start alike; task ids and connections in `board`.
Neither run checks liveness.

**Fairness.** Weak fairness of the steps of every task: tokio polls what is ready, the database
answers and an agent ends its prompt, with an outcome or an error. In TeamLoop also of `EnsureStep`:
the client (or `restore_all_sessions` at start) asks for a session when there is none. Nothing outside
is fair: no user, stop, kill, edit or crash ever has to happen. In CronJobs `Fire` is strongly fair:
the code's timers go off whatever else runs, while in the model a timer needs one of the `Ops` to be
free, an artefact of that bound.

## 5. Proofs

TLAPS proves, for any constants that satisfy the named assumptions (`TeamAssumption`,
`BoundAssumption`, `TurnAssumption`, `CronAssumption`, `BoardAssumption`, `RelayAssumption`,
`WatchAssumption`, and those of the services, which `AccessAssumption`, `AgentsAssumption` and
`CatalogAssumption` collect: sets that are disjoint, a leader who is a founder, bounds that are numbers,
a `None` that is nothing else), the `TypeOK` of each module named here and:

| theorem | says | argument |
|---|---|---|
| `TeamLoopProofs!RowsStayInHand` | `[]RowsInHand` | inductive with `TypeOK`: rows enter a batch only from the unread ones and are handed over before the mark |
| `TeamLoopProofs!LoopsImplementMailbox` | `Spec => MailboxSpec` | a refinement step by step, from `TypeOK` and `RowsInHand`: each step writes one row, hands over a batch, marks one, or stutters |
| `TeamLoopProofs!LiveSlotsHaveLoops` | `[]LiveHasLoop` | needs `SlotsInSession`: only a session that is up has slots, and a spawn under way loses its session by becoming `orphaned` |
| `TeamLoopProofs!RunningRowsAreReleased` | `[]RunningIsReleased` | inductive with `TypeOK`: a loop that has claimed its row is followed by a relay, which no abort reaches, and the last relay or user turn goes only where finished is written; between the claim and the relay an abort takes the release away (`ReleaseAborted`), and exactly these rows are `stranded` |
| `TeamLoopProofs!NoWakeupLost` | `Fixed => []NoStrandedMail` | `OneLoop`: a slot has one loop, registered and not detached; `Served`: it has a permit, or is on its way to read its mail, or all its mail is owed a signal by a writer that holds the session there is (`OldRows` keeps a new row apart from those of a stopped session) |
| `TeamLoopProofs!LeaderIsHeard` | `Fixed /\ Removable = {} => []LeaderNotForgotten` | `Awaited`: the leader is signalled, at work, or has read the notification, or a teammate is unsettled or between settling and its check (`Pending`); the check that is the last sees all settled |
| `TeamLoopProofs!WorkingStaysBacked` | `Fixed => []WorkingIsBacked` | `InlineApart`: an inline send of the session there is belongs to a slot that is gone, so only a slot's own loop writes Working |
| `TeamLoopProofs!RepeatsStayExcused` | `Fixed => []RepeatsAreExcused` | `Carried`: a row some turn has carried is read, excused, or in the batch of its slot's one loop, between the turn and the mark; so no peek takes it again |
| `AgentTurnProofs!RunningStaysBacked` | `[]RunningIsBacked` | the row turns running only in `Claim`, whose call stays active up to `Complete`, which writes finished |
| `AgentTurnProofs!ClaimStaysHeld` | `[]ClaimIsHeld` | needs `OneActive`: without a race or a reset at most one call is active, so nobody else's `Complete` can release the row |
| `AgentTurnProofs!RelayStaysOwed` | `[]RelayIsOwed` | `Owed`: while a relay listens its own prompt is still to open, or the status is Running and some prompt on that slot is outstanding. Needs `Placed`: a call that holds a slot holds a built one |
| `AgentTurnProofs!DeleteLeavesNoSlot` | `[]DeleteTearsDown` | `NobodyComes`: the check, the message's foreign key and the warmup all need the row, so who was not on the way when it went never is |
| `CronJobsProofs!NoSilentDeath` | `[]EnabledIsArmed` | `Armed`: an enabled job has a timer or a call in flight that owes it one (`Owes`); `SnapIsFresh`: what a call holds is the row's schedule unless an edit has overtaken it; `TimerIsFresh` likewise; `EditsCross`, `EditsOvertake`, `EditSees` tie the history variables to the calls |
| `CronJobsProofs!GuardComesDown` | `[]BusyIsBacked` | `CallsOK` (what a call holds at each step): the flag goes up with a step to `run`, and whichever run on the conversation ends first takes it down |
| `CronJobsProofs!ForgottenForGood` | a removed job without a timer and without a call on it stays so: `[](Forgotten(j) => []Forgotten(j))` | a timer is armed by a call on its job or by a restart that finds the row, and only a timer or a row begins a call; the safety half of `RemovedIsForgotten` |
| `TaskBoardProofs!NoEntryLost` | `[]DependencyIsMutual` | `CallsHold`: a call whose snapshot is not stale has seen the list as it is, so writing it back adds or takes one entry and loses none; a pair that begins to wait is listed first (`Keeps`) |
| `TaskBoardProofs!CompletionFrees` | `[]CompletedBlocksNobody` | `CompletingSees`: who completes a task has read all that wait for it but the late ones; with mutuality, each is crossed out or still pending |
| `ServicesProofs!Refines` | `Spec => KeepsTranscript` | a refinement: each step of the relay is a step of `Transcript` or changes nothing of it (`Simulates`, `Unseen`). Needs `Counted` (the buffer is what the client saw, the row is at most `FlushInterval` behind it), `Follows` (where the program counter is, what was written before) and `Standing` (after a fault nothing of this is claimed) |
| `ServicesProofs!ReloadIsFaithful` | `[]ReloadShowsTheSame` | `Fresh`: a tool call found is the row as it is; `ToolsFollow`: row, in column and content, and channel lead to what was heard (`Recorded`); `EndFollows`: what each step after the end has left to write |
| `ServicesProofs!NoneLeftBehind` | `[]WatchersAreOwned` | `SessionsApart`, `StartsApart`, `HandlesApart`: nobody but its one owner names a child, dead or alive, so that whatever is killed is the killer's own; `Covered`: each step that takes a name away kills the child |
| `AccessProofs!UpdatesAreHandedOn` | `[]NoUpdateLost` | of every loop: what lies between the offset that is confirmed and what it reads next was handed on (`Reads`, `HandsOver`), for a loop confirms only with the poll that follows |
| `AccessProofs!StaysOff` | `[]OffStaysOff` | a loop the manager does not hold was told to stop, or its request is still at work (`PluginHeld`, `Patient`, `Stages`) |
| `AccessProofs!OnlyFullQueuesLose` | `[]LossIsFullQueue` | `Sound`, of every connection: what was written, what waits and what was dropped are together what was forwarded since it registered, in order; proved for sequences of any length |
| `AccessProofs!LogoutIsKept` | `[]LoggedOutStaysOut` | a token logged out is on the blacklist, or the secret that signed it was replaced, and no secret comes back |
| `AccessProofs!SecretIsKept` | `[]RestartKeepsSessions` | `Persists`: until the row has gone astray, the system user's row has the secret in force, or the one change there is, the system user's own, is about to store it; a start and such a change bring this back |
| `AccessProofs!SessionsHaveMembers` | `[]SessionHasMember` | what a message carries from one statement to the next is still there when it writes, or the insert fails |
| `AccessProofs!ContextsStaySeparate` | `[]ContextsAreSeparate` | conversations are numbered without gaps, so that a new one is nobody's; who binds one made it for that session |
| `AccessProofs!DecisionsStand` | `DecisionStands`, an action property | two calls deal with the codes of one person only if that was noticed (`crossed`), so that nobody writes over a decision it has not read |
| `AgentsProofs!RowFollowsAgent` | `[]RowIsLastObserved` | the row as it will be once the channel and the hands of the consumer are empty is what was observed last; the last announcement of a queue is found by well-foundedness of its places |
| `AgentsProofs!ObservedIsTrue` | `[]ObservedIsActual` | what is taken for observed is where the command-line agent is once its announcements, and the one answered request, have come in |
| `AgentsProofs!QuestionsAreHeard` | `[]AskIsHeard` | a question that waits stands in one place: the channel, the router's hands, or announced before an end nobody has read (`Telling`, `EndsCut`) |
| `AgentsProofs!TurnsHaveEnds` | `[]TurnHasItsEnd` | `Calm`: each message is sent once and starts one run (`Requested`), whose end is in one place until it is told (`Single`), comes or will come to whom waits (`Owed`), and is told to its own turn (`Ended`); a second turn meets an agent that has finished (`Numbered`), so failures and stops end the first turn only |
| `CatalogProofs!RosterStaysAgreed` | `[]RosterAgrees` | row, conversations and memory differ by what the requests under way are about to do: one at a time is between reading the row and writing it, and who has written still has to tell the memory |
| `CatalogProofs!CopiesFollow` | `[]CopiesFollowRows` | a copy is what the adapter makes of its row or looks like the row to it, or a clean request is still to come to that agent, or the copy is in doubt; a clean request knows its row, and an unclean one has put its names in doubt |
| `CatalogProofs!SwitchesStayKept` | `[]SwitchesAreKept` | the registry is as the user wants it unless a reload is about to commit what it read, the store but for the one toggle of an extension under way, and the file but for what the writer is still to save |
| `CatalogProofs!LoadsInOrder` | `[]DependenciesLoadFirst` | of the sort: the in-degree is what is still to be emitted of an extension's needs, the queue holds those at zero, and who is emitted comes after what it needs (`SortedBy`). Of the search: each on the path requires all later ones (`Walked`), so what closes on the path is a cycle (`Rings`); a neighbour that was followed was left before, is further up the path or closed a cycle (`Pursued`), so when an extension is left its knot has one reported (`KnotsFound`, `Leaving`). That some of those left over require themselves (`Knot`) is by well-foundedness of strict inclusion: take who requires the least set of the others |
| `AccessProofs!AccessTyped`, `AgentsProofs!AgentsTyped`, `CatalogProofs!CatalogTyped` | the types of each group | with the above: each conjunct is part of its service's invariant |
| `ServicesProofs!SystemImplements` | `SystemSpec => AccessSpec /\ AgentsSpec /\ CatalogSpec /\ Spec /\ WatchSpec` | each disjunct of `SystemNext` is a step of one and leaves the variables of the others alone |
| `ServicesProofs!ServicesTyped` | `[]ServicesTypeOK` | from `SystemImplements` and the types of each group, of the relay and of the previews |

`TypeOK` of the modules with a proof module of their own is proved and not repeated by their runs;
`services` checks those of all its modules (`ServicesTypeOK`). `IInv` of each proof module, with the name of
its service before it where there are several, is the conjunction of these parts. The invariants are not inductive alone:
`EnabledIsArmed`, for one, speaks of jobs no call is working on, and its proof must say what the
calls working on a job owe to it. Every `IInv` was checked by TLC before it was proved.

In a group each service is proved by itself, from its own `Init` and `Next`; a lemma `...Implemented`
says that the group implements it (a step of the group is a step of the service or changes none of its
variables), and the theorem carries the invariant over to the group.

The proofs have changed the models where TLC could not see. `McpSync` took the number of an added
server from the rows there are, so that a number could come back after a delete; `made` counts
them now, as the random ids of the code never repeat. `AcpAssumption` and `GatewayAssumption` ask that the missing
value is no record of the model (an agent, a request, a frame), which any model value satisfies, and an
abort to the gateway has a type of its own, for only it belongs to no turn. `LoadOrder` was recursive operators
without steps, which no prover reaches; as a state machine its sort and its search have invariants.

`Fixed` is `Added = {} /\ Spawned = {}`: no slot joins a running team. Four theorems need it because
the code does not keep their property without it: a slot added over HTTP gets a loop nobody signals
(`service.rs:480`), and a second `spawn` leaves two loops reading one mailbox. Removals, stops,
crashes and failures of any number are within `Fixed`; only `LeaderIsHeard` excludes removals, since
removing the last working teammate signals nobody (`session.rs:590`).

Only model-checked: liveness (`MailDrained`, `TurnIsReleased`, `RemovedIsForgotten`), which TLAPS
does not reach, though `ForgottenForGood` leaves of the last only that the calls on a removed job end
and leave no timer. Every invariant and every action property that a run checks has its theorem.

## 6. Where the code falls short

Disagreements between a comment and the code are the four `finding_*` runs:

* *Crash strands* (`service.rs:669`). The status column says running after a crash in a turn, nothing
  resets it, and the loops give up at the guard for good.
* *Idle kill* (`task_manager.rs:174`). From an ACP agent's second prompt on its status is Finished all
  along, so the scanner may kill an agent at work.
* *Cron binding* (`cron/service.rs:571`). Two overlapping first runs bind the job twice.
* *Bridge* (`app/router/routes.rs:49`). The loop ends on any error, a lag among them, and no client
  hears of anything until the server restarts.

More of the kind, each violated by TLC in the model when it is given as an invariant, but without a
listed run; the definitions stand at the end of their modules:

* *Role prompt* (`session.rs:194`, "true until the first wake completes", `scheduler/mod.rs:108`). A new
  session signals every loop; the first wake takes the flag even with nothing to send.
* *Kill unheard* (`manager/acp/agent.rs:593`). With the status Finished all along, a kill emits nothing.
* `KeysStayReadable` (`app/config.rs:45`, `provider.rs:113`). The key for stored API keys comes from the
  secret of the start; after a change of password and a restart they can no longer be read.
* `NewIdIsStored` (`agent_session_flow.rs:60`). The id a resumed session is given is not stored: the
  aggregate takes the first id only (`session.rs:115`).
* `ObservedIsGroundTruth` (`acp/session.rs:20`). What was stored counts as observed before the agent
  was heard.
* `TestLeavesNoLoop` (`channel/manager.rs:267`). A credential test starts the polling loop and drops the
  instance; the loop polls on and swallows updates (excepted in `NoUpdateLost`).
* `OneSessionPerChat` (`sqlite_channel.rs:220`, `session.rs:12`). Two first messages that cross make two.
* `RelayIsInTime` (`message_service.rs:84-89`, "no race condition"). The relay of a chat subscribes after the
  turn was started; a turn that has ended by then is not heard, and the relay waits on.
* `DroppedIsClosed` (`realtime/manager.rs:135`). A client dropped for silence keeps its socket; besides,
  nobody calls `start_heartbeat`.
* `closing` (`permission_router.rs:13-17`, "prevents new requests from being routed"). It is set and
  never read; what stops the routing is that the process dies.

Others contradict no document, so no run claims them; the properties except them by name, and the
exception shows exactly how far the promise goes:

* a permission announced to a relay that has read its end is seen by nobody, and frees the agent only
  with the next stop (`missed`); a client that reloads cannot see what is pending, as ACP lists no
  confirmations (`agent_task.rs:269`);
* a row whose insert failed counts as created (`stream_relay.rs:251`): the text is lost, and only the
  log says so; a short answer that is empty once cleaned stays on the client and is nowhere stored; a
  tool call completed and then updated without a status is at work again by the column of its row and
  completed by its content (`stream_relay.rs:407`, `:483-487`); a call whose start was lost to a lag has no
  row, though the client was sent its updates;
* two calls that handle one person's pairing codes at once may leave two pending, or undo a decision
  (`crossed`); a revoked person's message on its way makes no session, for the insert checks the user;
* requests to enable and disable that cross may leave a loop behind (`crossed` in ChannelPlugins);
* the secret in force and the one the next start reads part ways, and the start signs everybody out, when a
  user other than the system's changes the password, when two changes cross, when the local
  `POST /api/auth/internal/users/{id}/jwt-secret` (`auth/routes.rs:398`) stores a secret for the system user,
  which the running server does not take up (`astray`), and when the server dies between the rotation and
  its storing (`auth/routes.rs:474-486`);
* an ACP agent rebuilt at once may read the row before the consumer of its predecessor has written it
  (`lost`), and two changes of mode at once may leave the aggregate wrong (`crossed`);
* of the members of a team: `remove_agent` and `rename_agent` take no lock, so a change they cross is
  lost (`service.rs:486`, `:526`); a session starts with the members as read before the agents were
  rebuilt; a member spawned by a session that has stopped meanwhile is told to that session only; a
  renaming is checked once more in memory, and its refusal there is ignored (`excused`);
* of extensions: nothing flushes the store at the end, so the switches of the last half second are
  lost; a toggle during the hooks of a reload is undone by it (`crossed`); a write that failed is tried
  again only with the next change; a state file that could not be read at the start is overwritten,
  empty, after the next install, for the registry knows no directories; the application starts no
  `ExtensionWatcher`. What is left over by `compute_topological_order` is said to be "part of cycles"
  (`dependency.rs:46`), but who merely needs a cycle is left over too, and may load before what it
  needs (excepted in `DependenciesLoadFirst`);
* of MCP servers: a sync does not ask whether the server is still on, so two toggles that cross may
  leave one that is off in the agents; the edit of a server that is on is not sent to them, and an
  import over one turns its row off and leaves the copies (`doubt`); `update` writes the whole row and
  loses the edit it crosses. An agent is skipped, and reported done, when what its adapter detects is what
  the row says (`sync_service.rs:206`), and the lists it reads leave out headers and environment: a server
  that loses either keeps the old copy in Claude and Qwen, and one that turns from sse to http at the same url in
  Claude, where the form is guessed. Gemini is told neither environment nor headers, Codex no
  headers, whatever the row says, and `run_cli` asks for no exit status, so that a failed install is
  reported done (`cli_helpers.rs:55`);
* two starts of one preview spawn two processes, and the answer of the earlier names a port whose
  process the later one ends; a stop waits half a second and ends whatever preview is there by then; a
  start may be satisfied by another program on its port (`watch_manager.rs:152`), and a session whose
  process died keeps its port until the next start;
* the status is checked before it is claimed, in `send_message` and in the event loop: two turns may
  race (`raced` in `ClaimIsHeld`), and a user turn makes a loop give up a batch until the next signal
  (`skipped` in `NoStrandedMail`);
* an error status written after a failed turn is overwritten by the idle one (`event_loop.rs:282/296`),
  and after a failure the rows are marked read like any others (`event_loop.rs:266`);
* the relay of one turn may write finished during the next (`event_loop.rs:214/223`);
* the claim of a row and the relay or task that will release it are separated by the await of the write:
  an abort of the loop (`event_loop.rs:221`, `:65-79`), or a client that goes away (`service.rs:1061`,
  `:1079`), may fall there with the row written. It stays running with nobody to finish it, and the loops
  of the next session give up on it as after a crash (`stranded`; AgentTurn takes the claim and the spawn
  of a user turn for one step);
* removing the last working teammate wakes nobody (`session.rs:590`), and a slot just added may miss
  what was written before its loop was registered (`service.rs:480`);
* a call that a delete overtakes builds an agent no conversation owns (`late` in `DeleteTearsDown`);
* a stop lets an ACP prompt finish later, and its Finish may end the relay of the next turn;
* of OpenClaw agents: no turn resets the status, and Finished absorbs, so from the second turn on a
  message that cannot be sent is told to nobody and a stop has no fallback, and the turn waits for ever
  (`agent/mod.rs:405`, `agent_runtime.rs:87`); what has finished once is silent, which is also all that
  keeps a late fallback out of the next turn. The channel of events lives as long as the manager, so
  when the socket breaks there is no "transition to Finished if still Running" (`agent/mod.rs:226`) and a running
  turn has no end (`muted`). Until a key is known, frames of other sessions pass, may end the turn and
  give the conversation their key (`event_mapper.rs:300`, `adrift`). With a stored key the conversation
  counts as begun, so the key is never resolved (`agent/mod.rs:173`);
* nobody calls `RemoteAgentManager::connect` or `NanobotAgentManager::start_relay`: turns with remote
  and nanobot agents hear no end at all;
* two cron edits that cross may leave an enabled job without a timer (`crossed`), an edit during a
  tick leaves the old schedule armed (`overtaken`); the busy guard is checked at the start of a tick
  and set much later; `schedule_job` cancels and inserts in two steps of a concurrent map;
* on the task board, a transaction that fails leaves a dependency on one side (`cut`); a task linked
  to one that is completed waits for ever (`late`), as does one that waits for a deleted task; an
  update of `blocked_by` leaves the other side alone and takes unknown ids.

## 7. Not modelled

* Inside the modelled parts: the text of messages and prompts; artifacts and skills; the recovery entry
  points of the scheduler no production code calls (`handle_agent_crash`,
  `handle_inactivity_timeout`, `on_agent_finish`, `arm_wake_timeout`); the managers nanobot and
  remote, which nobody connects (section 6), and the inline confirmations of openclaw; cron jobs with an empty expression, and the addition
  of a job (a job is there from the start); failures of single statements, but in StreamRelay and
  where a step of its own (`MarkFails`, `Busy`) says so; the platforms other than Telegram, the buttons
  and the throttled edits of a chat; the rate limiter, cookies and CSRF; what extensions contribute, the index of
  the hub and the hooks' own effects; the OAuth login and the test of a connection of MCP servers; the
  proxy to the previews, which
  only asks whether some session has the port, and the snapshots of documents.
* Whether the ACP library runs the handlers of an agent's requests side by side or one at a time;
  AcpPermissions lets them run side by side, which includes the other.
* Composition of the services: `MCServices` runs them one at a time, because no state is shared.
* Pure I/O (files, child processes, HTTP, the MCP and ACP wire protocols), cryptography, configuration
  and data without control (`system`, `assistant`, `shell`, `runtime`, `assets`, `api-types`,
  `common`, `app`).
* Time. Timers may fire at any moment; time-outs are outcomes.

## 8. Plan

1. An abstract turn gate (free, claimed, released) implemented by `AgentTurn` and used by `TeamLoop`,
   `CronJobs` and `ChannelChat`, so that their reduced turns are justified by a refinement.
2. Proofs: the turn gate of 1, once it is there, and with it the refinement by `AgentTurn`.
3. The OAuth login of MCP servers with its one pending flow; the windows of the rate limiter and the
   clean-up that drops them; the cancellation of an archive in `aionui-file`.

Small new modules share runs: an instance may carry several components side by side, and
`team_delivery` can take over `team_calm`'s invariants as their state spaces allow.
