--------------------------- MODULE ChannelPlugins ---------------------------
(***************************************************************************)
(* The connection to one messaging platform: its row, the plugin instance  *)
(* the manager holds, and the polling loops that instances have started.   *)
(*                                                                         *)
(* aionui-channel: manager.rs, plugins/telegram/plugin.rs; aionui-db:      *)
(* repository/sqlite_channel.rs.  The platform's queue of updates is       *)
(* external: a reader confirms what lies below its offset and is given the *)
(* rest, so an update that was handled but not confirmed comes again.      *)
(*                                                                         *)
(* The manager keeps no lock: requests to enable, disable and test one     *)
(* plugin run side by side.  A loop outlives the instance that started it  *)
(* unless it is told to stop.                                              *)
(***************************************************************************)
EXTENDS Naturals, Sequences, FiniteSets

CONSTANTS
  MaxUpdates,      \* bound: messages people send
  MaxLoops,        \* bound: polling loops ever started
  Calls,           \* bound: requests in flight at once
  MaxErrors,       \* TELEGRAM_MAX_RECONNECT_ATTEMPTS, lowered
  None,
  Budgets          \* bound: how often each kind of event may come

Kinds == {"enable", "disable", "test", "error", "crash"}

VARIABLES
  row,             \* the row of assistant_plugins
  active,          \* the loop of the instance in the manager's map
  loop,            \* the polling loops, in the order they were started
  call,            \* the requests in flight
  sent,            \* updates the platform has queued so far
  confirmed,       \* those it has forgotten: a prefix
  arrived,         \* updates the orchestrator has been handed
  up,              \* the server runs; restore_plugins comes with the start
  used,            \* events so far
  crossed          \* two requests have been in flight at once

vars == <<row, active, loop, call, sent, confirmed, arrived, up, used, crossed>>

Updates == 1 .. MaxUpdates
Loops == 1 .. MaxLoops

Row == [enabled : BOOLEAN, status : {"created", "running", "error", "stopped"}]

\* owned: somebody holds the sender of the shutdown signal; stop: it was sent;
\* test: what it reads goes to the throwaway channel of test_plugin.
LoopState ==
  [pc : {"check", "fetch", "handle", "backoff", "gone"}, offset : Nat, batch : Seq(Updates),
   errors : 0 .. MaxErrors, owned : BOOLEAN, stop : BOOLEAN, test : BOOLEAN]

CallState ==
  [kind : {"enable", "disable", "test", "restore"},
   pc : {"stopping", "write", "connect", "record"}, loop : Loops \cup {None}]

PluginAssumption ==
  /\ MaxUpdates \in Nat /\ MaxLoops \in Nat /\ MaxErrors \in Nat \ {0}
  /\ None \notin Nat /\ None \notin Row /\ None \notin LoopState /\ None \notin CallState
  /\ Budgets \subseteq [Kinds -> Nat]

Init ==
  /\ row = None /\ active = None
  /\ loop = [l \in Loops |-> None]
  /\ call = [c \in Calls |-> None]
  /\ sent = 0 /\ confirmed = 0 /\ arrived = {}
  /\ up = TRUE /\ used = [k \in Kinds |-> 0] /\ crossed = FALSE

-----------------------------------------------------------------------------
(* Helpers *)

Spend(kind) ==
  /\ used' = [used EXCEPT ![kind] = @ + 1]
  /\ \E limit \in Budgets : \A k \in Kinds : used'[k] <= limit[k]

At(c, step) == call[c] # None /\ call[c].pc = step

Goto(c, step) == call' = [call EXCEPT ![c].pc = step]
Over(c) == call' = [call EXCEPT ![c] = None]

Started == Cardinality({l \in Loops : loop[l] # None})

\* initialize spawns the polling loop.
StartLoop(test) ==
  /\ Started < MaxLoops
  /\ loop' = [loop EXCEPT ![Started + 1] =
                [pc |-> "check", offset |-> 0, batch |-> <<>>, errors |-> 0,
                 owned |-> ~test, stop |-> FALSE, test |-> test]]

\* An instance is taken out of the map and told to stop.
TakeOut(c, kind) ==
  /\ active' = None
  /\ loop' = IF active = None THEN loop ELSE [loop EXCEPT ![active].stop = TRUE]
  /\ call' = [call EXCEPT ![c] = [kind |-> kind, loop |-> active,
                                  pc |-> IF active = None THEN "write" ELSE "stopping"]]
  /\ crossed' = (crossed \/ \E d \in Calls : call[d] # None)

-----------------------------------------------------------------------------
(* The manager: ChannelManager *)

\* enable_plugin stops the instance there is; disable_plugin as well.
Enable(c) ==
  /\ up /\ call[c] = None /\ Spend("enable")
  /\ TakeOut(c, "enable")
  /\ UNCHANGED <<row, sent, confirmed, arrived, up>>

Disable(c) ==
  /\ up /\ call[c] = None /\ Spend("disable")
  /\ TakeOut(c, "disable")
  /\ UNCHANGED <<row, sent, confirmed, arrived, up>>

\* stop waits for the loop, but no longer than five seconds.
Stopped(c) ==
  /\ At(c, "stopping")
  /\ Goto(c, "write")
  /\ UNCHANGED <<row, active, loop, sent, confirmed, arrived, up, used, crossed>>

\* enable_plugin stores the row as created and enabled.
Upsert(c) ==
  /\ At(c, "write") /\ call[c].kind = "enable"
  /\ row' = [enabled |-> TRUE, status |-> "created"]
  /\ Goto(c, "connect")
  /\ UNCHANGED <<active, loop, sent, confirmed, arrived, up, used, crossed>>

\* disable_plugin updates the row; one that is not there is an error.
SwitchOff(c) ==
  /\ At(c, "write") /\ call[c].kind = "disable"
  /\ row' = IF row = None THEN None ELSE [enabled |-> FALSE, status |-> "stopped"]
  /\ Over(c)
  /\ UNCHANGED <<active, loop, sent, confirmed, arrived, up, used, crossed>>

\* initialize checks the token with the platform and starts the loop.
Connect(c) ==
  /\ At(c, "connect") /\ call[c].kind # "test"
  /\ StartLoop(FALSE)
  /\ call' = [call EXCEPT ![c].pc = "record", ![c].loop = Started + 1]
  /\ UNCHANGED <<row, active, sent, confirmed, arrived, up, used, crossed>>

\* ... or fails: update_plugin_error.
ConnectFails(c) ==
  /\ At(c, "connect") /\ call[c].kind # "test" /\ Spend("error")
  /\ row' = IF row = None THEN None ELSE [row EXCEPT !.status = "error"]
  /\ Over(c)
  /\ UNCHANGED <<active, loop, sent, confirmed, arrived, up, crossed>>

\* The row says running and the instance goes into the map; one that is there
\* is dropped, and nobody can tell its loop to stop.
Record(c) ==
  /\ At(c, "record")
  /\ row' = IF row = None THEN None ELSE [row EXCEPT !.status = "running"]
  /\ active' = call[c].loop
  /\ loop' = IF active = None THEN loop ELSE [loop EXCEPT ![active].owned = FALSE]
  /\ Over(c)
  /\ UNCHANGED <<sent, confirmed, arrived, up, used, crossed>>

\* test_plugin initializes an instance of its own and drops it.
Test(c) ==
  /\ up /\ call[c] = None /\ Spend("test")
  /\ call' = [call EXCEPT ![c] = [kind |-> "test", pc |-> "connect", loop |-> None]]
  /\ UNCHANGED <<row, active, loop, sent, confirmed, arrived, up, crossed>>

Tested(c) ==
  /\ At(c, "connect") /\ call[c].kind = "test"
  /\ StartLoop(TRUE)
  /\ Over(c)
  /\ UNCHANGED <<row, active, sent, confirmed, arrived, up, used, crossed>>

\* The server dies: rows and the platform remain.
Crash ==
  /\ up /\ Spend("crash")
  /\ up' = FALSE /\ active' = None
  /\ loop' = [l \in Loops |-> IF loop[l] = None THEN None ELSE [loop[l] EXCEPT !.pc = "gone"]]
  /\ call' = [c \in Calls |-> None]
  /\ UNCHANGED <<row, sent, confirmed, arrived, crossed>>

\* Mutant of Restart: restore_plugins starts all there are.
RestartAll(c) ==
  /\ ~up /\ up' = TRUE
  /\ call' = IF row # None
             THEN [call EXCEPT ![c] = [kind |-> "restore", pc |-> "connect", loop |-> None]]
             ELSE call
  /\ UNCHANGED <<row, active, loop, sent, confirmed, arrived, used, crossed>>

\* The start runs restore_plugins on a task of its own: enabled plugins only.
Restart(c) ==
  /\ ~up /\ up' = TRUE
  /\ call' = IF row # None /\ row.enabled
             THEN [call EXCEPT ![c] = [kind |-> "restore", pc |-> "connect", loop |-> None]]
             ELSE call
  /\ UNCHANGED <<row, active, loop, sent, confirmed, arrived, used, crossed>>

-----------------------------------------------------------------------------
(* The loops: poll_loop *)

In(l, step) == loop[l] # None /\ loop[l].pc = step

still == <<row, active, call, sent, up, crossed>>

Check(l) ==
  /\ In(l, "check")
  /\ loop' = [loop EXCEPT ![l].pc = IF loop[l].stop THEN "gone" ELSE "fetch"]
  /\ UNCHANGED <<still, confirmed, arrived, used>>

\* Mutant of Fetch: what it returns is confirmed at once.
FetchAndConfirm(l) ==
  LET from == IF loop[l].offset > confirmed THEN loop[l].offset ELSE confirmed + 1 IN
  /\ In(l, "fetch")
  /\ confirmed' = sent
  /\ loop' = [loop EXCEPT ![l].errors = 0, ![l].batch = [i \in 1 .. (sent + 1 - from) |-> from + i - 1],
                          ![l].pc = "handle"]
  /\ UNCHANGED <<still, arrived, used>>

\* getUpdates: the platform forgets what is below the offset and returns what
\* is left, or nothing after a while.
Fetch(l) ==
  LET below == IF loop[l].offset = 0 THEN 0 ELSE loop[l].offset - 1
      done == IF below > confirmed THEN below ELSE confirmed IN
  /\ In(l, "fetch")
  /\ confirmed' = done
  /\ loop' = [loop EXCEPT ![l].errors = 0, ![l].pc = "handle",
                          ![l].batch = [i \in 1 .. (sent - done) |-> done + i]]
  /\ UNCHANGED <<still, arrived, used>>

\* It fails: too often, and the loop gives up; the row keeps saying running.
FetchFails(l) ==
  /\ In(l, "fetch") /\ Spend("error")
  /\ loop' = [loop EXCEPT ![l].errors = @ + 1,
                          ![l].pc = IF loop[l].errors + 1 >= MaxErrors THEN "gone" ELSE "backoff"]
  /\ UNCHANGED <<still, confirmed, arrived>>

\* The wait is cut short by the signal, or by the loss of its sender.
Backoff(l) ==
  /\ In(l, "backoff")
  /\ loop' = [loop EXCEPT ![l].pc = IF loop[l].stop \/ ~loop[l].owned THEN "gone" ELSE "check"]
  /\ UNCHANGED <<still, confirmed, arrived, used>>

\* One update after the other goes to the orchestrator, or nowhere; the signal
\* is not looked at before the batch is done.
Handle(l) ==
  /\ In(l, "handle")
  /\ IF loop[l].batch = <<>>
     THEN loop' = [loop EXCEPT ![l].pc = "check"] /\ UNCHANGED arrived
     ELSE LET n == Head(loop[l].batch) IN
          /\ loop' = [loop EXCEPT ![l].batch = Tail(@), ![l].offset = n + 1]
          /\ arrived' = IF loop[l].test THEN arrived ELSE arrived \cup {n}
  /\ UNCHANGED <<still, confirmed, used>>

\* External: somebody writes to the bot.
Write ==
  /\ sent < MaxUpdates /\ sent' = sent + 1
  /\ UNCHANGED <<row, active, loop, call, confirmed, arrived, up, used, crossed>>

-----------------------------------------------------------------------------

Next ==
  \/ \E c \in Calls :
       \/ Enable(c) \/ Disable(c) \/ Stopped(c) \/ Upsert(c) \/ SwitchOff(c)
       \/ Connect(c) \/ ConnectFails(c) \/ Record(c) \/ Test(c) \/ Tested(c) \/ Restart(c)
  \/ Crash \/ Write
  \/ \E l \in Loops : Check(l) \/ Fetch(l) \/ FetchFails(l) \/ Backoff(l) \/ Handle(l)

Spec == Init /\ [][Next]_vars

-----------------------------------------------------------------------------
(* Properties *)

TypeOK ==
  /\ row \in Row \cup {None} /\ active \in Loops \cup {None}
  /\ loop \in [Loops -> LoopState \cup {None}]
  /\ call \in [Calls -> CallState \cup {None}]
  /\ sent \in 0 .. MaxUpdates /\ confirmed \in 0 .. sent /\ arrived \subseteq 1 .. sent
  /\ up \in BOOLEAN /\ used \in [Kinds -> Nat] /\ crossed \in BOOLEAN

\* An update that the platform has forgotten has reached the orchestrator,
\* whatever stopped, failed or crashed in between: poll_loop moves its offset
\* only past what it has handed over.  A credential test breaks it.
NoUpdateLost ==
  used["test"] = 0 => 1 .. confirmed \subseteq arrived

\* A plugin that is switched off stays off, across errors and restarts: what
\* the manager holds is enabled, and its loop alone goes on without a signal,
\* unless requests crossed.
OffStaysOff ==
  \A l \in Loops :
    /\ ~crossed /\ loop[l] # None /\ loop[l].pc # "gone" /\ ~loop[l].stop /\ ~loop[l].test
    /\ \A c \in Calls : call[c] = None
    => active = l /\ row.enabled

-----------------------------------------------------------------------------
(* What the documents say and the code does not do *)

\* "Clean up -- don't leave a started connection" (test_plugin).
TestLeavesNoLoop ==
  \A l \in Loops : loop[l] # None /\ loop[l].test => loop[l].pc = "gone"
=============================================================================
