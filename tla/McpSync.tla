------------------------------- MODULE McpSync -------------------------------
(***************************************************************************)
(* The MCP servers of the user and their copies in the agents' own         *)
(* configurations.                                                         *)
(*                                                                         *)
(* aionui-mcp: routes.rs, service.rs, sync_service.rs, adapters; aionui-   *)
(* db: repository/sqlite_mcp_server.rs.  A request reads the row of a      *)
(* server and writes it back whole.  Switching a server on copies it to    *)
(* every agent, switching it off or deleting it removes the copies; one    *)
(* lock is held through all agents.  The configuration of an agent is a    *)
(* file that is read, changed and written, by the adapter or by the        *)
(* agent's own program; neither what an adapter installs nor what it can   *)
(* detect need be all of a server.                                         *)
(*                                                                         *)
(* The agents are those whose program is installed; AionUi's own adapter   *)
(* keeps no copy and is left out.  A request carries one server where the  *)
(* routes take a list.  An update reads the row again just before it       *)
(* writes it: the two reads are one step.                                  *)
(***************************************************************************)
EXTENDS Naturals, FiniteSets

CONSTANTS
  Names,           \* what servers are called
  MaxRows,         \* bound: rows ever
  Transports,      \* what servers are reached by
  Count,           \* bound: adapters, in their order
  Adapter,         \* the kind of each
  Calls,           \* bound: requests in flight at once
  None,
  Budgets          \* bound: how often each kind of event may come

Kinds == {"toggle", "delete", "edit", "add", "import", "sync", "remove", "fail", "crash"}

VARIABLES
  rows,            \* the table mcp_servers
  made,            \* ids handed out
  config,          \* by agent: the servers in its configuration
  holder,          \* who holds service_lock
  call, used,
  doubt            \* history: the copies that need not follow the row

vars == <<rows, made, config, holder, call, used, doubt>>

Ids == 1 .. MaxRows
Agents == 1 .. Count
Row == [name : Names, enabled : BOOLEAN, transport : Transports]

\* What a server is reached by: its url may end in "/sse", and it may have
\* arguments, words of its command for arguments, an environment, headers.
Transport ==
  [form : {"stdio", "sse", "http"}, tail : {"sse", "other"},
   more : SUBSET {"args", "words", "env", "headers"}]
AdapterKinds == {"claude", "gemini", "qwen", "codex", "file"}
Config == [Names -> Transport \cup {None}]

\* old, new: the row as read and as it is to be written, None for no row;
\* target, copy: what the agents get, None to remove it; seen: a configuration
\* as read; clean: no other request had to do with the same server.
CallState ==
  [kind : Kinds, id : Ids \cup {None}, names : SUBSET Names, old : Row \cup {None},
   new : Row \cup {None}, pc : {"write", "lock", "look", "put"}, target : Names \cup {None},
   copy : Transports \cup {None}, agent : Agents, seen : Config, clean : BOOLEAN]

McpAssumption ==
  /\ Count \in Nat \ {0} /\ MaxRows \in Nat
  /\ Transports \subseteq Transport /\ Adapter \in [Agents -> AdapterKinds]
  /\ None \notin Ids /\ None \notin Names /\ None \notin Transport /\ None \notin Calls
  /\ None \notin Row /\ None \notin CallState
  /\ Budgets \subseteq [Kinds -> Nat]

Blank == [n \in Names |-> None]

Init ==
  /\ rows = [i \in Ids |-> None] /\ made = 0 /\ config = [a \in Agents |-> Blank]
  /\ holder = None /\ call = [c \in Calls |-> None] /\ used = [k \in Kinds |-> 0]
  /\ doubt = {}

-----------------------------------------------------------------------------
(* Helpers *)

Spend(kind) ==
  /\ used' = [used EXCEPT ![kind] = @ + 1]
  /\ \E limit \in Budgets : \A k \in Kinds : used'[k] <= limit[k]

table == <<rows, made>>
At(c, step) == call[c] # None /\ call[c].pc = step
Named(n) == {i \in Ids : rows[i] # None /\ rows[i].name = n}
Enabled(n) == {i \in Named(n) : rows[i].enabled}

\* A request comes; what has to do with the same server makes it and the other
\* one unclean.
Begin(c, kind, i, old, new, step, odd) ==
  LET names == {r.name : r \in {old, new} \ {None}}
      meets(d) == /\ call[d] # None
                  /\ call[d].names \cap names # {} \/ (call[d].id = i /\ i # None)
      others == {d \in Calls : meets(d)}
      doubtful == (UNION {call[d].names : d \in others}) \cup
                  (IF odd \/ others # {} THEN names ELSE {})
      record == [kind |-> kind, id |-> i, names |-> names, old |-> old, new |-> new, pc |-> step,
                 target |-> None, copy |-> None, agent |-> 1, seen |-> Blank,
                 clean |-> ~odd /\ others = {}]
  IN /\ call[c] = None /\ Spend(kind)
     /\ call' = [d \in Calls |-> IF d = c THEN record
                                 ELSE IF meets(d) THEN [call[d] EXCEPT !.clean = FALSE]
                                 ELSE call[d]]
     /\ doubt' = doubt \cup (Agents \X doubtful)
     /\ UNCHANGED <<table, config, holder>>

-----------------------------------------------------------------------------
(* The requests read *)

\* toggle_server
Toggle(c, i) ==
  /\ rows[i] # None
  /\ Begin(c, "toggle", i, rows[i], [rows[i] EXCEPT !.enabled = ~@], "write", FALSE)

\* delete_server
Delete(c, i) == rows[i] # None /\ Begin(c, "delete", i, rows[i], None, "write", FALSE)

\* edit_server; the agents are not told.
Edit(c, i, n, t) ==
  /\ rows[i] # None /\ Named(n) \subseteq {i}
  /\ Begin(c, "edit", i, rows[i], [rows[i] EXCEPT !.name = n, !.transport = t], "write",
           rows[i].enabled)

\* add_server, batch_import: a new row is off; over a row there is, add leaves
\* the switch and import turns it off; the agents are not told.
AddOrImport(c, kind, n, t) ==
  \/ /\ Named(n) = {}
     /\ Begin(c, kind, None, None, [name |-> n, enabled |-> FALSE, transport |-> t], "write", FALSE)
  \/ \E i \in Named(n) :
       LET on == kind = "add" /\ rows[i].enabled
       IN Begin(c, kind, i, rows[i], [rows[i] EXCEPT !.transport = t, !.enabled = on], "write",
                rows[i].enabled)

\* sync_to_agents as a request of its own: of a server that is off, too.
SyncToAgents(c, i) ==
  rows[i] # None /\ Begin(c, "sync", i, rows[i], rows[i], "lock", ~rows[i].enabled)

\* remove_from_agents as a request of its own: of a server that is on, too.
RemoveFromAgents(c, i) ==
  rows[i] # None /\ Begin(c, "remove", i, rows[i], None, "lock", rows[i].enabled)

-----------------------------------------------------------------------------
(* The rows are written *)

Over(c) == call' = [call EXCEPT ![c] = None]
Tells(r) == r.kind = "toggle" \/ (r.kind = "delete" /\ r.old.enabled)

\* The name is taken meanwhile, or the row is gone before it was read for the
\* last time: an error.
WriteFails(c) ==
  /\ At(c, "write")
  /\ LET r == call[c]
     IN \/ r.new # None /\ Named(r.new.name) \ {r.id} # {}
        \/ r.id # None /\ rows[r.id] = None
  /\ Over(c)
  /\ UNCHANGED <<table, config, holder, used, doubt>>

\* An UPDATE writes every column and does not ask whether there was a row.
Write(c) ==
  /\ At(c, "write")
  /\ LET r == call[c]
     IN /\ IF r.new = None THEN rows[r.id] # None ELSE Named(r.new.name) \subseteq {r.id}
        /\ IF r.id # None
           THEN /\ rows' = IF rows[r.id] = None THEN rows ELSE [rows EXCEPT ![r.id] = r.new]
                /\ UNCHANGED made
           ELSE /\ made < MaxRows /\ made' = made + 1
                /\ rows' = [rows EXCEPT ![made'] = r.new]
        /\ IF Tells(r) THEN call' = [call EXCEPT ![c].pc = "lock"] ELSE Over(c)
  /\ UNCHANGED <<config, holder, used, doubt>>

-----------------------------------------------------------------------------
(* The agents are told *)

Copies(r) == r.kind = "sync" \/ (r.kind = "toggle" /\ r.new.enabled)

\* Mutant of Lock: nobody waits.
LockFree(c) ==
  /\ At(c, "lock")
  /\ LET r == call[c]
     IN IF Copies(r) /\ rows[r.id] = None THEN Over(c) /\ UNCHANGED holder
        ELSE /\ holder' = c
             /\ call' = [call EXCEPT
                           ![c].pc = "look",
                           ![c].target = IF Copies(r) THEN rows[r.id].name ELSE r.old.name,
                           ![c].copy = IF Copies(r) THEN rows[r.id].transport ELSE None]
  /\ UNCHANGED <<table, config, used, doubt>>

\* The lock is had; a sync reads the row again, and has nothing to do if it is
\* gone, but copies it whatever its switch.
Lock(c) ==
  /\ At(c, "lock") /\ holder = None
  /\ LET r == call[c]
     IN IF Copies(r) /\ rows[r.id] = None THEN Over(c) /\ UNCHANGED holder
        ELSE /\ holder' = c
             /\ call' = [call EXCEPT
                           ![c].pc = "look",
                           ![c].target = IF Copies(r) THEN rows[r.id].name ELSE r.old.name,
                           ![c].copy = IF Copies(r) THEN rows[r.id].transport ELSE None]
  /\ UNCHANGED <<table, config, used, doubt>>

\* On to the next adapter, or the lock is released.
Advance(c) ==
  IF call[c].agent < Count
  THEN /\ call' = [call EXCEPT ![c].agent = @ + 1, ![c].pc = "look"]
       /\ UNCHANGED holder
  ELSE Over(c) /\ holder' = None

Copy(c) == <<call[c].agent, call[c].target>>

\* install_server: Gemini is told neither environment nor headers, Codex no
\* headers and of any url that it is http; the others get all of it.
Stored(kind, t) ==
  IF kind = "gemini" THEN [t EXCEPT !.more = @ \ {"env", "headers"}]
  ELSE IF kind = "codex" /\ t.form # "stdio" THEN [t EXCEPT !.form = "http", !.more = {}]
  ELSE t

\* detect_existing: a list for the eye runs command and arguments together and
\* has nothing else, Claude's not even the form of a url; Codex lists all but
\* the headers; the others (CodeBuddy, OpenCode, aionrs) are read off their files.
Shown(kind, t) ==
  LET words == IF t.form = "stdio" /\ t.more \cap {"args", "words"} # {} THEN {"words"} ELSE {}
      guess == IF t.form = "stdio" THEN "stdio" ELSE IF t.tail = "sse" THEN "sse" ELSE "http"
  IN IF kind = "claude" THEN [t EXCEPT !.form = guess, !.more = words]
     ELSE IF kind \in {"gemini", "qwen"} THEN [t EXCEPT !.more = words]
     ELSE IF kind = "codex" THEN [t EXCEPT !.more = @ \ {"headers"}]
     ELSE t

\* What the agent a is asked to have, and what it then has.
Given(a, t) == IF t = None THEN None ELSE Stored(Adapter[a], t)

\* An agent's copy looks as it should be.
Looks(a, copy, t) == copy # None /\ t # None /\ Shown(Adapter[a], copy) = t

\* Reported as done.
Done(c) ==
  /\ doubt' = IF call[c].clean THEN doubt \ {Copy(c)} ELSE doubt
  /\ Advance(c)

\* detect_existing, or the reading before a removal.  A copy that looks as it
\* should be is left alone.
Look(c) ==
  /\ At(c, "look")
  /\ LET r == call[c]
     IN IF Looks(r.agent, config[r.agent][r.target], r.copy) THEN Done(c)
        ELSE /\ call' = [call EXCEPT ![c].pc = "put", ![c].seen = config[r.agent]]
             /\ UNCHANGED <<holder, doubt>>
  /\ UNCHANGED <<table, config, used>>

\* remove_server, install_server, or one after the other.
Put(c) ==
  /\ At(c, "put")
  /\ LET r == call[c]
     IN config' = [config EXCEPT ![r.agent] =
                     [r.seen EXCEPT ![r.target] = Given(r.agent, r.copy)]]
  /\ Done(c)
  /\ UNCHANGED <<table, used>>

\* An adapter fails, perhaps with the old copy removed; the others follow.  The
\* request need not hear of it: run_cli asks for no exit status.
Fail(c) ==
  /\ At(c, "look") \/ At(c, "put")
  /\ Spend("fail")
  /\ LET r == call[c]
     IN config' \in {config} \cup
          (IF r.pc = "put" /\ r.copy # None
           THEN {[config EXCEPT ![r.agent] = [r.seen EXCEPT ![r.target] = None]]} ELSE {})
  /\ doubt' = doubt \cup {Copy(c)}
  /\ Advance(c)
  /\ UNCHANGED table

\* The process ends and starts again: nobody takes up what was under way.
Crash ==
  /\ Spend("crash")
  /\ doubt' = doubt \cup (Agents \X UNION {call[c].names : c \in {d \in Calls : call[d] # None}})
  /\ call' = [c \in Calls |-> None] /\ holder' = None
  /\ UNCHANGED <<table, config>>

-----------------------------------------------------------------------------
Request(c) ==
  \/ \E i \in Ids : Toggle(c, i) \/ Delete(c, i) \/ SyncToAgents(c, i) \/ RemoveFromAgents(c, i)
  \/ \E i \in Ids, n \in Names, t \in Transports : Edit(c, i, n, t)
  \/ \E kind \in {"add", "import"}, n \in Names, t \in Transports : AddOrImport(c, kind, n, t)

Next ==
  \/ \E c \in Calls : Request(c) \/ WriteFails(c) \/ Write(c)
  \/ \E c \in Calls : Lock(c) \/ Look(c) \/ Put(c) \/ Fail(c)
  \/ Crash

Spec == Init /\ [][Next]_vars

-----------------------------------------------------------------------------
(* Properties *)

\* Every variable is of its type.
TypeOK ==
  /\ rows \in [Ids -> Row \cup {None}] /\ made \in 0 .. MaxRows /\ config \in [Agents -> Config]
  /\ holder \in Calls \cup {None} /\ call \in [Calls -> CallState \cup {None}]
  /\ used \in [Kinds -> Nat] /\ doubt \subseteq Agents \X Names

\* routes.rs, sync_service.rs: a server no request has to do with at the moment
\* has a copy in every agent exactly when it is on, and the copy is what the
\* agent's adapter makes of the row, or at least looks like the row to it (headers or
\* an environment the row has lost stay in the copies of Claude and Qwen);
\* unless a request ran into another about the same server, an edit or an import
\* changed a server that was on, a copy was asked for or removed against the
\* switch, or an adapter failed, reported or not; and again after the next
\* request about it that met none of that.
CopiesFollowRows ==
  \A n \in Names : (\A c \in Calls : call[c] = None \/ n \notin call[c].names) =>
    \A a \in Agents : <<a, n>> \notin doubt =>
      LET t == IF Enabled(n) = {} THEN None ELSE rows[CHOOSE i \in Enabled(n) : TRUE].transport
      IN config[a][n] = Given(a, t) \/ Looks(a, config[a][n], t)
=============================================================================
