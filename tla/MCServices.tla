----------------------------- MODULE MCServices -----------------------------
(* Instances for TLC of the services around the conversations.             *)
EXTENDS Access, Agents, Catalog, StreamRelay, OfficeWatch

CONSTANTS person, code1, code2, call1, call2, system, other, modeA, modeB, own, foreign

Limits(kinds, limit) == [k \in kinds |-> IF k \in DOMAIN limit THEN limit[k] ELSE 0]

ChatLimits ==
  {[text |-> 3, approve |-> 2], [text |-> 2, renew |-> 1, approve |-> 1],
   [text |-> 3, approve |-> 1, revoke |-> 1], [text |-> 3, approve |-> 1, sync |-> 1],
   [text |-> 2, approve |-> 1, reject |-> 1]}
ChatKinds == {"text", "renew", "approve", "reject", "revoke", "sync"}
ChatChoices == {Limits(ChatKinds, l) : l \in ChatLimits}

PluginLimits ==
  {[enable |-> 1, disable |-> 1, error |-> 1, crash |-> 1],
   [enable |-> 2, disable |-> 1], [enable |-> 2, error |-> 1],
   [enable |-> 1, test |-> 1, error |-> 2], [enable |-> 2, crash |-> 1]}
PluginKinds == {"enable", "disable", "test", "error", "crash"}
PluginChoices == {Limits(PluginKinds, l) : l \in PluginLimits}

AccountLimits ==
  {[login |-> 2, logout |-> 1, change |-> 2, crash |-> 1],
   [login |-> 1, logout |-> 1, refresh |-> 1, change |-> 1, provider |-> 1, crash |-> 1],
   [login |-> 1, internal |-> 1, change |-> 1, crash |-> 1],
   [login |-> 1, change |-> 1, reset |-> 1, qr |-> 1, expire |-> 1]}
AccountKinds ==
  {"login", "logout", "refresh", "change", "reset", "qr", "provider", "internal", "expire", "crash"}
AccountChoices == {Limits(AccountKinds, l) : l \in AccountLimits}

AcpLimits ==
  {[build |-> 2, set |-> 1, move |-> 1, kill |-> 1],
   [build |-> 2, set |-> 1, fail |-> 1, kill |-> 1],
   [build |-> 2, move |-> 1, fail |-> 1, crash |-> 1], [build |-> 1, set |-> 2, move |-> 1]}
AcpKinds == {"build", "set", "move", "fail", "kill", "crash"}
AcpChoices == {Limits(AcpKinds, l) : l \in AcpLimits}

ExtensionLimits ==
  {[toggle |-> 2, hub |-> 2, ship |-> 1], [toggle |-> 1, hub |-> 2, ship |-> 1, crash |-> 1],
   [toggle |-> 2, hub |-> 1, crash |-> 1, unsaved |-> 1],
   [toggle |-> 1, hub |-> 1, crash |-> 1, unread |-> 1]}
ExtensionKinds == {"toggle", "hub", "ship", "unsaved", "unread", "crash"}
ExtensionChoices == {Limits(ExtensionKinds, l) : l \in ExtensionLimits}

McpLimits ==
  {[add |-> 2, toggle |-> 2], [add |-> 1, toggle |-> 1, edit |-> 1, sync |-> 1],
   [add |-> 1, toggle |-> 1, delete |-> 1, crash |-> 1, remove |-> 1],
   [add |-> 1, toggle |-> 2, import |-> 1, fail |-> 1]}
McpKinds == {"toggle", "delete", "edit", "add", "import", "sync", "remove", "fail", "crash"}
McpChoices == {Limits(McpKinds, l) : l \in McpLimits}

\* A server with headers and without, http and sse at the same url; an agent
\* that is told the headers and cannot show them, and one that is not told.
McpTransports ==
  {[form |-> "http", tail |-> "other", more |-> {"headers"}],
   [form |-> "http", tail |-> "other", more |-> {}],
   [form |-> "sse", tail |-> "other", more |-> {}]}
McpAdapters == <<"claude", "codex">>

RosterLimits ==
  {[add |-> 1, spawn |-> 1, ensure |-> 1, remove |-> 1],
   [add |-> 1, spawn |-> 1, ensure |-> 1, rename |-> 1],
   [spawn |-> 1, ensure |-> 2, stop |-> 1, rename |-> 1],
   [add |-> 1, rename |-> 2, ensure |-> 1, fail |-> 1],
   [add |-> 1, remove |-> 2, ensure |-> 1, fail |-> 1],
   [spawn |-> 1, ensure |-> 2, drop |-> 1, crash |-> 1], [add |-> 2, drop |-> 2, ensure |-> 1],
   [rename |-> 2, remove |-> 1, ensure |-> 1]}
RosterKinds == {"add", "spawn", "remove", "rename", "drop", "ensure", "stop", "fail", "crash"}
RosterChoices == {Limits(RosterKinds, l) : l \in RosterLimits}

GatewayLimits ==
  {[stop |-> 1, slow |-> 1], [stop |-> 1, break |-> 1], [foreign |-> 1, refuse |-> 1],
   [kill |-> 1]}
GatewayKinds == {"stop", "foreign", "break", "kill", "refuse", "slow"}
GatewayChoices == {Limits(GatewayKinds, l) : l \in GatewayLimits}

\* What each group and service assumes of its constants.
ASSUME ServicesAssumption ==
  /\ AccessAssumption /\ AgentsAssumption /\ CatalogAssumption
  /\ RelayAssumption /\ WatchAssumption

SystemInit ==
  /\ focus \in InFocus
  /\ AccessInit /\ AgentsInit /\ CatalogInit /\ Init /\ WatchInit
  /\ focus # "relay" => ~acp
  /\ focus # "roster" => teamRow[1] = "ann"

SystemNext ==
  \/ AccessNext /\ UNCHANGED <<agentsVars, catalogVars, vars, watchVars>>
  \/ AgentsNext /\ UNCHANGED <<accessVars, catalogVars, vars, watchVars>>
  \/ CatalogNext /\ UNCHANGED <<accessVars, agentsVars, vars, watchVars>>
  \/ focus = "relay" /\ Next /\ UNCHANGED <<accessVars, agentsVars, catalogVars, watchVars>>
  \/ focus = "office" /\ WatchNext /\ UNCHANGED <<accessVars, agentsVars, catalogVars, vars>>

SystemSpec ==
  SystemInit /\ [][SystemNext]_<<accessVars, agentsVars, catalogVars, vars, watchVars>>

\* Every variable of every service is of its type.
ServicesTypeOK ==
  /\ focus \in InFocus
  /\ AccessTypeOK /\ AgentsTypeOK /\ CatalogTypeOK
  /\ focus = "relay" => TypeOK
  /\ focus = "office" => WatchTypeOK
=============================================================================
