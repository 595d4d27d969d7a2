----------------------------- MODULE Catalog -----------------------------
(***************************************************************************)
(* What the user keeps, beside each other: the extensions with their       *)
(* switches and the order they load in, the MCP servers with their copies  *)
(* in the agents, and the members of a team.                               *)
(***************************************************************************)
EXTENDS Services

CONSTANTS
  Exts, MaxVersion, ExtensionBudgets,    \* Extensions
  Many,                                  \* LoadOrder
  Servers, MaxServers, Transports, Count, Adapter, McpBudgets,   \* McpSync
  Names, MaxSlots, RosterBudgets         \* TeamRoster

VARIABLES
  disk, statesFile, statesStore, registry, scanned, permit, sleeping, extensionCall,
  extensionUp, extensionUsed, wish, toggleCrossed, unsaved,
  needs, degree, loadQueue, loadOrder, visited, searchPath, unfollowed, cycles, ordered,
  mcpRows, added, config, syncLock, mcpCall, mcpUsed, doubt,
  teamRow, team, slots, conversations, live, memory, addLock, rosterCall, rosterUsed, excused

extensionVars == <<disk, statesFile, statesStore, registry, scanned, permit, sleeping,
                   extensionCall, extensionUp, extensionUsed, wish, toggleCrossed, unsaved>>
orderVars == <<needs, degree, loadQueue, loadOrder, visited, searchPath, unfollowed, cycles, ordered>>
mcpVars == <<mcpRows, added, config, syncLock, mcpCall, mcpUsed, doubt>>
rosterVars == <<teamRow, team, slots, conversations, live, memory, addLock, rosterCall,
                rosterUsed, excused>>
catalogVars == <<focus, extensionVars, orderVars, mcpVars, rosterVars>>

Extension == INSTANCE Extensions WITH
  Calls <- Pair, None <- Nil, Budgets <- ExtensionBudgets, file <- statesFile, store <- statesStore,
  call <- extensionCall, up <- extensionUp, used <- extensionUsed, crossed <- toggleCrossed
Order == INSTANCE LoadOrder WITH
  queue <- loadQueue, order <- loadOrder, path <- searchPath, rest <- unfollowed, done <- ordered
Mcp == INSTANCE McpSync WITH
  Names <- Servers, MaxRows <- MaxServers, Calls <- Pair, None <- Nil, Budgets <- McpBudgets,
  rows <- mcpRows, made <- added, holder <- syncLock,
  call <- mcpCall, used <- mcpUsed
Roster == INSTANCE TeamRoster WITH
  Calls <- Pair, None <- Nil, Budgets <- RosterBudgets,
  row <- teamRow, made <- slots, conv <- conversations,
  holder <- addLock, call <- rosterCall, used <- rosterUsed

CatalogAssumption ==
  /\ Extension!ExtensionAssumption
  /\ Order!OrderAssumption
  /\ Mcp!McpAssumption
  /\ Roster!RosterAssumption

\* What a service chooses at its start, it chooses only when in focus.
CatalogInit ==
  /\ focus # "order" => needs = [e \in Order!Loaded |-> {}]
  /\ Extension!Init /\ Order!Init /\ Mcp!Init /\ Roster!Init
  /\ focus # "extension" => \A e \in Exts : disk[e] = 0

CatalogNext ==
  \/ /\ focus = "extension" /\ Extension!Next
     /\ UNCHANGED <<focus, orderVars, mcpVars, rosterVars>>
  \/ /\ focus = "order" /\ Order!Next
     /\ UNCHANGED <<focus, extensionVars, mcpVars, rosterVars>>
  \/ /\ focus = "mcp" /\ Mcp!Next
     /\ UNCHANGED <<focus, extensionVars, orderVars, rosterVars>>
  \/ /\ focus = "roster" /\ Roster!Next
     /\ UNCHANGED <<focus, extensionVars, orderVars, mcpVars>>

CatalogSpec == CatalogInit /\ [][CatalogNext]_catalogVars

-----------------------------------------------------------------------------
(* The properties, by the names the configurations use, each of the        *)
(* service in focus: out of focus it stays in an initial state.            *)

\* Every variable of the service in focus is of its type.
CatalogTypeOK ==
  /\ focus = "extension" => Extension!TypeOK
  /\ focus = "order" => Order!TypeOK
  /\ focus = "mcp" => Mcp!TypeOK
  /\ focus = "roster" => Roster!TypeOK

\* Extensions: at rest, the switches are what the user asked; see Extensions.
SwitchesAreKept == focus = "extension" => Extension!SwitchesAreKept

\* Extensions: what an extension needs is loaded before it; see LoadOrder.
DependenciesLoadFirst == focus = "order" => Order!DependenciesLoadFirst

\* MCP: the agents have the servers that are on; see McpSync.
CopiesFollowRows == focus = "mcp" => Mcp!CopiesFollowRows

\* Teams: the row, the conversations and the session agree; see TeamRoster.
RosterAgrees == focus = "roster" => Roster!RosterAgrees
=============================================================================
