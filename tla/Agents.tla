----------------------------- MODULE Agents -----------------------------
(***************************************************************************)
(* What stands between a conversation and its agent, beside each other:    *)
(* the session of an ACP agent, its questions for permission, and the      *)
(* gateway of OpenClaw.                                                    *)
(***************************************************************************)
EXTENDS Services

CONSTANTS
  Modes, Default, MaxSessions, AcpBudgets,   \* AcpSession
  Room, AskCapacity, MaxAsks, MaxPrompts, MaxStops,    \* AcpPermissions
  MaxTurns, FrameCapacity, Own, Other, GatewayBudgets  \* OpenClaw

VARIABLES
  path, acpRow, agent, cli, ids, acpCall, notes, chan, pend, old, acpUsed, seen, given, lost,
  acpCrossed,
  ask, asking, router, pending, reader, announced, shown, missed, prompts, over, stop, killed,
  agentUp, turns, stops,
  sessionKey, said, status, talking, sink, listening, sending, frames, held, number, waiting,
  ends, timer, link, inbox, wire, run, home, closed, gatewayUsed, ending, muted, adrift

acpVars == <<path, acpRow, agent, cli, ids, acpCall, notes, chan, pend, old, acpUsed,
             seen, given, lost, acpCrossed>>
permissionVars == <<ask, asking, router, pending, reader, announced, shown, missed, prompts, over,
                    stop, killed, agentUp, turns, stops>>
gatewayVars == <<sessionKey, said, status, talking, sink, listening, sending, frames, held, number,
                 waiting, ends, timer, link, inbox, wire, run, home, closed, gatewayUsed, ending,
                 muted, adrift>>
agentsVars == <<focus, acpVars, permissionVars, gatewayVars>>

Acp == INSTANCE AcpSession WITH
  Calls <- Pair, None <- Nil, Budgets <- AcpBudgets, row <- acpRow, minted <- ids, call <- acpCall,
  used <- acpUsed, crossed <- acpCrossed
Permission == INSTANCE AcpPermissions WITH
  Calls <- Pair, MaxTurns <- MaxPrompts, Capacity <- AskCapacity,
  queue <- asking, events <- announced, up <- agentUp
Gateway == INSTANCE OpenClaw WITH
  Capacity <- FrameCapacity, None <- Nil, Budgets <- GatewayBudgets,
  key <- sessionKey, active <- talking, call <- sending,
  events <- frames, turn <- number, out <- ends, killed <- closed, used <- gatewayUsed

AgentsAssumption ==
  /\ Acp!AcpAssumption
  /\ Permission!PermissionAssumption
  /\ Gateway!GatewayAssumption

\* What a service chooses at its start, it chooses only when in focus.
AgentsInit ==
  /\ Acp!Init /\ Permission!Init /\ Gateway!Init
  /\ focus # "acp" => path = "neither"
  /\ focus # "gateway" => ~said

AgentsNext ==
  \/ /\ focus = "acp" /\ Acp!Next
     /\ UNCHANGED <<focus, permissionVars, gatewayVars>>
  \/ /\ focus = "permission" /\ Permission!Next
     /\ UNCHANGED <<focus, acpVars, gatewayVars>>
  \/ /\ focus = "gateway" /\ Gateway!Next
     /\ UNCHANGED <<focus, acpVars, permissionVars>>

AgentsSpec == AgentsInit /\ [][AgentsNext]_agentsVars

-----------------------------------------------------------------------------
(* The properties, by the names the configurations use, each of the        *)
(* service in focus: out of focus it stays in an initial state.            *)

\* Every variable of the service in focus is of its type.
AgentsTypeOK ==
  /\ focus = "acp" => Acp!TypeOK
  /\ focus = "permission" => Permission!TypeOK
  /\ focus = "gateway" => Gateway!TypeOK

\* ACP: between two agents the row has what was observed last; see AcpSession.
RowIsLastObserved == focus = "acp" => Acp!RowIsLastObserved

\* ACP: what is taken for observed is so when nothing is under way; see
\* AcpSession.
ObservedIsActual == focus = "acp" => Acp!ObservedIsActual

\* ACP: who waits for a permission waits for somebody; see AcpPermissions.
AskIsHeard == focus = "permission" => Permission!AskIsHeard

\* OpenClaw: a turn has an end, and it is its own; see OpenClaw.
TurnHasItsEnd == focus = "gateway" => Gateway!TurnHasItsEnd
=============================================================================
