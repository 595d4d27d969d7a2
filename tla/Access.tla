----------------------------- MODULE Access -----------------------------
(***************************************************************************)
(* Who comes in and how, beside each other: the people on the chat         *)
(* platforms with the plugins that bring their messages, the connections   *)
(* of the web client, and the accounts.                                    *)
(***************************************************************************)
EXTENDS Services

CONSTANTS
  Persons, Codes, MaxRows, ChatBudgets,  \* ChannelChat
  MaxUpdates, MaxLoops, MaxErrors, PluginBudgets,   \* ChannelPlugins
  Conns, MaxPublished, BusSize, Buffer, MaxTicks, MaxTalk,   \* Realtime
  Users, System, MaxSecrets, MaxTokens, AccountBudgets       \* Accounts

VARIABLES
  code, member, grants, session, made, owner, running, chatCall, chatUsed, chatCrossed,
  pluginRow, active, loop, pluginCall, handed, confirmed, arrived, pluginUp, pluginUsed,
  pluginCrossed,
  published, bridge, conn, heart, ticks, talk,
  password, stored, env, secret, blacklist, key, secrets, token, qr, provider, accountCall,
  accountUp, accountUsed, astray

chatVars == <<code, member, grants, session, made, owner, running, chatCall, chatUsed, chatCrossed>>
pluginVars == <<pluginRow, active, loop, pluginCall, handed, confirmed, arrived, pluginUp,
                pluginUsed, pluginCrossed>>
bridgeVars == <<published, bridge, conn, heart, ticks, talk>>
accountVars == <<password, stored, env, secret, blacklist, key, secrets, token, qr, provider,
                 accountCall, accountUp, accountUsed, astray>>
accessVars == <<focus, chatVars, pluginVars, bridgeVars, accountVars>>

Chat == INSTANCE ChannelChat WITH
  Users <- Persons, Calls <- Pair, None <- Nil, Budgets <- ChatBudgets,
  call <- chatCall, used <- chatUsed, crossed <- chatCrossed
Plugins == INSTANCE ChannelPlugins WITH
  Calls <- Pair, None <- Nil, Budgets <- PluginBudgets, row <- pluginRow, sent <- handed,
  call <- pluginCall, up <- pluginUp, used <- pluginUsed, crossed <- pluginCrossed
Bridge == INSTANCE Realtime WITH MaxEvents <- MaxPublished
Account == INSTANCE Accounts WITH
  Calls <- Pair, None <- Nil, Budgets <- AccountBudgets,
  minted <- secrets, call <- accountCall, up <- accountUp, used <- accountUsed

AccessAssumption ==
  /\ Chat!ChatAssumption
  /\ Plugins!PluginAssumption
  /\ Bridge!RealtimeAssumption
  /\ Account!AccountAssumption

\* What a service chooses at its start, it chooses only when in focus.
AccessInit ==
  /\ Chat!Init /\ Plugins!Init /\ Bridge!Init /\ Account!Init
  /\ focus # "bridge" => ~heart
  /\ focus # "accounts" => ~env

AccessNext ==
  \/ /\ focus = "chat" /\ Chat!Next
     /\ UNCHANGED <<focus, pluginVars, bridgeVars, accountVars>>
  \/ /\ focus = "plugins" /\ Plugins!Next
     /\ UNCHANGED <<focus, chatVars, bridgeVars, accountVars>>
  \/ /\ focus = "bridge" /\ Bridge!Next
     /\ UNCHANGED <<focus, chatVars, pluginVars, accountVars>>
  \/ /\ focus = "accounts" /\ Account!Next
     /\ UNCHANGED <<focus, chatVars, pluginVars, bridgeVars>>

AccessSpec == AccessInit /\ [][AccessNext]_accessVars

-----------------------------------------------------------------------------
(* The properties, by the names the configurations use, each of the        *)
(* service in focus: out of focus it stays in an initial state.            *)

\* Every variable of the service in focus is of its type.
AccessTypeOK ==
  /\ focus = "chat" => Chat!TypeOK
  /\ focus = "plugins" => Plugins!TypeOK
  /\ focus = "bridge" => Bridge!TypeOK
  /\ focus = "accounts" => Account!TypeOK

\* Channel: what the owner decided on a code stands; see ChannelChat.
DecisionStands == Chat!DecisionStands

\* Channel: a session has a user who is admitted; see ChannelChat.
SessionHasMember == focus = "chat" => Chat!SessionHasMember

\* Channel: a conversation is the context of one session; see ChannelChat.
ContextsAreSeparate == focus = "chat" => Chat!ContextsAreSeparate

\* Plugins: an update the platform forgot was handed over; see ChannelPlugins.
NoUpdateLost == focus = "plugins" => Plugins!NoUpdateLost

\* Plugins: a plugin that is switched off polls no more; see ChannelPlugins.
OffStaysOff == focus = "plugins" => Plugins!OffStaysOff

\* Bridge: a client misses only what its queue had no room for; see Realtime.
LossIsFullQueue == focus = "bridge" => Bridge!LossIsFullQueue

\* Accounts: a restart goes on with the secret that signs; see Accounts.
RestartKeepsSessions == focus = "accounts" => Account!RestartKeepsSessions

\* Accounts: a token logged out verifies no more; see Accounts.
LoggedOutStaysOut == focus = "accounts" => Account!LoggedOutStaysOut

\* Contradicted: the bridge forwards all events; see Realtime.
BridgeForwardsAll == focus = "bridge" => Bridge!BridgeForwardsAll
=============================================================================
