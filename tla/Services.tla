------------------------------ MODULE Services ------------------------------
(***************************************************************************)
(* What the groups of services around the conversations have in common.    *)
(* The services share nothing but the database file, so each behaviour is  *)
(* one of the service in focus while the others stand still.               *)
(***************************************************************************)
CONSTANTS
  Pair,            \* bound: requests in flight at a service
  Nil              \* no value: the None of each service

VARIABLE focus

InFocus ==
  {"chat", "plugins", "bridge", "accounts", "acp", "permission", "gateway", "extension",
   "order", "mcp", "roster", "relay", "office"}
=============================================================================
