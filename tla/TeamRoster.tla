------------------------------ MODULE TeamRoster ------------------------------
(***************************************************************************)
(* Who is in a team: the stored row, the conversations of its members and  *)
(* the members a session has in memory.                                    *)
(*                                                                         *)
(* aionui-team: service.rs, service/spawn_support.rs, session.rs,          *)
(* scheduler/agent_lifecycle.rs; aionui-db: repository/sqlite_team.rs.     *)
(* The row is read, changed and written whole.  One lock is for those that *)
(* add a member, another for those that start a session; who removes or    *)
(* renames a member, or removes the team, takes neither.  What a running   *)
(* session does with its members is in TeamLoop.                           *)
(***************************************************************************)
EXTENDS Naturals, FiniteSets

CONSTANTS
  Names,           \* what members are called, normalized
  Calls,           \* bound: requests in flight at once
  MaxSlots,        \* bound: members ever
  None,
  Budgets          \* bound: how often each kind of event may come

Kinds == {"add", "spawn", "remove", "rename", "drop", "ensure", "stop", "fail", "crash"}

VARIABLES
  row,             \* teams.agents: the name of a member, by slot
  team,            \* there is a row
  made,            \* slots handed out
  conv,            \* the slots whose conversation is there
  live,            \* the team has an entry in sessions
  memory,          \* TeammateManager.slots of that entry
  holder,          \* who holds the add_agent_lock of the team
  call, used,
  excused          \* history: calls crossed, a write failed, or a crash cut one off

vars == <<row, team, made, conv, live, memory, holder, call, used, excused>>

Slots == 1 .. MaxSlots
Roster == [Slots -> Names \cup {None}]
Nobody == [s \in Slots |-> None]
Members(r) == {s \in Slots : r[s] # None}

\* seen: the row as read; stale: the session a spawn came from is stopped.
CallState ==
  [kind : Kinds, pc : {"lock", "create", "delete", "write", "memory", "drop", "insert"},
   slot : Slots \cup {None}, name : Names \cup {None}, seen : Roster, stale : BOOLEAN]

RosterAssumption ==
  /\ MaxSlots \in Nat \ {0}
  /\ None \notin Names /\ None \notin Slots /\ None \notin Calls /\ None \notin CallState
  /\ Budgets \subseteq [Kinds -> Nat]

\* A team that was just created, with its leader.
Init ==
  /\ row \in {[Nobody EXCEPT ![1] = n] : n \in Names}
  /\ team = TRUE /\ made = 1 /\ conv = {1} /\ live = FALSE /\ memory = Nobody
  /\ holder = None /\ call = [c \in Calls |-> None] /\ used = [k \in Kinds |-> 0]
  /\ excused = FALSE

-----------------------------------------------------------------------------
(* Helpers *)

Spend(kind) ==
  /\ used' = [used EXCEPT ![kind] = @ + 1]
  /\ \E limit \in Budgets : \A k \in Kinds : used'[k] <= limit[k]

At(c, step) == call[c] # None /\ call[c].pc = step
Is(c, kinds) == call[c] # None /\ call[c].kind \in kinds
Adders == {"add", "spawn"}
Free(c) == IF holder = c THEN None ELSE holder
Over(c) == call' = [call EXCEPT ![c] = None] /\ holder' = Free(c)

Fresh(kind, step, s, n) ==
  [kind |-> kind, pc |-> step, slot |-> s, name |-> n, seen |-> row, stale |-> FALSE]
Begin(c, kind, step, s, n) ==
  /\ call[c] = None /\ Spend(kind)
  /\ call' = [call EXCEPT ![c] = Fresh(kind, step, s, n)]

\* Another request has read the row and has yet to write it or to make a
\* session of it; or it has yet to bring the memory up to a change of the same
\* member; or a name may still be taken in the memory that is free in the row.
Meets(kind, s) ==
  \E d \in Calls :
    /\ call[d] # None
    /\ \/ /\ call[d].pc \in {"create", "delete", "write", "drop", "insert"}
          /\ ~(kind \in Adders /\ call[d].kind \in Adders)
       \/ call[d].pc = "memory" /\ call[d].slot = s /\ kind # "remove"
       \/ call[d].pc = "memory" /\ call[d].slot = s /\ call[d].kind \in Adders
       \/ /\ call[d].pc = "memory" /\ call[d].kind \in {"remove", "rename"}
          /\ kind \in Adders \cup {"rename"}

Cross(kind, s) == excused' = (excused \/ Meets(kind, s))

rows == <<row, team>>
session == <<live, memory>>

-----------------------------------------------------------------------------
(* Requests come *)

\* add_agent asks for the lock; nothing is said of the name.
Add(c, n) ==
  /\ Begin(c, "add", "lock", None, n)
  /\ UNCHANGED <<rows, made, conv, session, holder, excused>>

\* spawn_agent of the leader's session: the name is free in its memory.
Spawn(c, n) ==
  /\ live /\ \A s \in Slots : memory[s] # n
  /\ Begin(c, "spawn", "lock", None, n)
  /\ UNCHANGED <<rows, made, conv, session, holder, excused>>

\* remove_agent
Remove(c, s) ==
  /\ team /\ row[s] # None
  /\ Begin(c, "remove", "delete", s, None) /\ Cross("remove", s)
  /\ UNCHANGED <<rows, made, conv, session, holder>>

\* rename_agent: nobody else in the row has the name.
Rename(c, s, n) ==
  /\ team /\ row[s] # None /\ \A t \in Slots \ {s} : row[t] # n
  /\ Begin(c, "rename", "write", s, n) /\ Cross("rename", s)
  /\ UNCHANGED <<rows, made, conv, session, holder>>

\* The session goes; what a spawn holds of it is of no use to anybody.
StopSession(after) ==
  /\ live' = FALSE /\ memory' = Nobody
  /\ call' = [c \in Calls |-> IF after[c] # None /\ after[c].kind = "spawn"
                              THEN [after[c] EXCEPT !.stale = TRUE] ELSE after[c]]

\* remove_team: the row is read and the session is stopped.
RemoveTeam(c) ==
  /\ team /\ call[c] = None /\ Spend("drop")
  /\ StopSession([call EXCEPT ![c] = Fresh("drop", "delete", None, None)])
  /\ Cross("drop", None)
  /\ UNCHANGED <<rows, made, conv, holder>>

\* stop_session
Stop ==
  /\ live /\ Spend("stop")
  /\ StopSession(call)
  /\ UNCHANGED <<rows, made, conv, holder, excused>>

\* ensure_session: one at a time; the row is read and the agents are rebuilt.
Ensure(c) ==
  /\ team /\ ~live /\ \A d \in Calls : ~Is(d, {"ensure"})
  /\ Begin(c, "ensure", "insert", None, None) /\ Cross("ensure", None)
  /\ UNCHANGED <<rows, made, conv, session, holder>>

-----------------------------------------------------------------------------
(* Requests go on *)

\* Mutant of Lock: a spawn does not wait for the lock.
LockSpawnFree(c) ==
  /\ At(c, "lock") /\ (holder = None \/ Is(c, {"spawn"}))
  /\ IF team
     THEN /\ holder' = c /\ Cross(call[c].kind, None)
          /\ call' = [call EXCEPT ![c].pc = "create", ![c].seen = row]
     ELSE Over(c) /\ UNCHANGED excused
  /\ UNCHANGED <<rows, made, conv, session, used>>

\* add_agent and persist_spawned_agent have the lock and read the row.
Lock(c) ==
  /\ At(c, "lock") /\ holder = None
  /\ IF team
     THEN /\ holder' = c /\ Cross(call[c].kind, None)
          /\ call' = [call EXCEPT ![c].pc = "create", ![c].seen = row]
     ELSE Over(c) /\ UNCHANGED excused
  /\ UNCHANGED <<rows, made, conv, session, used>>

\* The conversation of a new member is created.
Create(c) ==
  /\ At(c, "create") /\ made < MaxSlots
  /\ made' = made + 1 /\ conv' = conv \cup {made'}
  /\ call' = [call EXCEPT ![c].pc = "write", ![c].slot = made']
  /\ UNCHANGED <<rows, session, holder, used, excused>>

\* It cannot be created; or the agents of a session cannot be rebuilt.
Refuse(c) ==
  /\ At(c, "create") \/ At(c, "insert")
  /\ Over(c)
  /\ UNCHANGED <<rows, made, conv, session, used, excused>>

\* remove_agent, remove_team: the conversations go first; whether they did is
\* not asked.
Delete(c) ==
  /\ At(c, "delete")
  /\ conv' = conv \ (IF Is(c, {"drop"}) THEN Members(call[c].seen) ELSE {call[c].slot})
  /\ call' = [call EXCEPT ![c].pc = IF Is(c, {"drop"}) THEN "drop" ELSE "write"]
  /\ UNCHANGED <<rows, made, session, holder, used, excused>>

\* update_team writes the whole list, and fails without a row: then the memory
\* stays.  A spawn lets the lock go here, an add when all is done.
Write(c) ==
  /\ At(c, "write")
  /\ IF team
     THEN /\ row' = [call[c].seen EXCEPT ![call[c].slot] = call[c].name]
          /\ call' = [call EXCEPT ![c].pc = "memory"]
          /\ holder' = IF Is(c, {"spawn"}) THEN Free(c) ELSE holder
          /\ excused' = (excused \/ (call[c].stale /\ live))
     ELSE Over(c) /\ UNCHANGED <<row, excused>>
  /\ UNCHANGED <<team, made, conv, session, used>>

\* The database refuses, or a conversation cannot be deleted and that is
\* ignored.
Fail(c) ==
  /\ At(c, "write") \/ At(c, "drop") \/ At(c, "delete")
  /\ Spend("fail") /\ excused' = TRUE
  /\ IF At(c, "delete")
     THEN /\ call' = [call EXCEPT ![c].pc = IF Is(c, {"drop"}) THEN "drop" ELSE "write"]
          /\ UNCHANGED holder
     ELSE Over(c)
  /\ UNCHANGED <<rows, made, conv, session>>

\* The session there is at the moment is told, a spawn tells its own.  A member
\* of whom the memory does not know is not renamed, nor to a name it has.
Remember(c) ==
  /\ At(c, "memory")
  /\ LET s == call[c].slot
         n == call[c].name
         told == CASE call[c].kind = "add" -> live
                   [] call[c].kind = "spawn" -> ~call[c].stale
                   [] call[c].kind = "remove" -> live
                   [] call[c].kind = "rename" ->
                        memory[s] # None /\ \A t \in Slots \ {s} : memory[t] # n
     IN memory' = IF told THEN [memory EXCEPT ![s] = n] ELSE memory
  /\ Over(c)
  /\ UNCHANGED <<rows, made, conv, live, used, excused>>

\* delete_team fails without a row, which changes nothing.
Drop(c) ==
  /\ At(c, "drop")
  /\ team' = FALSE /\ row' = Nobody /\ Over(c)
  /\ UNCHANGED <<made, conv, session, used, excused>>

\* The session is entered with the members as they were read.
Insert(c) ==
  /\ At(c, "insert")
  /\ live' = TRUE /\ memory' = call[c].seen /\ Over(c)
  /\ UNCHANGED <<rows, made, conv, used, excused>>

\* The process ends and starts again; the row and the conversations stay.
Crash ==
  /\ Spend("crash")
  /\ excused' = (excused \/ \E c \in Calls : Is(c, Adders \cup {"remove", "drop"}))
  /\ call' = [c \in Calls |-> None] /\ holder' = None
  /\ live' = FALSE /\ memory' = Nobody
  /\ UNCHANGED <<rows, made, conv>>

-----------------------------------------------------------------------------
Request(c) ==
  \/ \E n \in Names : Add(c, n) \/ Spawn(c, n)
  \/ \E s \in Slots : Remove(c, s) \/ \E n \in Names : Rename(c, s, n)
  \/ RemoveTeam(c) \/ Ensure(c)

Continue(c) ==
  \/ Lock(c) \/ Create(c) \/ Refuse(c) \/ Delete(c) \/ Write(c) \/ Fail(c)
  \/ Remember(c) \/ Drop(c) \/ Insert(c)

Next == Stop \/ Crash \/ \E c \in Calls : Request(c) \/ Continue(c)

Spec == Init /\ [][Next]_vars

-----------------------------------------------------------------------------
(* Properties *)

\* Every variable is of its type.
TypeOK ==
  /\ {row, memory} \subseteq Roster /\ {team, live, excused} \subseteq BOOLEAN
  /\ made \in Slots /\ conv \subseteq Slots /\ holder \in Calls \cup {None}
  /\ call \in [Calls -> CallState \cup {None}] /\ used \in [Kinds -> Nat]

\* service.rs, agent_lifecycle.rs: when no request is under way, the members in
\* the row are those that have a conversation, the session that runs has the
\* same members by the same names, and of a removed team nothing is left; with
\* any number of members added and spawned at once.  Unless a removal, a renaming
\* or the start of a session read the row while another change was under way, the
\* session that spawned a member was no longer the one that runs, a database call
\* failed, or a crash came in the middle of a change.
RosterAgrees ==
  (\A c \in Calls : call[c] = None) /\ ~excused =>
    /\ conv = Members(row)
    /\ live => team /\ memory = row
    /\ ~team => conv = {} /\ row = Nobody
=============================================================================
