----------------------------- MODULE ChannelChat -----------------------------
(***************************************************************************)
(* Chats on messaging platforms: a person writes to a bot, is admitted     *)
(* with a pairing code that the owner approves, and from then on talks to  *)
(* an agent in a session bound to a conversation.                          *)
(*                                                                         *)
(* aionui-channel: orchestrator.rs, action.rs, pairing.rs, session.rs,     *)
(* message_service.rs, stream_relay.rs, routes.rs; aionui-db:              *)
(* repository/sqlite_channel.rs.                                           *)
(*                                                                         *)
(* The orchestrator starts a task for every message, so two messages of    *)
(* one person are handled side by side, and beside the owner's requests.   *)
(* A step is one statement on the database, or one call of a neighbour.    *)
(***************************************************************************)
EXTENDS Naturals, FiniteSets

CONSTANTS
  Users,           \* persons on the platform, each writing in one chat
  Codes,           \* pairing codes the generator may draw
  Calls,           \* bound: messages and requests in flight at once
  MaxRows,         \* bound: sessions, and conversations, ever created
  None,
  Budgets          \* bound: how often each kind of call may come

Kinds == {"text", "renew", "approve", "reject", "revoke", "sync"}

VARIABLES
  code,            \* rows of assistant_pairing_codes
  member,          \* by person: rows of assistant_users
  grants,          \* by person: how often admitted; it stands for the user id
  session,         \* rows of assistant_sessions, numbered as created
  made,            \* how many sessions there have been
  owner,           \* by conversation: the session it was created for
  running,         \* conversations with a turn in progress
  call,            \* the calls in flight
  used,            \* calls so far
  crossed          \* persons of whom two calls handled pairing codes at once

vars == <<code, member, grants, session, made, owner, running, call, used, crossed>>

Statuses == {"pending", "approved", "rejected", "expired"}
SessionIds == 1 .. MaxRows
ConvIds == 1 .. MaxRows

CodeRow == [user : Users, status : Statuses, due : BOOLEAN]
SessionRow == [user : Users, grant : Nat, conv : ConvIds \cup {None}]

\* codes: those read as pending and not yet expired; code: the one a request
\* decides on; verdict: what it will write; unbound: the session had no
\* conversation when the message was dispatched; heard: the end of a turn is
\* on the channel the relay subscribed to.
CallState ==
  [kind : Kinds,
   pc : {"auth", "list", "expire", "draw", "drop", "find", "insert", "load",
         "create", "send", "subscribe", "bind", "relay", "admit", "stamp",
         "sessions", "user", "clear"},
   user : Users \cup {None}, grant : Nat, codes : SUBSET Codes,
   code : Codes \cup {None}, verdict : Statuses \cup {None},
   session : SessionIds \cup {None}, conv : ConvIds \cup {None},
   unbound : BOOLEAN, heard : BOOLEAN,
   todo : SUBSET (Users \X Nat)]

Fresh(kind, step) ==
  [kind |-> kind, pc |-> step, user |-> None, grant |-> 0, codes |-> {},
   code |-> None, verdict |-> None, session |-> None, conv |-> None,
   unbound |-> FALSE, heard |-> FALSE, todo |-> {}]

\* The assumption under which the module makes sense.
ChatAssumption ==
  /\ None \notin Users /\ None \notin Codes /\ None \notin Nat
  /\ None \notin Statuses /\ MaxRows \in Nat
  /\ None \notin CodeRow /\ None \notin SessionRow /\ None \notin CallState
  /\ Budgets \subseteq [Kinds -> Nat]

Init ==
  /\ code = [k \in Codes |-> None]
  /\ member = [u \in Users |-> FALSE] /\ grants = [u \in Users |-> 0]
  /\ session = [s \in SessionIds |-> None]
  /\ made = 0 /\ owner = [v \in ConvIds |-> None] /\ running = {}
  /\ call = [c \in Calls |-> None]
  /\ used = [k \in Kinds |-> 0] /\ crossed = {}

-----------------------------------------------------------------------------
(* Helpers *)

At(c, step) == call[c] # None /\ call[c].pc = step

Goto(c, step) == call' = [call EXCEPT ![c].pc = step]
Over(c) == call' = [call EXCEPT ![c] = None]

\* Sessions of a user id; a chat has one person here.
Of(u, n) == {s \in SessionIds : session[s] # None /\ session[s].user = u /\ session[s].grant = n}

Pending(u) == {k \in Codes : code[k] # None /\ code[k].user = u /\ code[k].status = "pending"}

\* The person whose codes a call is about to change.
Deals(c) ==
  IF call[c] = None THEN {}
  ELSE IF call[c].pc \in {"expire", "draw"} THEN {call[c].user}
  ELSE IF call[c].pc \in {"admit", "stamp"} THEN {code[call[c].code].user}
  ELSE {}

\* Another call is at work on the codes of the same person.
Cross(c, u) ==
  crossed' = IF \E d \in Calls \ {c} : u \in Deals(d) THEN crossed \cup {u} ELSE crossed

Write(k, status) == code' = [code EXCEPT ![k].status = status]

Delete(ids) == session' = [s \in SessionIds |-> IF s \in ids THEN None ELSE session[s]]

Spend(kind) ==
  /\ used' = [used EXCEPT ![kind] = @ + 1]
  /\ \E limit \in Budgets : \A k \in Kinds : used'[k] <= limit[k]

\* A request or message comes in and is handled by a call that was free.
Begin(c, fresh) ==
  /\ call[c] = None
  /\ Spend(fresh.kind)
  /\ call' = [call EXCEPT ![c] = fresh]

rows == <<member, grants, session, made, owner, running>>

-----------------------------------------------------------------------------
(* Messages: ActionExecutor::handle_incoming_message *)

\* A plugin forwards a message (text) or the press of the button that asks
\* for a new session (renew); the orchestrator starts a task for it.
Arrive(c, u, kind) ==
  /\ kind \in {"text", "renew"}
  /\ Begin(c, [Fresh(kind, "auth") EXCEPT !.user = u])
  /\ UNCHANGED <<code, rows, crossed>>

\* The sender is looked up: strangers are given a code, members a session.
Known(c) ==
  LET u == call[c].user IN
  /\ At(c, "auth") /\ member[u]
  /\ call' = [call EXCEPT ![c].grant = grants[u],
                          ![c].pc = IF call[c].kind = "text" THEN "find" ELSE "drop"]
  /\ UNCHANGED <<code, rows, used, crossed>>

Stranger(c) ==
  /\ At(c, "auth") /\ ~member[call[c].user]
  /\ Goto(c, "list")
  /\ UNCHANGED <<code, rows, used, crossed>>

-----------------------------------------------------------------------------
(* Pairing: PairingService::request_pairing *)

\* expire_user_pending_codes reads the pending codes of the person ...
ListPending(c) ==
  LET u == call[c].user IN
  /\ At(c, "list")
  /\ call' = [call EXCEPT ![c].codes = Pending(u),
                          ![c].pc = IF Pending(u) = {} THEN "draw" ELSE "expire"]
  /\ Cross(c, u)
  /\ UNCHANGED <<code, rows, used>>

\* ... and marks them expired one by one, whatever they are by then.
Expire(c, k) ==
  /\ At(c, "expire") /\ k \in call[c].codes
  /\ Write(k, "expired")
  /\ call' = [call EXCEPT ![c].codes = @ \ {k},
                          ![c].pc = IF call[c].codes = {k} THEN "draw" ELSE "expire"]
  /\ UNCHANGED <<rows, used, crossed>>

\* A new code is stored, and announced to the owner and the person.
Draw(c, k) ==
  /\ At(c, "draw") /\ code[k] = None
  /\ code' = [code EXCEPT ![k] = [user |-> call[c].user, status |-> "pending", due |-> FALSE]]
  /\ Over(c)
  /\ UNCHANGED <<rows, used, crossed>>

\* Codes are never deleted: one that was drawn before is a conflict, and the
\* person hears nothing.
DrawTaken(c, k) ==
  /\ At(c, "draw") /\ code[k] # None
  /\ Over(c)
  /\ UNCHANGED <<code, rows, used, crossed>>

\* Ten minutes pass.
Elapse(k) ==
  /\ code[k] # None /\ code[k].status = "pending" /\ ~code[k].due
  /\ code' = [code EXCEPT ![k].due = TRUE]
  /\ UNCHANGED <<rows, call, used, crossed>>

\* Mutant of Cleanup: it takes any code that is late.
CleanupAll ==
  LET late == {k \in Codes : code[k] # None /\ code[k].due} IN
  /\ late # {}
  /\ code' = [k \in Codes |-> IF k \in late THEN [code[k] EXCEPT !.status = "expired"] ELSE code[k]]
  /\ UNCHANGED <<rows, call, used, crossed>>

\* The timer's statement: cleanup_expired_pairings.
Cleanup ==
  LET late == {k \in Codes : code[k] # None /\ code[k].status = "pending" /\ code[k].due} IN
  /\ late # {}
  /\ code' = [k \in Codes |-> IF k \in late THEN [code[k] EXCEPT !.status = "expired"] ELSE code[k]]
  /\ UNCHANGED <<rows, call, used, crossed>>

\* Mutant of Valid: the status is not looked at.
ValidAtAnyStatus(k) == code[k] # None /\ ~code[k].due

\* approve_pairing and reject_pairing begin with get_valid_pending_pairing:
\* the code has to be there, pending and in time.
Valid(k) == code[k] # None /\ code[k].status = "pending" /\ ~code[k].due

Decide(c, k, kind) ==
  /\ kind \in {"approve", "reject"}
  /\ Valid(k)
  /\ Begin(c, [Fresh(kind, IF kind = "approve" THEN "admit" ELSE "stamp") EXCEPT
                 !.code = k, !.verdict = IF kind = "approve" THEN "approved" ELSE "rejected"])
  /\ Cross(c, code[k].user)
  /\ UNCHANGED <<code, rows>>

\* A code found too late is marked expired, and the request refused.
DecideLate(c, k, kind) ==
  /\ kind \in {"approve", "reject"}
  /\ call[c] = None /\ Spend(kind)
  /\ code[k] # None /\ code[k].status = "pending" /\ code[k].due
  /\ Write(k, "expired")
  /\ UNCHANGED <<rows, call, crossed>>

\* approve_pairing creates the user first ...
Admit(c) ==
  LET u == code[call[c].code].user IN
  /\ At(c, "admit") /\ ~member[u]
  /\ member' = [member EXCEPT ![u] = TRUE]
  /\ grants' = [grants EXCEPT ![u] = @ + 1]
  /\ Goto(c, "stamp")
  /\ UNCHANGED <<code, session, made, owner, running, used, crossed>>

\* ... who is unique by person and platform: a second approval fails.
AdmitTwice(c) ==
  /\ At(c, "admit") /\ member[code[call[c].code].user]
  /\ Over(c)
  /\ UNCHANGED <<code, rows, used, crossed>>

\* update_pairing_status.
Stamp(c) ==
  /\ At(c, "stamp")
  /\ Write(call[c].code, call[c].verdict)
  /\ Over(c)
  /\ UNCHANGED <<rows, used, crossed>>

-----------------------------------------------------------------------------
(* Sessions: SessionManager, and the owner's requests about users *)

\* reset_session deletes the session of the chat and then goes on like a text.
Drop(c) ==
  /\ At(c, "drop")
  /\ Delete(Of(call[c].user, call[c].grant))
  /\ Goto(c, "find")
  /\ UNCHANGED <<code, member, grants, made, owner, running, used, crossed>>

\* get_or_create_session: the first statement looks for a session of the chat.
Find(c, s) ==
  /\ At(c, "find") /\ s \in Of(call[c].user, call[c].grant)
  /\ IF call[c].kind = "renew" THEN Over(c)
     ELSE call' = [call EXCEPT ![c].session = s, ![c].pc = "load",
                               ![c].unbound = (session[s].conv = None)]
  /\ UNCHANGED <<code, rows, used, crossed>>

FindNone(c) ==
  /\ At(c, "find") /\ Of(call[c].user, call[c].grant) = {}
  /\ Goto(c, "insert")
  /\ UNCHANGED <<code, rows, used, crossed>>

\* Mutant of Insert: no foreign key.
InsertUnchecked(c) ==
  LET u == call[c].user IN
  /\ At(c, "insert") /\ made < MaxRows
  /\ made' = made + 1
  /\ session' = [session EXCEPT ![made + 1] =
                   [user |-> u, grant |-> call[c].grant, conv |-> None]]
  /\ call' = [call EXCEPT ![c].session = made + 1, ![c].pc = "load", ![c].unbound = TRUE]
  /\ UNCHANGED <<code, member, grants, owner, running, used, crossed>>

\* The second one creates it; the foreign key refuses a user who is gone.
Insert(c) ==
  LET u == call[c].user IN
  /\ At(c, "insert")
  /\ IF member[u] /\ grants[u] = call[c].grant
     THEN /\ made < MaxRows
          /\ made' = made + 1
          /\ session' = [session EXCEPT ![made + 1] =
                           [user |-> u, grant |-> call[c].grant, conv |-> None]]
          /\ IF call[c].kind = "renew" THEN Over(c)
             ELSE call' = [call EXCEPT ![c].session = made + 1, ![c].pc = "load",
                                       ![c].unbound = TRUE]
     ELSE Over(c) /\ UNCHANGED <<session, made>>
  /\ UNCHANGED <<code, member, grants, owner, running, used, crossed>>

\* revoke_user: the sessions of a user id, then the user with whatever
\* sessions it has by then.
Revoke(c, u) ==
  /\ member[u]
  /\ Begin(c, [Fresh("revoke", "sessions") EXCEPT !.user = u, !.grant = grants[u]])
  /\ UNCHANGED <<code, rows, crossed>>

CleanSessions(c) ==
  /\ At(c, "sessions")
  /\ Delete(Of(call[c].user, call[c].grant))
  /\ Goto(c, "user")
  /\ UNCHANGED <<code, member, grants, made, owner, running, used, crossed>>

DeleteUser(c) ==
  LET u == call[c].user IN
  /\ At(c, "user")
  /\ member' = [member EXCEPT ![u] = @ /\ grants[u] # call[c].grant]
  /\ Delete(Of(u, call[c].grant))
  /\ Over(c)
  /\ UNCHANGED <<code, grants, made, owner, running, used, crossed>>

\* sync_channel_settings: clear_all_sessions deletes by user, from a list.
Sync(c) ==
  LET seen == {<<session[s].user, session[s].grant>> : s \in {x \in SessionIds : session[x] # None}} IN
  /\ seen # {}
  /\ Begin(c, [Fresh("sync", "clear") EXCEPT !.todo = seen])
  /\ UNCHANGED <<code, rows, crossed>>

Clear(c, u, n) ==
  /\ At(c, "clear") /\ <<u, n>> \in call[c].todo
  /\ Delete(Of(u, n))
  /\ IF call[c].todo = {<<u, n>>} THEN Over(c)
     ELSE call' = [call EXCEPT ![c].todo = @ \ {<<u, n>>}]
  /\ UNCHANGED <<code, member, grants, made, owner, running, used, crossed>>

-----------------------------------------------------------------------------
(* The agent: handle_dispatched, send_to_agent, ChannelStreamRelay *)

\* get_session_by_id: the session may be gone, or bound meanwhile.
Load(c) ==
  LET row == session[call[c].session] IN
  /\ At(c, "load")
  /\ IF row = None THEN Over(c)
     ELSE call' = [call EXCEPT ![c].conv = row.conv,
                               ![c].pc = IF row.conv = None THEN "create" ELSE "send"]
  /\ UNCHANGED <<code, rows, used, crossed>>

\* create_conversation_for_session.
Create(c) ==
  LET v == 1 + Cardinality({w \in ConvIds : owner[w] # None}) IN
  /\ At(c, "create") /\ v \in ConvIds
  /\ owner' = [owner EXCEPT ![v] = call[c].session]
  /\ call' = [call EXCEPT ![c].conv = v, ![c].pc = "send"]
  /\ UNCHANGED <<code, member, grants, session, made, running, used, crossed>>

\* ConversationService::send_message: it starts a turn, or refuses.
Send(c) ==
  /\ At(c, "send")
  /\ IF call[c].conv \in running
     THEN Over(c) /\ UNCHANGED running
     ELSE /\ running' = running \cup {call[c].conv}
          /\ Goto(c, "subscribe")
  /\ UNCHANGED <<code, member, grants, session, made, owner, used, crossed>>

\* get_task and subscribe: the turn runs on a task of its own by now.
Subscribe(c) ==
  /\ At(c, "subscribe")
  /\ Goto(c, IF call[c].unbound THEN "bind" ELSE "relay")
  /\ UNCHANGED <<code, rows, used, crossed>>

\* Mutant of Bind: it goes by the chat, to the session it has now.
BindByChat(c) ==
  LET now == {s \in SessionIds : session[s] # None /\ session[s].user = call[c].user} IN
  /\ At(c, "bind")
  /\ session' = [s \in SessionIds |->
                   IF s \in now THEN [session[s] EXCEPT !.conv = call[c].conv] ELSE session[s]]
  /\ Goto(c, "relay")
  /\ UNCHANGED <<code, member, grants, made, owner, running, used, crossed>>

\* bind_conversation writes to the session the message was dispatched with.
Bind(c) ==
  LET s == call[c].session IN
  /\ At(c, "bind")
  /\ session' = IF session[s] = None THEN session ELSE [session EXCEPT ![s].conv = call[c].conv]
  /\ Goto(c, "relay")
  /\ UNCHANGED <<code, member, grants, made, owner, running, used, crossed>>

\* The agent finishes or fails: its Finish or Error is on the channel of every
\* relay that has subscribed by then, and of no other.
TurnEnds(v) ==
  /\ v \in running
  /\ running' = running \ {v}
  /\ call' = [c \in Calls |->
                IF (At(c, "bind") \/ At(c, "relay")) /\ call[c].conv = v
                THEN [call[c] EXCEPT !.heard = TRUE] ELSE call[c]]
  /\ UNCHANGED <<code, member, grants, session, made, owner, used, crossed>>

\* The relay sends its last edit.
RelayEnds(c) ==
  /\ At(c, "relay") /\ call[c].heard
  /\ Over(c)
  /\ UNCHANGED <<code, rows, used, crossed>>

-----------------------------------------------------------------------------

Next ==
  \/ \E c \in Calls, u \in Users :
       \/ \E kind \in Kinds : Arrive(c, u, kind)
       \/ Revoke(c, u)
       \/ \E n \in 1 .. grants[u] : Clear(c, u, n)
  \/ \E c \in Calls, k \in Codes :
       \/ Expire(c, k) \/ Draw(c, k) \/ DrawTaken(c, k)
       \/ \E kind \in Kinds : Decide(c, k, kind) \/ DecideLate(c, k, kind)
  \/ \E c \in Calls :
       \/ Known(c) \/ Stranger(c) \/ ListPending(c)
       \/ Admit(c) \/ AdmitTwice(c) \/ Stamp(c)
       \/ Drop(c) \/ FindNone(c) \/ Insert(c)
       \/ CleanSessions(c) \/ DeleteUser(c) \/ Sync(c)
       \/ Load(c) \/ Create(c) \/ Send(c) \/ Subscribe(c) \/ Bind(c) \/ RelayEnds(c)
       \/ \E s \in SessionIds : Find(c, s)
  \/ \E k \in Codes : Elapse(k)
  \/ Cleanup
  \/ \E v \in ConvIds : TurnEnds(v)

Spec == Init /\ [][Next]_vars

-----------------------------------------------------------------------------
(* Properties *)

TypeOK ==
  /\ code \in [Codes -> CodeRow \cup {None}]
  /\ member \in [Users -> BOOLEAN] /\ grants \in [Users -> Nat]
  /\ session \in [SessionIds -> SessionRow \cup {None}]
  /\ made \in 0 .. MaxRows
  /\ owner \in [ConvIds -> SessionIds \cup {None}]
  /\ running \subseteq ConvIds
  /\ call \in [Calls -> CallState \cup {None}]
  /\ used \in [Kinds -> Nat] /\ crossed \subseteq Users

\* What the owner has decided stays decided (PairingAlreadyProcessed): neither
\* a later request nor the clean-up rewrites it, unless two calls dealt with
\* the person's codes at once.
DecisionStands ==
  [][\A k \in Codes :
       code[k] # None /\ code[k].status \in {"approved", "rejected"} /\ code[k].user \notin crossed'
       => code'[k] = code[k]]_vars

\* A session belongs to somebody who is a member, whatever was revoked while
\* messages were on their way.
SessionHasMember ==
  \A s \in SessionIds :
    session[s] # None => member[session[s].user] /\ grants[session[s].user] = session[s].grant

\* "independent conversation contexts" (SessionManager): a session is bound to
\* a conversation made for it, however renewals and messages interleave.
ContextsAreSeparate ==
  \A s \in SessionIds :
    session[s] # None /\ session[s].conv # None => owner[session[s].conv] = s

-----------------------------------------------------------------------------
(* What the documents say and the code does not do *)

\* "Each (user_id, chat_id) pair maps to exactly one session."
OneSessionPerChat ==
  \A s, t \in SessionIds :
    /\ session[s] # None /\ session[t] # None
    /\ session[s].user = session[t].user /\ session[s].grant = session[t].grant
    => s = t

\* "the first events have not been emitted yet -- no race condition"
RelayIsInTime ==
  \A c \in Calls : At(c, "relay") => call[c].heard \/ call[c].conv \in running
=============================================================================
