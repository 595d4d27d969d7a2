------------------------------ MODULE Accounts ------------------------------
(***************************************************************************)
(* Sign-in sessions and the secret behind them.                            *)
(*                                                                         *)
(* aionui-auth: jwt.rs, middleware.rs, qr_token.rs, routes.rs; aionui-db:  *)
(* repository/sqlite_user.rs; aionui-app: services.rs, config.rs;          *)
(* aionui-system: provider.rs.  One secret signs every session token.  It  *)
(* lives in memory, and in the row of the user who changed the password    *)
(* last, or for whom a local request stored one; a start reads the row of  *)
(* the system user, or the environment.  From the secret of the start also *)
(* comes the key under which the API keys of model providers are stored.   *)
(*                                                                         *)
(* A token carries the number of the secret that signed it.  What a        *)
(* request needs to know of a password is whether it is the one stored.    *)
(* Local mode, which alone offers the local requests and asks for no       *)
(* token, is not told apart: the local requests may come any time, and the *)
(* others come with a token.                                               *)
(***************************************************************************)
EXTENDS Naturals, Sequences, FiniteSets

CONSTANTS
  Users, System,   \* accounts; the system user is one
  Calls,           \* bound: requests in flight at once
  MaxSecrets,      \* bound: secrets generated or told
  MaxTokens,       \* bound: tokens signed
  None,
  Budgets          \* bound: how often each kind of event may come

Kinds == {"login", "logout", "refresh", "change", "reset", "qr", "provider", "internal", "expire",
          "crash"}

VARIABLES
  password, stored,  \* columns of users: password (a version), jwt_secret (0: none)
  env,             \* JWT_SECRET is set: secret 1
  secret,          \* JwtService
  blacklist,
  key,             \* the secret that encryption_key was derived from
  minted,          \* secrets generated or told so far
  token,           \* the tokens signed so far; out: history, logged out in this run
  qr,              \* the QR token: None, or [used, old]
  provider,        \* None, or the secret its API key was encrypted under
  call, up, used,
  astray           \* history: the row of the system user need not have the secret

vars == <<password, stored, env, secret, blacklist, key, minted, token, qr, provider,
          call, up, used, astray>>

Secrets == 1 .. MaxSecrets
Tokens == 1 .. MaxTokens

Token == [user : Users, secret : Secrets, old : BOOLEAN, out : BOOLEAN]

\* seen: the version of the password in the row the request read.
CallState ==
  [kind : {"login", "logout", "change"}, user : Users, seen : Nat, right : BOOLEAN,
   token : Tokens \cup {0}, secret : Secrets \cup {0},
   pc : {"verify", "blacklist", "write", "rotate", "persist"}]

AccountAssumption ==
  /\ System \in Users /\ MaxSecrets \in Nat \ {0} /\ MaxTokens \in Nat
  /\ None \notin CallState /\ None \notin Secrets
  /\ Budgets \subseteq [Kinds -> Nat]

\* The first start with an empty database or with JWT_SECRET.
Init ==
  /\ env \in BOOLEAN
  /\ password = [u \in Users |-> 0]
  /\ stored = [u \in Users |-> IF u = System /\ ~env THEN 1 ELSE 0]
  /\ secret = 1 /\ key = 1 /\ minted = 1 /\ blacklist = {}
  /\ token = <<>> /\ qr = None /\ provider = None
  /\ call = [c \in Calls |-> None] /\ up = TRUE
  /\ used = [k \in Kinds |-> 0] /\ astray = FALSE

-----------------------------------------------------------------------------
(* Helpers *)

Spend(kind) ==
  /\ used' = [used EXCEPT ![kind] = @ + 1]
  /\ \E limit \in Budgets : \A k \in Kinds : used'[k] <= limit[k]

\* JwtService::verify; auth_middleware adds that the user exists.
Verifies(t) == ~token[t].old /\ t \notin blacklist /\ token[t].secret = secret

\* JwtService::sign
Sign(u) ==
  /\ Len(token) < MaxTokens
  /\ token' = Append(token, [user |-> u, secret |-> secret, old |-> FALSE, out |-> FALSE])

At(c, step) == call[c] # None /\ call[c].pc = step
Over(c) == call' = [call EXCEPT ![c] = None]
Goto(c, step) == call' = [call EXCEPT ![c].pc = step]

Request(c, kind, u, t, right, step) ==
  /\ up /\ call[c] = None /\ Spend(kind)
  /\ call' = [call EXCEPT ![c] = [kind |-> kind, user |-> u, seen |-> password[u], right |-> right,
                                  token |-> t, secret |-> 0, pc |-> step]]

data == <<password, stored, env>>
memory == <<secret, blacklist, key, minted>>

-----------------------------------------------------------------------------
(* Sessions *)

\* login_handler reads the row, checks the password on another thread and
\* signs whatever the row is by then.
Login(c, u) ==
  /\ \E right \in BOOLEAN : Request(c, "login", u, 0, right, "verify")
  /\ UNCHANGED <<data, memory, token, qr, provider, up, astray>>

LoggedIn(c) ==
  /\ At(c, "verify") /\ call[c].kind = "login"
  /\ IF call[c].right THEN Sign(call[c].user) ELSE UNCHANGED token
  /\ Over(c)
  /\ UNCHANGED <<data, memory, qr, provider, up, used, astray>>

\* logout_handler runs behind auth_middleware, which looks the user up.
Logout(c, t) ==
  /\ t \in DOMAIN token /\ Verifies(t)
  /\ Request(c, "logout", token[t].user, t, TRUE, "blacklist")
  /\ UNCHANGED <<data, memory, token, qr, provider, up, astray>>

Blacklist(c) ==
  /\ At(c, "blacklist")
  /\ blacklist' = blacklist \cup {call[c].token}
  /\ token' = [token EXCEPT ![call[c].token].out = TRUE]
  /\ Over(c)
  /\ UNCHANGED <<data, secret, key, minted, qr, provider, up, used, astray>>

\* refresh_handler: a new token for one that verifies, which stays valid.
Refresh(t) ==
  /\ up /\ t \in DOMAIN token /\ Verifies(t) /\ Spend("refresh")
  /\ Sign(token[t].user)
  /\ UNCHANGED <<data, memory, qr, provider, call, up, astray>>

\* External: the 24 hours of a token, or the five minutes of a QR code, pass.
Expire ==
  /\ Spend("expire")
  /\ \/ /\ \E t \in DOMAIN token : ~token[t].old /\ token' = [token EXCEPT ![t].old = TRUE]
        /\ UNCHANGED qr
     \/ qr # None /\ qr' = [qr EXCEPT !.old = TRUE] /\ UNCHANGED token
  /\ UNCHANGED <<data, memory, provider, call, up, astray>>

\* webui_generate_qr_token_handler; qr_login_handler signs the primary user in.
GenerateQr ==
  /\ up /\ Spend("qr")
  /\ qr' = [used |-> FALSE, old |-> FALSE]
  /\ UNCHANGED <<data, memory, token, provider, call, up, astray>>

QrLogin ==
  /\ up /\ qr # None /\ ~qr.used /\ ~qr.old
  /\ qr' = [qr EXCEPT !.used = TRUE]
  /\ Sign(System)
  /\ UNCHANGED <<data, memory, provider, call, up, used, astray>>

-----------------------------------------------------------------------------
(* Passwords and the secret *)

\* change_password_handler: behind auth_middleware it reads the row, checks
\* the current password, hashes the new one, stores it, ...
Change(c, t) ==
  /\ t \in DOMAIN token /\ Verifies(t)
  /\ \E right \in BOOLEAN : Request(c, "change", token[t].user, t, right, "verify")
  /\ UNCHANGED <<data, memory, token, qr, provider, up, astray>>

Checked(c) ==
  /\ At(c, "verify") /\ call[c].kind = "change"
  /\ IF call[c].right THEN Goto(c, "write") ELSE Over(c)
  /\ UNCHANGED <<data, memory, token, qr, provider, up, used, astray>>

StorePassword(c) ==
  /\ At(c, "write")
  /\ password' = [password EXCEPT ![call[c].user] = @ + 1]
  /\ Goto(c, "rotate")
  /\ UNCHANGED <<stored, env, memory, token, qr, provider, up, used, astray>>

\* Mutant of Rotate: the old secret stays in force until the row has the new.
RotateLate(c) ==
  /\ At(c, "rotate") /\ minted < MaxSecrets
  /\ minted' = minted + 1 /\ blacklist' = {}
  /\ call' = [call EXCEPT ![c].pc = "persist", ![c].secret = minted + 1]
  /\ UNCHANGED <<data, secret, key, token, qr, provider, up, used, astray>>

Persisting == {c \in Calls : At(c, "persist")}

\* ... rotates the secret, which empties the blacklist: nothing signed before
\* verifies any more ...
Rotate(c) ==
  /\ At(c, "rotate") /\ minted < MaxSecrets
  /\ minted' = minted + 1 /\ secret' = minted + 1 /\ blacklist' = {}
  /\ call' = [call EXCEPT ![c].pc = "persist", ![c].secret = minted + 1]
  /\ astray' = (astray \/ call[c].user # System \/ Persisting # {})
  /\ UNCHANGED <<data, key, token, qr, provider, up, used>>

\* Mutant of Persist: the new secret is not stored.
PersistNothing(c) ==
  /\ At(c, "persist")
  /\ Over(c)
  /\ UNCHANGED <<data, memory, token, qr, provider, up, used, astray>>

\* ... and stores it in the row of the user who asked, be it the one in force
\* or not.
Persist(c) ==
  /\ At(c, "persist")
  /\ stored' = [stored EXCEPT ![call[c].user] = call[c].secret]
  /\ astray' = (astray /\ ~(call[c].user = System /\ call[c].secret = secret /\ Persisting = {c}))
  /\ Over(c)
  /\ UNCHANGED <<password, env, memory, token, qr, provider, up, used>>

\* The local update_user_jwt_secret_handler stores whatever it is told, an
\* empty text too; the secret in force stays.
UpdateJwtSecret(u, new) ==
  /\ up /\ Spend("internal")
  /\ new \in 0 .. minted + 1 /\ new <= MaxSecrets
  /\ minted' = IF new > minted THEN new ELSE minted
  /\ stored' = [stored EXCEPT ![u] = new]
  /\ astray' = (astray \/ u = System)
  /\ UNCHANGED <<password, env, secret, blacklist, key, token, qr, provider, call, up>>

\* The local webui_change_password and webui_reset_password of the primary
\* user, update_user_password_hash_handler of any: no rotation.
Reset(u) ==
  /\ up /\ Spend("reset")
  /\ password' = [password EXCEPT ![u] = @ + 1]
  /\ UNCHANGED <<stored, env, memory, token, qr, provider, call, up, astray>>

\* ProviderService::create and update encrypt under the key of the start.
StoreProvider ==
  /\ up /\ Spend("provider")
  /\ provider' = key
  /\ UNCHANGED <<data, memory, token, qr, call, up, astray>>

\* The server dies; from_config resolves the secret again: the environment,
\* the row of the system user, or a new one that is stored there.
Crash ==
  /\ up /\ Spend("crash")
  /\ up' = FALSE /\ qr' = None /\ blacklist' = {}
  /\ call' = [c \in Calls |-> None]
  /\ token' = [t \in DOMAIN token |-> [token[t] EXCEPT !.out = FALSE]]
  /\ UNCHANGED <<data, secret, key, minted, provider, astray>>

Start ==
  /\ ~up /\ up' = TRUE
  /\ IF ~env /\ stored[System] = 0
     THEN /\ minted < MaxSecrets /\ minted' = minted + 1
          /\ stored' = [stored EXCEPT ![System] = minted + 1]
     ELSE UNCHANGED <<minted, stored>>
  /\ secret' = IF env THEN 1 ELSE stored'[System]
  /\ key' = secret' /\ astray' = FALSE
  /\ UNCHANGED <<password, env, blacklist, token, qr, provider, call, used>>

-----------------------------------------------------------------------------

Next ==
  \/ \E c \in Calls :
       \/ \E u \in Users : Login(c, u)
       \/ \E t \in Tokens : Logout(c, t) \/ Change(c, t)
       \/ LoggedIn(c) \/ Blacklist(c) \/ Checked(c) \/ StorePassword(c) \/ Rotate(c) \/ Persist(c)
  \/ \E t \in Tokens : Refresh(t)
  \/ \E u \in Users : Reset(u) \/ \E new \in 0 .. MaxSecrets : UpdateJwtSecret(u, new)
  \/ Expire \/ GenerateQr \/ QrLogin \/ StoreProvider \/ Crash \/ Start

Spec == Init /\ [][Next]_vars

-----------------------------------------------------------------------------
(* Properties *)

TypeOK ==
  /\ password \in [Users -> Nat] /\ stored \in [Users -> 0 .. MaxSecrets] /\ env \in BOOLEAN
  /\ secret \in 1 .. minted /\ key \in 1 .. minted /\ minted \in Secrets
  /\ token \in Seq(Token) /\ Len(token) <= MaxTokens /\ blacklist \subseteq DOMAIN token
  /\ qr \in [used : BOOLEAN, old : BOOLEAN] \cup {None} /\ provider \in Secrets \cup {None}
  /\ call \in [Calls -> CallState \cup {None}]
  /\ up \in BOOLEAN /\ used \in [Kinds -> Nat] /\ astray \in BOOLEAN

\* Whenever a start would come, it would go on with the secret that signs:
\* whoever is signed in stays so.  Not when the environment sets the secret or
\* a change of password is between memory and row; nor after another user's
\* change, after two that were there at once, or after a local request stored
\* a secret for the system user, and then only until the next start, or until a
\* change by the system user that meets no other, which mends it.
RestartKeepsSessions ==
  up /\ ~env /\ ~astray /\ (\A c \in Calls : ~At(c, "persist")) => stored[System] = secret

\* A token that was logged out never verifies again while the server runs,
\* although a rotation forgets which tokens were.
LoggedOutStaysOut ==
  \A t \in DOMAIN token : up /\ token[t].out => ~Verifies(t)

-----------------------------------------------------------------------------
(* What the documents say and the code does not do *)

\* "... so the frontend can migrate its local store to the backend without
\* losing the key on re-read" (row_to_response): a stored key can be read.
KeysStayReadable ==
  up /\ provider # None => provider = key
=============================================================================
