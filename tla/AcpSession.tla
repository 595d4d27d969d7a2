----------------------------- MODULE AcpSession -----------------------------
(***************************************************************************)
(* One conversation's ACP session: what the user wants of it, what the     *)
(* command-line agent is taken to be in, and what the database keeps.      *)
(*                                                                         *)
(* aionui-ai-agent: manager/acp/{agent,session,agent_session_flow,         *)
(* agent_reconcile,agent_event_tracker}.rs, factory/acp.rs, persistence/   *)
(* acp_session_sync.rs; aionui-db: repository/sqlite_acp_session.rs.  The  *)
(* mode stands for the model as well, which is treated alike.              *)
(*                                                                         *)
(* An agent is built from the row: the mode stored there is both wanted    *)
(* and taken for observed, and the stored session id is resumed.  Changes  *)
(* of what is observed travel as domain events to a consumer task, which   *)
(* writes an id at once and a mode when half a second has been quiet.  The *)
(* consumer of an agent that is gone goes on until the next one replaces   *)
(* it.  The command-line agent is external: it opens sessions, may give a  *)
(* resumed one another id, and changes its mode when asked or by itself.   *)
(***************************************************************************)
EXTENDS Naturals, Sequences

CONSTANTS
  Modes, Default,  \* modes; the one the command-line agent starts in
  Calls,           \* bound: set_mode requests in flight at once
  MaxSessions,     \* bound: session ids given out
  None,
  Budgets          \* bound: how often each kind of event may come

Kinds == {"build", "set", "move", "fail", "kill", "crash"}

\* The first reconcile belongs to the warm-up, the others to requests.
Warmup == "warmup"
Callers == Calls \cup {Warmup}

VARIABLES
  path,            \* how the agent resumes: _meta, session/load, or neither
  row,             \* acp_session: session_id (0: none) and the stored mode
  agent,           \* the AcpAgentManager
  cli,             \* its command-line agent
  minted,          \* session ids given out
  call,            \* set_mode requests and the warm-up's reconcile
  notes,           \* modes the command-line agent announced, not yet tracked
  chan,            \* domain events on their way to the consumer
  pend,            \* the consumer: "off", or the mode it has not yet written
  old,             \* the consumer of the agent before, still at work
  used,
  seen, given,     \* history: the last mode observed, the last id taken up
  lost,            \* history: events never reached the row
  crossed          \* history: two changes of mode were under way at once

vars == <<path, row, agent, cli, minted, call, notes, chan, pend, old, used,
          seen, given, lost, crossed>>

Mode == Modes \cup {None}
Ids == 0 .. MaxSessions
DomainEvents == {<<"id", n>> : n \in Ids} \cup {<<"mode", m>> : m \in Modes}

\* told: the mode that was observed when the session opened came from the
\* command-line agent itself.
Agent ==
  [pc : {"restore", "open", "align", "attach", "ready"}, id : Ids, desired : Mode,
   observed : Mode, told : BOOLEAN]

Cli == [id : Ids, mode : Modes]
Request == [pc : {"plan", "sent", "apply"}, mode : Mode]
Left == [chan : Seq(DomainEvents), pend : Mode]

AcpAssumption ==
  /\ Default \in Modes /\ MaxSessions \in Nat
  /\ None \notin Modes \cup Agent \cup Cli \cup Request \cup Left /\ "off" \notin Mode
  /\ Budgets \subseteq [Kinds -> Nat]

Init ==
  /\ path \in {"meta", "load", "neither"}
  /\ row = [id |-> 0, mode |-> None]
  /\ agent = None /\ cli = None /\ minted = 0
  /\ call = [c \in Callers |-> None]
  /\ notes = <<>> /\ chan = <<>> /\ pend = "off" /\ old = None
  /\ used = [k \in Kinds |-> 0]
  /\ seen = None /\ given = 0 /\ lost = FALSE /\ crossed = FALSE

-----------------------------------------------------------------------------
(* Helpers *)

Spend(kind) ==
  /\ used' = [used EXCEPT ![kind] = @ + 1]
  /\ \E limit \in Budgets : \A k \in Kinds : used'[k] <= limit[k]

At(step) == agent # None /\ agent.pc = step
In(c, step) == call[c] # None /\ call[c].pc = step
Busy == \E c \in Callers : call[c] # None

\* The consumer left behind holds something the row does not.
Unwritten == old # None /\ (old.chan # <<>> \/ old.pend # None)

\* apply_observed_mode and apply_advertised_modes: an event if it is news.  It
\* is sent before those that the same commit has left.
Observe(a, m, rest) ==
  /\ agent' = [a EXCEPT !.observed = m]
  /\ chan' = chan \o (IF m # agent.observed THEN <<<<"mode", m>>>> ELSE <<>>) \o rest
  /\ seen' = m

\* What the last event of a kind says, if there is one.
LastOf(kind, s, otherwise) ==
  LET places == {i \in DOMAIN s : s[i][1] = kind} IN
  IF places = {} THEN otherwise
  ELSE s[CHOOSE i \in places : \A j \in places : j <= i][2]
LastMode(s, otherwise) == LastOf("mode", s, otherwise)
LastId(s, otherwise) == LastOf("id", s, otherwise)

-----------------------------------------------------------------------------
(* Building an agent: factory/acp.rs *)

\* load_snapshot_state, then a new process; the mode that was asked for when
\* the conversation was made counts until a mode is stored.  The consumer left
\* behind may not have written yet: the row is read as it is.
Build ==
  /\ agent = None /\ Spend("build")
  /\ \E first \in Mode :
       agent' = [pc |-> "restore", id |-> 0, told |-> FALSE,
                 desired |-> IF row.mode # None THEN row.mode ELSE first,
                 observed |-> row.mode]
  /\ cli' = [id |-> 0, mode |-> Default]
  /\ lost' = (lost \/ Unwritten)
  /\ UNCHANGED <<path, row, minted, call, notes, chan, pend, old, seen, given, crossed>>

\* load_session_id
Restore ==
  /\ At("restore")
  /\ agent' = [agent EXCEPT !.pc = "open", !.id = row.id]
  /\ UNCHANGED <<path, row, cli, minted, call, notes, chan, pend, old, used, seen, given,
                 lost, crossed>>

\* open_session_new: what the reply says of modes is observed, and the id is
\* new to the aggregate.
OpenNew ==
  /\ At("open") /\ agent.id = 0 /\ minted < MaxSessions
  /\ minted' = minted + 1
  /\ cli' = [cli EXCEPT !.id = minted + 1]
  /\ LET a == [agent EXCEPT !.pc = "align", !.id = minted + 1, !.told = TRUE]
         named == <<<<"id", minted + 1>>>> IN
     \/ Observe(a, cli.mode, named)
     \/ /\ agent' = [a EXCEPT !.told = FALSE]
        /\ chan' = chan \o named /\ UNCHANGED seen
  /\ call' = [call EXCEPT ![Warmup] = [pc |-> "plan", mode |-> None]]
  /\ given' = minted + 1
  /\ UNCHANGED <<path, row, notes, pend, old, used, lost, crossed>>

\* open_session_resume over _meta: session/new, perhaps with another id.  The
\* aggregate has one already, and set_session_id keeps it (a release build;
\* a debug build stops at its assertion).
ResumeMeta ==
  /\ At("open") /\ agent.id # 0 /\ path = "meta"
  /\ \E n \in {agent.id, minted + 1} :
       /\ n <= MaxSessions
       /\ minted' = IF n > minted THEN n ELSE minted
       /\ cli' = [cli EXCEPT !.id = n]
       /\ LET a == [agent EXCEPT !.pc = "align", !.told = TRUE] IN
          \/ Observe(a, cli.mode, <<>>)
          \/ agent' = [a EXCEPT !.told = FALSE] /\ UNCHANGED <<chan, seen>>
  /\ call' = [call EXCEPT ![Warmup] = [pc |-> "plan", mode |-> None]]
  /\ UNCHANGED <<path, row, notes, pend, old, used, given, lost, crossed>>

\* session/load: the session comes back in some mode, but the stored one, if
\* there is one, is written over what the reply says.
ResumeLoad ==
  /\ At("open") /\ agent.id # 0 /\ path = "load"
  /\ \E m \in Modes :
       /\ cli' = [id |-> agent.id, mode |-> m]
       /\ LET a == [agent EXCEPT !.pc = "align", !.told = agent.observed = None] IN
          \/ Observe(a, IF agent.observed = None THEN m ELSE agent.observed, <<>>)
          \/ agent' = [a EXCEPT !.told = FALSE] /\ UNCHANGED <<chan, seen>>
  /\ call' = [call EXCEPT ![Warmup] = [pc |-> "plan", mode |-> None]]
  /\ UNCHANGED <<path, row, minted, notes, pend, old, used, given, lost, crossed>>

\* Neither: the id is used as it is.
ResumeBlind ==
  /\ At("open") /\ agent.id # 0 /\ path = "neither"
  /\ cli' = [cli EXCEPT !.id = agent.id]
  /\ agent' = [agent EXCEPT !.pc = "align"]
  /\ call' = [call EXCEPT ![Warmup] = [pc |-> "plan", mode |-> None]]
  /\ UNCHANGED <<path, row, minted, notes, chan, pend, old, used, seen, given, lost, crossed>>

\* The handshake fails: the build fails and its receiver is dropped.
OpenFails ==
  /\ At("open") /\ Spend("fail")
  /\ agent' = None /\ cli' = None
  /\ UNCHANGED <<path, row, minted, call, notes, chan, pend, old, seen, given, lost, crossed>>

\* The first reconcile is over.
Opened ==
  /\ At("align") /\ call[Warmup] = None
  /\ agent' = [agent EXCEPT !.pc = "attach"]
  /\ UNCHANGED <<path, row, cli, minted, call, notes, chan, pend, old, used, seen, given,
                 lost, crossed>>

\* AcpSessionSyncService::attach: a consumer for the new agent; the one before
\* is aborted, with what it has not written.
Attach ==
  /\ At("attach")
  /\ agent' = [agent EXCEPT !.pc = "ready"]
  /\ pend' = None /\ old' = None
  /\ lost' = (lost \/ Unwritten)
  /\ UNCHANGED <<path, row, cli, minted, call, notes, chan, used, seen, given, crossed>>

-----------------------------------------------------------------------------
(* Requests: set_mode, reconcile_session *)

\* set_mode writes the intent, then reconciles.
SetMode(c, m) ==
  /\ At("ready") /\ call[c] = None /\ Spend("set")
  /\ agent' = [agent EXCEPT !.desired = m]
  /\ call' = [call EXCEPT ![c] = [pc |-> "plan", mode |-> None]]
  /\ crossed' = (crossed \/ Busy \/ notes # <<>>)
  /\ UNCHANGED <<path, row, cli, minted, notes, chan, pend, old, seen, given, lost>>

\* plan_reconcile: nothing to do when what is observed is what is wanted.
Plan(c) ==
  /\ In(c, "plan")
  /\ call' = [call EXCEPT ![c] = IF agent.desired \in {None, agent.observed} THEN None
                                 ELSE [pc |-> "sent", mode |-> agent.desired]]
  /\ UNCHANGED <<path, row, agent, cli, minted, notes, chan, pend, old, used, seen, given,
                 lost, crossed>>

\* Mutant of CliRefuses: a refusal is taken for success.
CliRefusesUnseen(c) ==
  /\ In(c, "sent") /\ Spend("fail")
  /\ call' = [call EXCEPT ![c].pc = "apply"]
  /\ UNCHANGED <<path, row, agent, cli, minted, notes, chan, pend, old, seen, given,
                 lost, crossed>>

\* The command-line agent refuses session/set_mode; logged.
CliRefuses(c) ==
  /\ In(c, "sent") /\ Spend("fail")
  /\ call' = [call EXCEPT ![c] = None]
  /\ UNCHANGED <<path, row, agent, cli, minted, notes, chan, pend, old, seen, given,
                 lost, crossed>>

CliSets(c) ==
  /\ In(c, "sent")
  /\ cli' = [cli EXCEPT !.mode = call[c].mode]
  /\ call' = [call EXCEPT ![c].pc = "apply"]
  /\ UNCHANGED <<path, row, agent, minted, notes, chan, pend, old, used, seen, given,
                 lost, crossed>>

\* Its reply arrives, and the aggregate is told.
Apply(c) ==
  /\ In(c, "apply")
  /\ Observe(agent, call[c].mode, <<>>)
  /\ call' = [call EXCEPT ![c] = None]
  /\ UNCHANGED <<path, row, cli, minted, notes, pend, old, used, given, lost, crossed>>

\* External: the command-line agent changes its mode and announces it.
CliMoves(m) ==
  /\ cli # None /\ agent.pc \in {"align", "attach", "ready"} /\ m # cli.mode /\ Spend("move")
  /\ cli' = [cli EXCEPT !.mode = m]
  /\ notes' = Append(notes, m)
  /\ crossed' = (crossed \/ Busy)
  /\ UNCHANGED <<path, row, agent, minted, call, chan, pend, old, seen, given, lost>>

\* start_session_event_tracker
Track ==
  /\ agent # None /\ notes # <<>>
  /\ Observe(agent, Head(notes), <<>>)
  /\ notes' = Tail(notes)
  /\ UNCHANGED <<path, row, cli, minted, call, pend, old, used, given, lost, crossed>>

-----------------------------------------------------------------------------
(* Persistence: domain_event_consumer *)

Consume ==
  /\ pend # "off" /\ chan # <<>>
  /\ chan' = Tail(chan)
  /\ IF Head(chan)[1] = "id"
     THEN row' = [row EXCEPT !.id = Head(chan)[2]] /\ UNCHANGED pend
     ELSE pend' = Head(chan)[2] /\ UNCHANGED row
  /\ UNCHANGED <<path, agent, cli, minted, call, notes, old, used, seen, given, lost, crossed>>

Flush ==
  /\ pend \in Modes
  /\ row' = [row EXCEPT !.mode = pend]
  /\ pend' = None
  /\ UNCHANGED <<path, agent, cli, minted, call, notes, chan, old, used, seen, given,
                 lost, crossed>>

\* kill: the process ends, requests fail, what it had announced is tracked and
\* the channel closes.  A reply that has arrived is applied at once.
Kill ==
  /\ At("ready") /\ (\A c \in Callers : ~In(c, "apply")) /\ Spend("kill")
  /\ LET rest == [i \in DOMAIN notes |-> <<"mode", notes[i]>>] IN
     /\ old' = [chan |-> chan \o rest, pend |-> pend]
     /\ seen' = LastMode(rest, seen)
  /\ agent' = None /\ cli' = None /\ chan' = <<>> /\ notes' = <<>> /\ pend' = "off"
  /\ call' = [c \in Callers |-> None]
  /\ UNCHANGED <<path, row, minted, given, lost, crossed>>

\* Mutant of Drain: a closed channel ends the consumer without a flush.
DrainNothing ==
  /\ old # None
  /\ row' = [row EXCEPT !.id = LastId(old.chan, row.id)]
  /\ old' = None
  /\ UNCHANGED <<path, agent, cli, minted, call, notes, chan, pend, used, seen, given,
                 lost, crossed>>

\* The consumer left behind reads to the end of its channel and flushes.
Drain ==
  /\ old # None
  /\ row' = [id |-> LastId(old.chan, row.id),
             mode |-> LastMode(old.chan, IF old.pend = None THEN row.mode ELSE old.pend)]
  /\ old' = None
  /\ UNCHANGED <<path, agent, cli, minted, call, notes, chan, pend, used, seen, given,
                 lost, crossed>>

Crash ==
  /\ Spend("crash")
  /\ lost' = (lost \/ chan # <<>> \/ pend \in Modes \/ old # None \/ notes # <<>> \/ Busy)
  /\ agent' = None /\ cli' = None /\ chan' = <<>> /\ notes' = <<>> /\ pend' = "off" /\ old' = None
  /\ call' = [c \in Callers |-> None]
  /\ UNCHANGED <<path, row, minted, seen, given, crossed>>

-----------------------------------------------------------------------------

Next ==
  \/ Build \/ Restore \/ OpenNew \/ ResumeMeta \/ ResumeLoad \/ ResumeBlind \/ OpenFails
  \/ Opened \/ Attach \/ Track \/ Consume \/ Flush \/ Kill \/ Drain \/ Crash
  \/ \E m \in Modes : CliMoves(m) \/ \E c \in Calls : SetMode(c, m)
  \/ \E c \in Callers : Plan(c) \/ CliSets(c) \/ CliRefuses(c) \/ Apply(c)

Spec == Init /\ [][Next]_vars

-----------------------------------------------------------------------------
(* Properties *)

TypeOK ==
  /\ path \in {"meta", "load", "neither"} /\ row \in [id : Ids, mode : Mode]
  /\ agent \in Agent \cup {None}
  /\ cli \in Cli \cup {None} /\ (cli = None <=> agent = None)
  /\ minted \in Ids /\ given \in Ids /\ seen \in Mode
  /\ call \in [Callers -> Request \cup {None}]
  /\ notes \in Seq(Modes) /\ chan \in Seq(DomainEvents) /\ pend \in Mode \cup {"off"}
  /\ old \in Left \cup {None}
  /\ used \in [Kinds -> Nat] /\ lost \in BOOLEAN /\ crossed \in BOOLEAN

\* Between two agents, once the consumer left behind is done, the row has the
\* last mode observed and the last id taken up: the next agent resumes there.
\* A crash, or a successor that comes too early, may lose what was on its way.
RowIsLastObserved ==
  agent = None /\ old = None /\ ~lost => row = [id |-> given, mode |-> seen]

\* When nothing is under way, what the aggregate takes for observed is the
\* mode the command-line agent is in, however its refusals, its own changes
\* and the requests came; except that two changes at once may leave it wrong,
\* and so may a resume that trusts the row.
ObservedIsActual ==
  At("ready") /\ agent.told /\ ~crossed /\ ~Busy /\ notes = <<>> => agent.observed = cli.mode

-----------------------------------------------------------------------------
(* What the documents say and the code does not do *)

\* "The CLI may assign a new session id, which we persist via SessionAssigned"
\* (open_session_resume): when all events are written, the row has the id of
\* the session that is open.
NewIdIsStored ==
  At("ready") /\ chan = <<>> /\ ~lost => row.id = cli.id

\* "What the CLI last reported (ground truth from the backend)" (Observed).
ObservedIsGroundTruth ==
  At("ready") /\ ~crossed /\ ~Busy /\ notes = <<>> => agent.observed \in {None, cli.mode}
=============================================================================
