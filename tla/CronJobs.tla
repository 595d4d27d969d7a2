------------------------------ MODULE CronJobs ------------------------------
(***************************************************************************)
(* The scheduled jobs of aionui-cron: the stored rows, the timer of each   *)
(* job, the guard against a busy conversation, and the asynchronous calls  *)
(* that work on them: the tick of a timer, run-now, an edit, a removal,    *)
(* the resume of the machine, the deletion of a conversation; then the     *)
(* death and restart of the server.                                        *)
(*                                                                         *)
(* aionui-cron: service.rs, scheduler.rs, executor.rs, busy_guard.rs.      *)
(*                                                                         *)
(* A step is what a call does up to its next await: an access to the       *)
(* database and the synchronous code after it.  Time is abstract: a live   *)
(* timer may fire, and the stored next run may have passed, at any moment. *)
(* An enabled job has a next run: jobs with an empty cron expression,      *)
(* which only run-now runs, are left out.                                  *)
(***************************************************************************)
EXTENDS Integers, FiniteSets

CONSTANTS
  Jobs, Convs,     \* cron jobs, conversations
  Ops,             \* bound: calls in flight at once
  OneShot,         \* schedules of kind At
  Repeating,       \* schedules of kind Every and Cron
  MaxRetries,      \* max_retries of every job (3 unless the row says otherwise)
  None,
  Budgets          \* bound: how often each kind of outside event may happen

Kinds == {"now", "edit", "remove", "resume", "delete", "crash"}
Schedules == OneShot \cup Repeating

ASSUME CronAssumption ==
  /\ MaxRetries \in Nat
  /\ OneShot \cap Repeating = {}
  /\ None \notin Jobs /\ None \notin Convs /\ None \notin Schedules
  /\ "retry" \notin Schedules /\ None # "retry"
  /\ Budgets \subseteq [Kinds -> Nat]

VARIABLES
  row,             \* row of each job in cron_jobs
  gone,            \* jobs whose row was deleted
  timer,           \* CronScheduler::handles: what the live timer of a job was armed for
  busy,            \* CronBusyGuard::states: conversations in processing
  live, born,      \* conversations that exist, that ever existed
  op,              \* the calls in flight
  used,            \* outside events so far
  crossed,         \* jobs with two edits in flight at once, or bound twice
  overtaken        \* jobs with an edit and another call in flight at once

vars == <<row, gone, timer, busy, live, born, op, used, crossed, overtaken>>

Rows == [mode : {"existing", "new"}, sched : Schedules, enabled : BOOLEAN,
         retry : 0 .. MaxRetries,
         conv : Convs \cup {None}]

Timers == Schedules \cup {"retry"}

Steps == {"read", "resolve", "start", "run", "count", "record", "skip", "retry",
          "next", "write", "arm", "missed", "again", "list", "drop"}

Calls == [kind : Kinds \cup {"tick", "none"}, pc : Steps \cup {"idle"},
          job : Jobs \cup {None}, snap : Rows \cup {None},
          conv : Convs \cup {None}, ok : BOOLEAN,
          asks : SUBSET {"enabled", "sched"}]

NoOp == [kind |-> "none", pc |-> "idle", job |-> None, snap |-> None,
         conv |-> None, ok |-> FALSE, asks |-> {}]

-----------------------------------------------------------------------------
(* Helpers *)

Spend(kind) ==
  /\ used' = [used EXCEPT ![kind] = @ + 1]
  /\ \E limit \in Budgets : \A k \in Kinds : used'[k] <= limit[k]

Free(o) == op[o].pc = "idle"

\* The calls in flight that may touch the job.
On(j) == {o \in Ops : ~Free(o) /\ op[o].job \in {j, None}}

\* A call of this kind begins on the job; an edit asks for some fields.
BeginAsking(o, kind, j, step, snap, asks) ==
  /\ Free(o)
  /\ op' = [op EXCEPT ![o] = [NoOp EXCEPT !.kind = kind, !.pc = step, !.job = j,
                                          !.snap = snap, !.asks = asks]]
  /\ crossed' = IF kind = "edit" /\ \E p \in On(j) : op[p].kind = "edit"
                  THEN crossed \cup {j} ELSE crossed
  /\ overtaken' = IF (kind = "edit" /\ On(j) # {}) \/ \E p \in On(j) : op[p].kind = "edit"
                    THEN overtaken \cup {j} ELSE overtaken

Begin(o, kind, j, step, snap) == BeginAsking(o, kind, j, step, snap, {})

Goto(o, step) == op' = [op EXCEPT ![o].pc = step]
Ends(o) == op' = [op EXCEPT ![o] = NoOp]

At(o, step) == op[o].pc = step

\* repo.update: no effect on a row that is gone, but for the error.
Update(j, r) == row' = IF j \in gone THEN row ELSE [row EXCEPT ![j] = r]

\* schedule_job: the old timer is aborted; a disabled job gets no new one.
Arm(j, r) ==
  timer' = [timer EXCEPT ![j] = IF r.enabled THEN r.sched ELSE None]

Cancel(j) == timer' = [timer EXCEPT ![j] = None]

\* Every job has been added, on a conversation or on none.
Init ==
  /\ live \in SUBSET Convs /\ born = live
  /\ row \in [Jobs -> {r \in Rows : /\ r.enabled /\ r.retry = 0
                                    /\ r.conv \in live \cup {None}}]
  /\ timer = [j \in Jobs |-> row[j].sched]
  /\ gone = {} /\ busy = {}
  /\ op = [o \in Ops |-> NoOp]
  /\ used = [k \in Kinds |-> 0]
  /\ crossed = {} /\ overtaken = {}

-----------------------------------------------------------------------------
(* The tick of a timer *)

\* A timer goes off and spawns a tick; only a repeating one stays.
Fire(j) ==
  /\ timer[j] # None
  /\ \E o \in Ops : Begin(o, "tick", j, "read", None)
  /\ timer' = IF timer[j] \in Repeating THEN timer ELSE [timer EXCEPT ![j] = None]
  /\ UNCHANGED <<row, gone, busy, live, born, used>>

\* What execute makes of the guard, and handle_busy of a busy conversation.
Verdict(r) ==
  IF r.conv \notin busy THEN "resolve" ELSE IF r.retry < MaxRetries THEN "retry" ELSE "skip"

\* Mutant: a tick that finds no job leaves its timer alone.
NotFoundQuiet(j) == UNCHANGED timer

\* A tick that finds no job cancels the timer.
NotFound(j) == Cancel(j)

\* tick: load the job; a disabled one is skipped.
TickRead(o) ==
  /\ At(o, "read")
  /\ LET j == op[o].job
         r == row[j]
     IN \/ j \in gone /\ NotFound(j) /\ Ends(o)
        \/ j \notin gone /\ ~r.enabled /\ Ends(o) /\ UNCHANGED timer
        \/ /\ j \notin gone /\ r.enabled
           /\ op' = [op EXCEPT ![o].snap = r, ![o].pc = Verdict(r)]
           /\ UNCHANGED timer
  /\ UNCHANGED <<row, gone, busy, live, born, used, crossed, overtaken>>

\* Handling of Retrying: one timer instead of the job's own.
Retry(o) ==
  /\ At(o, "retry")
  /\ LET j == op[o].job
     IN /\ Update(j, [row[j] EXCEPT !.retry = op[o].snap.retry + 1])
        /\ timer' = [timer EXCEPT ![j] = "retry"]
  /\ Ends(o)
  /\ UNCHANGED <<gone, busy, live, born, used, crossed, overtaken>>

\* Mutant: a skipped tick is not rescheduled.
SkipForgets(o) ==
  /\ At(o, "skip")
  /\ Update(op[o].job, [row[op[o].job] EXCEPT !.retry = 0])
  /\ Ends(o)
  /\ UNCHANGED <<gone, timer, busy, live, born, used, crossed, overtaken>>

\* Handling of Skipped.
Skip(o) ==
  /\ At(o, "skip")
  /\ Update(op[o].job, [row[op[o].job] EXCEPT !.retry = 0])
  /\ Goto(o, "next")
  /\ UNCHANGED <<gone, timer, busy, live, born, used, crossed, overtaken>>

\* reschedule_after_execution, from the job as the tick read it.
Reschedule(o) ==
  /\ At(o, "next")
  /\ LET j == op[o].job
         s == op[o].snap
     IN \/ /\ s.sched \in OneShot
           /\ Update(j, [row[j] EXCEPT !.enabled = FALSE])
           /\ Cancel(j)
        \/ /\ s.sched \in Repeating
           /\ Arm(j, s) /\ UNCHANGED row
  /\ Ends(o)
  /\ UNCHANGED <<gone, busy, live, born, used, crossed, overtaken>>

-----------------------------------------------------------------------------
(* The execution, of a tick or of run-now *)

RunNow(o, j) ==
  /\ j \notin gone /\ Spend("now")
  /\ Begin(o, "now", j, "resolve", row[j])
  /\ UNCHANGED <<row, gone, timer, busy, live, born>>

\* An execution that fails before it starts: run-now answers with the error.
NotStarted(o) ==
  op' = [op EXCEPT ![o] = IF @.kind = "now" THEN NoOp ELSE [@ EXCEPT !.pc = "count"]]

\* prepare_saved_skill and resolve_conversation
Resolve(o) ==
  /\ At(o, "resolve")
  /\ LET s == op[o].snap
         bound == s.mode = "existing" /\ s.conv # None
     IN \/ NotStarted(o) /\ UNCHANGED <<live, born>>
        \/ /\ bound /\ s.conv \in live
           /\ op' = [op EXCEPT ![o].pc = "start", ![o].conv = s.conv]
           /\ UNCHANGED <<live, born>>
        \/ /\ ~bound
           /\ \E c \in Convs \ born :
                /\ live' = live \cup {c} /\ born' = born \cup {c}
                /\ op' = [op EXCEPT ![o].pc = "start", ![o].conv = c]
  /\ UNCHANGED <<row, gone, timer, busy, used, crossed, overtaken>>

\* The guard goes up.
Start(o) ==
  /\ At(o, "start")
  /\ busy' = busy \cup {op[o].conv}
  /\ Goto(o, "run")
  /\ UNCHANGED <<row, gone, timer, live, born, used, crossed, overtaken>>

\* Mutant: an execution that fails returns early.
RunLeaks(o) ==
  /\ At(o, "run")
  /\ \E ok \in BOOLEAN :
       /\ ok => op[o].conv \in live
       /\ op' = [op EXCEPT ![o].pc = "count", ![o].ok = ok]
       /\ busy' = IF ok THEN busy \ {op[o].conv} ELSE busy
  /\ UNCHANGED <<row, gone, timer, live, born, used, crossed, overtaken>>

\* execute_inner sends the prompt, or fails; the guard comes down.
Run(o) ==
  /\ At(o, "run")
  /\ \E ok \in BOOLEAN :
       /\ ok => op[o].conv \in live
       /\ op' = [op EXCEPT ![o].pc = "count", ![o].ok = ok]
  /\ busy' = busy \ {op[o].conv}
  /\ UNCHANGED <<row, gone, timer, live, born, used, crossed, overtaken>>

Recorded(o) ==
  op' = [op EXCEPT ![o] = IF @.kind = "now" THEN NoOp ELSE [@ EXCEPT !.pc = "next"]]

\* update_job_after_success, update_job_after_error: the row is read ...
Count(o) ==
  /\ At(o, "count")
  /\ LET j == op[o].job
         binds == op[o].ok /\ row[j].conv = None
     IN \/ j \in gone /\ Recorded(o)
        \/ /\ j \notin gone
           /\ op' = [op EXCEPT ![o].pc = "record", ![o].ok = binds]
  /\ UNCHANGED <<row, gone, timer, busy, live, born, used, crossed, overtaken>>

\* ... and written: a job that had no conversation is bound to this one.
Record(o) ==
  /\ At(o, "record")
  /\ LET j == op[o].job
     IN /\ Update(j, [row[j] EXCEPT !.retry = 0, !.conv = IF op[o].ok THEN op[o].conv ELSE @])
        /\ crossed' = IF op[o].ok /\ row[j].conv # None THEN crossed \cup {j} ELSE crossed
  /\ Recorded(o)
  /\ UNCHANGED <<gone, timer, busy, live, born, used, overtaken>>

-----------------------------------------------------------------------------
(* Edits, removal, resume, deletion of a conversation, restart *)

\* update_job: read the row and change the copy.  The request names the
\* fields it changes; either of these two sets the next run anew.
Edit(o, j) ==
  /\ j \notin gone /\ Spend("edit")
  /\ \E asks \in SUBSET {"enabled", "sched"}, e \in BOOLEAN, s \in Schedules :
       LET r == [row[j] EXCEPT !.enabled = IF "enabled" \in asks THEN e ELSE @,
                               !.sched = IF "sched" \in asks THEN s ELSE @]
       IN BeginAsking(o, "edit", j, "write", r, asks)
  /\ UNCHANGED <<row, gone, timer, busy, live, born>>

\* The fields asked for are written; a row that is gone ends the call.
EditWrite(o) ==
  /\ At(o, "write")
  /\ LET j == op[o].job
         s == op[o].snap
         asks == op[o].asks
     IN \/ j \in gone /\ Ends(o) /\ UNCHANGED row
        \/ /\ j \notin gone /\ Goto(o, "arm")
           /\ row' = [row EXCEPT ![j].enabled = IF "enabled" \in asks THEN s.enabled ELSE @,
                                 ![j].sched = IF "sched" \in asks THEN s.sched ELSE @]
  /\ UNCHANGED <<gone, timer, busy, live, born, used, crossed, overtaken>>

\* reschedule_job on the caller's copy of the job.
Rearm(o) ==
  /\ At(o, "arm")
  /\ Arm(op[o].job, op[o].snap)
  /\ Ends(o)
  /\ UNCHANGED <<row, gone, busy, live, born, used, crossed, overtaken>>

\* remove_job: the timer first, the row after the skill file.
Remove(o, j) ==
  /\ j \notin gone /\ Spend("remove")
  /\ Begin(o, "remove", j, "drop", None)
  /\ Cancel(j)
  /\ UNCHANGED <<row, gone, busy, live, born>>

RemoveRow(o) ==
  /\ At(o, "drop") /\ op[o].kind = "remove"
  /\ gone' = gone \cup {op[o].job}
  /\ Ends(o)
  /\ UNCHANGED <<row, timer, busy, live, born, used, crossed, overtaken>>

\* handle_system_resume, for one job of the list it loads.
Resume(o, j) ==
  /\ j \notin gone /\ row[j].enabled /\ Spend("resume")
  /\ \E step \in {"arm", "missed"} : Begin(o, "resume", j, step, row[j])
  /\ UNCHANGED <<row, gone, timer, busy, live, born>>

\* record_missed_execution
Missed(o) ==
  /\ At(o, "missed")
  /\ Update(op[o].job, [row[op[o].job] EXCEPT !.retry = 0])
  /\ Goto(o, "again")
  /\ UNCHANGED <<gone, timer, busy, live, born, used, crossed, overtaken>>

\* reschedule_after_missed
Again(o) ==
  /\ At(o, "again")
  /\ LET j == op[o].job
         s == op[o].snap
     IN \/ /\ s.sched \in OneShot
           /\ Update(j, [row[j] EXCEPT !.enabled = FALSE])
           /\ Cancel(j)
        \/ /\ s.sched \in Repeating /\ j \notin gone
           /\ Arm(j, s) /\ UNCHANGED row
        \/ s.sched \in Repeating /\ j \in gone /\ UNCHANGED <<row, timer>>
  /\ Ends(o)
  /\ UNCHANGED <<gone, busy, live, born, used, crossed, overtaken>>

\* A conversation is deleted; its hook is on the way.
DeleteConversation(o, c) ==
  /\ c \in live /\ Spend("delete")
  /\ live' = live \ {c}
  /\ Free(o)
  /\ op' = [op EXCEPT ![o] = [NoOp EXCEPT !.kind = "delete", !.pc = "list", !.conv = c]]
  /\ UNCHANGED <<row, gone, timer, busy, born, crossed, overtaken>>

Bound(c) == {j \in Jobs \ gone : row[j].conv = c}

\* delete_jobs_by_conversation: the timers of the jobs it lists ...
Cascade(o) ==
  /\ At(o, "list")
  /\ timer' = [j \in Jobs |-> IF j \in Bound(op[o].conv) THEN None ELSE timer[j]]
  /\ Goto(o, "drop")
  /\ UNCHANGED <<row, gone, busy, live, born, used, crossed, overtaken>>

\* ... and the rows bound to the conversation by now.
CascadeRows(o) ==
  /\ At(o, "drop") /\ op[o].kind = "delete"
  /\ gone' = gone \cup Bound(op[o].conv)
  /\ Ends(o)
  /\ UNCHANGED <<row, timer, busy, live, born, used, crossed, overtaken>>

\* is_orphan: bound to a conversation that is no more.
Orphans ==
  {j \in Jobs \ gone : /\ row[j].enabled /\ row[j].mode = "existing"
                       /\ row[j].conv \notin live \cup {None}}

\* The server dies, and init arms what it finds enabled.
Restart ==
  /\ Spend("crash")
  /\ op' = [o \in Ops |-> NoOp] /\ busy' = {}
  /\ gone' = gone \cup Orphans
  /\ timer' = [j \in Jobs |-> IF j \notin gone' /\ row[j].enabled
                              THEN row[j].sched ELSE None]
  /\ crossed' = {} /\ overtaken' = {}
  /\ UNCHANGED <<row, live, born>>

-----------------------------------------------------------------------------
(* The specification *)

Step(o) ==
  \/ TickRead(o) \/ Retry(o) \/ Skip(o) \/ Reschedule(o)
  \/ Resolve(o) \/ Start(o) \/ Run(o) \/ Count(o) \/ Record(o)
  \/ EditWrite(o) \/ Rearm(o) \/ RemoveRow(o) \/ Missed(o) \/ Again(o)
  \/ Cascade(o) \/ CascadeRows(o)

Call(o, j) == RunNow(o, j) \/ Edit(o, j) \/ Remove(o, j) \/ Resume(o, j)

Next ==
  \/ \E j \in Jobs : Fire(j)
  \/ \E o \in Ops : Step(o)
  \/ \E o \in Ops : (\E j \in Jobs : Call(o, j)) \/ (\E c \in Convs : DeleteConversation(o, c))
  \/ Restart

Spec == Init /\ [][Next]_vars

\* The runtime polls every task, and a timer goes off in the end.  The second
\* is strong because here a timer waits for one of finitely many calls to end.
FairSpec ==
  /\ Spec
  /\ \A o \in Ops : WF_vars(Step(o))
  /\ \A j \in Jobs : SF_vars(Fire(j))

-----------------------------------------------------------------------------
(* Properties *)

\* Every variable has its type.
TypeOK ==
  /\ row \in [Jobs -> Rows] /\ gone \subseteq Jobs
  /\ timer \in [Jobs -> Timers \cup {None}]
  /\ born \subseteq Convs /\ live \subseteq born /\ busy \subseteq born
  /\ op \in [Ops -> Calls]
  /\ used \in [Kinds -> Nat]
  /\ crossed \subseteq Jobs /\ overtaken \subseteq Jobs

\* The guard never outlives the executions that raised it: a flag left up
\* would make every later tick of the conversation retry and skip.
BusyIsBacked ==
  \A c \in busy : \E o \in Ops : At(o, "run") /\ op[o].conv = c

\* No job dies silently: when no call is on the job, an enabled job with a
\* next run has a live timer, unless two edits have crossed; and unless an edit
\* has met another call, it is armed for the stored schedule or for a retry.
EnabledIsArmed ==
  \A j \in Jobs \ (gone \cup crossed) :
    On(j) = {} /\ row[j].enabled =>
      /\ timer[j] # None
      /\ j \notin overtaken => timer[j] \in {row[j].sched, "retry"}

\* A job that was removed is forgotten: whatever call was on its way and armed
\* a timer for it again, the timer is gone in the end.
RemovedIsForgotten ==
  \A j \in Jobs : j \in gone ~> [](timer[j] = None)

\* A job that has a conversation keeps it ("subsequent runs reuse it").
BindingIsStable ==
  [][\A j \in Jobs : row[j].conv # None => row'[j].conv = row[j].conv]_vars
=============================================================================
