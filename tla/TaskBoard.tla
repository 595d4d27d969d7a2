------------------------------ MODULE TaskBoard ------------------------------
(***************************************************************************)
(* The task board of a team: tasks that wait for other tasks.  A task      *)
(* lists the tasks it is blocked by, and each of these lists it in turn    *)
(* among those it blocks, so that its completion can cross it out.         *)
(*                                                                         *)
(* aionui-team: task_board.rs; aionui-db: repository/sqlite_team.rs.       *)
(*                                                                         *)
(* Every agent of the team calls the board through its own connection, and *)
(* no lock is held: a step of a call is one access to the database.  The   *)
(* two list operations read a row and write it back in one deferred        *)
(* transaction, which fails when anyone has written since it read.         *)
(***************************************************************************)
EXTENDS Naturals, FiniteSets

CONSTANTS
  Tasks,           \* ids of tasks
  Calls,           \* bound: calls in flight at once
  None,
  Budgets          \* bound: how often each kind of outside event may happen

Kinds == {"complete", "edit", "other", "crash"}

VARIABLES
  row,             \* the rows of team_tasks
  call,            \* the calls in flight
  stale,           \* calls whose open transaction read before a later write
  used,            \* outside events so far
  cut,             \* by task, those of blockedBy that a failed call or an edit broke
  late             \* by task, those that were completed, or about to be, when linked

vars == <<row, call, stale, used, cut, late>>

\* Every other status than completed is alike here: pending, in progress, deleted.
Statuses == {"open", "completed"}

Row == [status : Statuses, blockedBy : SUBSET Tasks, blocks : SUBSET Tasks]

ASSUME BoardAssumption ==
  /\ None \notin Tasks /\ None \notin Statuses /\ None \notin Row
  /\ Budgets \subseteq [Kinds -> Nat]

Present == {t \in Tasks : row[t] # None}

\* todo: the rows still to be visited; next: the one the transaction is on;
\* seen: the list as it was read; status and deps: what an update asks for.
CallState ==
  [pc : {"idle", "insert", "link", "append", "update", "free", "remove"},
   task : Tasks \cup {None}, next : Tasks \cup {None},
   todo : SUBSET Tasks, seen : SUBSET Tasks,
   status : Statuses \cup {None}, deps : (SUBSET Tasks) \cup {None}]

Idle == [pc |-> "idle", task |-> None, next |-> None, todo |-> {}, seen |-> {},
         status |-> None, deps |-> None]

At(c, step) == call[c].pc = step

Init ==
  /\ row = [t \in Tasks |-> None]
  /\ call = [c \in Calls |-> Idle]
  /\ stale = {} /\ used = [k \in Kinds |-> 0]
  /\ cut = [t \in Tasks |-> {}] /\ late = [t \in Tasks |-> {}]

-----------------------------------------------------------------------------
(* Helpers *)

Spend(kind) ==
  /\ used' = [used EXCEPT ![kind] = @ + 1]
  /\ \E limit \in Budgets : \A k \in Kinds : used'[k] <= limit[k]

\* Bound: an id is left for the task that a call is about to create.
IdLeft ==
  Cardinality({c \in Calls : At(c, "insert")}) < Cardinality(Tasks \ Present)

\* A write makes the snapshot of every other open transaction stale.
Writes(c) == stale' = {o \in Calls \ {c} : call[o].pc \in {"append", "remove"}}

\* The call has still to list u in d, or to cross d out in u.
Pending(c, d, u) ==
  \/ call[c].pc \in {"link", "append"} /\ u = call[c].task /\ d \in call[c].todo
  \/ call[c].pc \in {"free", "remove"} /\ d = call[c].task /\ u \in call[c].todo

\* Somebody is completing the task, and has read whom it blocks.
Completing(t) ==
  \E c \in Calls : call[c].task = t /\ call[c].status = "completed"

\* The call is at an end, or goes on to the next row.
Proceed(c, step, todo) ==
  call' = [call EXCEPT ![c] = IF todo = {} THEN Idle
                              ELSE [@ EXCEPT !.pc = step, !.todo = todo, !.next = None, !.seen = {}]]

-----------------------------------------------------------------------------
(* create_task *)

\* All dependencies are looked up first.  Tasks never go away, so that the
\* look-ups are one step; one that fails ends the call with no effect.
Check(c, deps) ==
  /\ At(c, "idle") /\ IdLeft /\ deps \subseteq Present
  /\ call' = [call EXCEPT ![c] = [Idle EXCEPT !.pc = "insert", !.todo = deps]]
  /\ UNCHANGED <<row, stale, used, cut, late>>

\* The row goes in under a fresh id.
Insert(c) ==
  /\ At(c, "insert")
  /\ \E t \in Tasks \ Present :
       /\ row' = [row EXCEPT ![t] = [status |-> "open", blockedBy |-> call[c].todo, blocks |-> {}]]
       /\ call' = [call EXCEPT ![c] = IF @.todo = {} THEN Idle
                                      ELSE [@ EXCEPT !.pc = "link", !.task = t]]
  /\ Writes(c)
  /\ UNCHANGED <<used, cut, late>>

\* append_to_blocks reads the row of one dependency ...
Link(c) ==
  /\ At(c, "link")
  /\ \E d \in call[c].todo :
       call' = [call EXCEPT ![c].pc = "append", ![c].next = d, ![c].seen = row[d].blocks]
  /\ stale' = stale \ {c}
  /\ UNCHANGED <<row, used, cut, late>>

\* Mutant: the list is written whatever happened since it was read.
AppendBlindly(c) ==
  /\ At(c, "append")
  /\ LET d == call[c].next
         u == call[c].task
     IN /\ row' = [row EXCEPT ![d].blocks = call[c].seen \cup {u}]
        /\ late' = IF row[d].status = "completed" \/ Completing(d)
                     THEN [late EXCEPT ![u] = @ \cup {d}] ELSE late
        /\ Proceed(c, "link", call[c].todo \ {d})
  /\ Writes(c)
  /\ UNCHANGED <<used, cut>>

\* ... and writes it back with the new task added.
Append(c) ==
  /\ At(c, "append") /\ c \notin stale
  /\ LET d == call[c].next
         u == call[c].task
     IN /\ row' = [row EXCEPT ![d].blocks = call[c].seen \cup {u}]
        /\ late' = IF row[d].status = "completed" \/ Completing(d)
                     THEN [late EXCEPT ![u] = @ \cup {d}] ELSE late
        /\ Proceed(c, "link", call[c].todo \ {d})
  /\ Writes(c)
  /\ UNCHANGED <<used, cut>>

-----------------------------------------------------------------------------
(* update_task *)

\* The row is read, with the tasks it blocks.
Find(c, t, status, deps) ==
  /\ At(c, "idle") /\ t \in Present
  /\ Spend(IF deps # None THEN "edit" ELSE IF status = "completed" THEN "complete" ELSE "other")
  /\ call' = [call EXCEPT ![c] = [Idle EXCEPT !.pc = "update", !.task = t, !.seen = row[t].blocks,
                                              !.status = status, !.deps = deps]]
  /\ UNCHANGED <<row, stale, cut, late>>

\* The fields asked for are written; blocked_by is taken as it comes, known
\* ids or not, and the other side is left alone.  A task that is completed goes on to the tasks
\* it was seen to block.
Update(c) ==
  /\ At(c, "update")
  /\ LET t == call[c].task
         r == row[t]
         s == call[c].status
         deps == call[c].deps
     IN /\ row' = [row EXCEPT ![t] = [r EXCEPT !.status = IF s = None THEN @ ELSE s,
                                               !.blockedBy = IF deps = None THEN @ ELSE deps]]
        /\ cut' = IF deps = None THEN cut ELSE [cut EXCEPT ![t] = Tasks]
        /\ Proceed(c, "free", IF s = "completed" THEN call[c].seen ELSE {})
  /\ Writes(c)
  /\ UNCHANGED <<used, late>>

\* remove_from_blocked_by reads the row of one of them ...
Free(c) ==
  /\ At(c, "free")
  /\ \E u \in call[c].todo :
       call' = [call EXCEPT ![c].pc = "remove", ![c].next = u, ![c].seen = row[u].blockedBy]
  /\ stale' = stale \ {c}
  /\ UNCHANGED <<row, used, cut, late>>

\* Mutant: the list is written whatever happened since it was read.
RemoveBlindly(c) ==
  /\ At(c, "remove")
  /\ LET u == call[c].next
     IN /\ row' = [row EXCEPT ![u].blockedBy = call[c].seen \ {call[c].task}]
        /\ Proceed(c, "free", call[c].todo \ {u})
  /\ Writes(c)
  /\ UNCHANGED <<used, cut, late>>

\* ... and writes it back with this task crossed out.
Remove(c) ==
  /\ At(c, "remove") /\ c \notin stale
  /\ LET u == call[c].next
     IN /\ row' = [row EXCEPT ![u].blockedBy = call[c].seen \ {call[c].task}]
        /\ Proceed(c, "free", call[c].todo \ {u})
  /\ Writes(c)
  /\ UNCHANGED <<used, cut, late>>

-----------------------------------------------------------------------------
(* Failures *)

\* A transaction fails: another one, on the board or elsewhere in the
\* database, has written since it read.  The rows before it stay written.
Busy(c) ==
  /\ call[c].pc \in {"append", "remove"}
  /\ cut' = [u \in Tasks |-> cut[u] \cup {d \in Tasks : Pending(c, d, u)}]
  /\ call' = [call EXCEPT ![c] = Idle]
  /\ UNCHANGED <<row, stale, used, late>>

\* The server dies.
Crash ==
  /\ Spend("crash")
  /\ cut' = [u \in Tasks |-> cut[u] \cup {d \in Tasks : \E c \in Calls : Pending(c, d, u)}]
  /\ call' = [c \in Calls |-> Idle]
  /\ UNCHANGED <<row, stale, late>>

-----------------------------------------------------------------------------
(* The specification *)

Next ==
  \/ \E c \in Calls :
       \/ \E deps \in SUBSET Tasks : Check(c, deps)
       \/ Insert(c) \/ Link(c) \/ Append(c)
       \/ \E t \in Tasks, s \in Statuses \cup {None}, deps \in {None} \cup (SUBSET Tasks) : Find(c, t, s, deps)
       \/ Update(c) \/ Free(c) \/ Remove(c)
       \/ Busy(c)
  \/ Crash

Spec == Init /\ [][Next]_vars

-----------------------------------------------------------------------------
(* Properties *)

\* Every variable has its type, and no task names one that does not exist,
\* unless an edit (which looks nothing up) has put it there.
TypeOK ==
  /\ row \in [Tasks -> Row \cup {None}]
  /\ \A t \in Present : row[t].blocks \cup (row[t].blockedBy \ cut[t]) \subseteq Present
  /\ call \in [Calls -> CallState]
  /\ stale \subseteq Calls
  /\ used \in [Kinds -> Nat]
  /\ cut \in [Tasks -> SUBSET Tasks] /\ late \in [Tasks -> SUBSET Tasks]

\* u waits for d, and no call has still to list or to cross out the pair.
Waits(u, d) ==
  /\ row[u] # None /\ d \in row[u].blockedBy
  /\ d \notin cut[u]
  /\ \A c \in Calls : ~Pending(c, d, u)

\* Whatever calls ran side by side, a task that waits for another is listed
\* there: a lost entry would leave it waiting for ever.
DependencyIsMutual ==
  \A u, d \in Tasks : Waits(u, d) => u \in row[d].blocks

\* A completed task blocks nobody, but those that came too late.
CompletedBlocksNobody ==
  \A u, d \in Tasks :
    Waits(u, d) /\ row[d].status = "completed" => d \in late[u]
=============================================================================
