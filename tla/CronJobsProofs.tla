--------------------------- MODULE CronJobsProofs ---------------------------
(* Theorems about CronJobs, for any jobs, conversations, calls and budgets. *)
EXTENDS CronJobs, TLAPS

\* What a call in flight holds, by its kind and step.
Calling(c, b) ==
  /\ c.pc = "idle" => c = NoOp
  /\ c.kind = "none" => c.pc = "idle"
  /\ c.kind \notin {"none", "delete"} => c.job \in Jobs
  /\ c.kind = "delete" => c.job = None /\ c.conv \in Convs /\ c.pc \in {"list", "drop"}
  /\ c.pc \in {"read", "retry", "skip", "next"} => c.kind = "tick"
  /\ c.pc \in {"resolve", "start", "run", "count", "record"} => c.kind \in {"tick", "now"}
  /\ c.pc = "write" => c.kind = "edit"
  /\ c.pc = "arm" => c.kind \in {"edit", "resume"}
  /\ c.pc \in {"missed", "again"} => c.kind = "resume"
  /\ c.pc = "list" => c.kind = "delete"
  /\ c.pc = "drop" => c.kind \in {"remove", "delete"}
  /\ c.pc = "retry" => c.snap.retry < MaxRetries
  /\ c.pc \in {"start", "run"} => c.conv \in b
  /\ c.kind = "tick" /\ c.pc # "read" => c.snap \in Rows /\ c.snap.enabled
  /\ c.kind = "resume" => c.snap \in Rows /\ c.snap.enabled
  /\ c.kind \in {"now", "edit"} => c.snap \in Rows

CallsOK == \A o \in Ops : Calling(op[o], born)

\* Two edits of a job in flight have crossed, and one that sees the job
\* disabled while it is enabled has crossed another, or enables it itself.
EditsCross ==
  \A o, p \in Ops :
    /\ o # p /\ op[o].kind = "edit" /\ op[p].kind = "edit" /\ op[o].job = op[p].job
    => op[o].job \in crossed

EditSees ==
  \A o \in Ops :
    op[o].kind = "edit" /\ op[o].job \notin crossed /\ row[op[o].job].enabled =>
      \/ op[o].snap.enabled
      \/ op[o].pc = "write" /\ "enabled" \in op[o].asks

\* The call will arm or disable the job, or remove it.
Owes(o, j) ==
  \/ op[o].kind \in {"tick", "edit", "resume", "remove"} /\ op[o].job = j
  \/ op[o].kind = "delete" /\ op[o].pc = "drop" /\ row[j].conv = op[o].conv

Armed ==
  \A j \in Jobs \ (gone \cup crossed) :
    row[j].enabled /\ timer[j] = None => \E o \in Ops : Owes(o, j)

\* An edit that meets another call on its job overtakes it; the other calls,
\* and an edit once it is written, hold the schedule the row has.
EditsOvertake ==
  \A o, p \in Ops :
    /\ o # p /\ op[o].kind = "edit" /\ op[p].kind \notin {"none", "delete"}
    /\ op[o].job = op[p].job
    => op[o].job \in overtaken

Holds(c) ==
  \/ c.kind = "tick" /\ c.pc # "read"
  \/ c.kind = "resume"
  \/ c.kind = "edit" /\ (c.pc = "arm" \/ "sched" \notin c.asks)

SnapIsFresh ==
  \A o \in Ops :
    Holds(op[o]) /\ op[o].job \notin overtaken => op[o].snap.sched = row[op[o].job].sched

TimerIsFresh ==
  \A j \in Jobs \ overtaken :
    \/ timer[j] \in {None, "retry", row[j].sched}
    \/ \E o \in Ops : op[o].kind = "edit" /\ op[o].pc = "arm" /\ op[o].job = j

IInv == /\ TypeOK /\ CallsOK /\ EditsCross /\ EditSees /\ Armed
        /\ EditsOvertake /\ SnapIsFresh /\ TimerIsFresh

-----------------------------------------------------------------------------
(* Types, and what calls hold. *)

\* No call is of the type of calls, and needs nothing of the jobs there are.
LEMMA NoOpIsCall == NoOp \in Calls /\ \A b : Calling(NoOp, b)
BY DEF NoOp, Calls, Calling

\* A call that becomes another call keeps its type and what calls hold.
LEMMA CallChanges ==
  ASSUME op \in [Ops -> Calls], CallsOK, born \subseteq born',
         NEW o \in Ops, NEW STATE c, c \in Calls, Calling(c, born'),
         op' = [op EXCEPT ![o] = c]
  PROVE  op' \in [Ops -> Calls] /\ CallsOK'
<1>1. op' \in [Ops -> Calls]
  OBVIOUS
<1>2. ASSUME NEW p \in Ops PROVE Calling(op'[p], born')
  <2>1. CASE p = o
    BY <2>1
  <2>2. CASE p # o
    <3>1. op'[p] = op[p] /\ Calling(op[p], born)
      BY <2>2 DEF CallsOK
    <3> QED
      BY <3>1 DEF Calling
  <2> QED
    BY <2>1, <2>2
<1> QED
  BY <1>1, <1>2 DEF CallsOK

\* A call that ends leaves the calls well formed.
LEMMA CallEnds ==
  ASSUME op \in [Ops -> Calls], CallsOK, born \subseteq born', NEW o \in Ops, Ends(o)
  PROVE  op' \in [Ops -> Calls] /\ CallsOK'
BY CallChanges, NoOpIsCall DEF Ends

\* A step of a call leaves the calls well formed.
LEMMA CallsStep ==
  ASSUME TypeOK, CallsOK, NEW o \in Ops, Step(o)
  PROVE  op' \in [Ops -> Calls] /\ CallsOK'
<1> USE CronAssumption DEF At
<1>0. /\ op \in [Ops -> Calls] /\ op[o] \in Calls /\ Calling(op[o], born)
      /\ row \in [Jobs -> Rows]
  BY DEF TypeOK, CallsOK
<1>1. CASE TickRead(o)
  <2> DEFINE c == [op[o] EXCEPT !.snap = row[op[o].job], !.pc = Verdict(row[op[o].job])]
  <2>1. born' = born /\ (Ends(o) \/ (row[op[o].job].enabled /\ op' = [op EXCEPT ![o] = c]))
    BY <1>1, <1>0 DEF TickRead, Calls
  <2>2. c \in Calls
    BY <1>1, <1>0 DEF TickRead, Verdict, Calls, Steps, Calling
  <2>3. row[op[o].job].enabled => Calling(c, born)
    BY <1>1, <1>0 DEF TickRead, Verdict, Calls, Calling, NoOp, Rows
  <2> QED
    BY <2>1, <2>2, <2>3, <1>0, CallChanges, CallEnds
<1>2. CASE Retry(o)
  BY <1>2, <1>0, CallEnds DEF Retry
<1>3. CASE Skip(o)
  <2> DEFINE c == [op[o] EXCEPT !.pc = "next"]
  <2>1. born' = born /\ op' = [op EXCEPT ![o] = c]
    BY <1>3, <1>0 DEF Skip, Goto
  <2>2. c \in Calls /\ Calling(c, born)
    BY <1>3, <1>0 DEF Skip, Calls, Steps, Calling, NoOp
  <2> QED
    BY <2>1, <2>2, <1>0, CallChanges
<1>4. CASE Reschedule(o)
  BY <1>4, <1>0, CallEnds DEF Reschedule
<1>5. CASE Resolve(o)
  <2> DEFINE c == [op[o] EXCEPT !.pc = "count"]
             d(x) == [op[o] EXCEPT !.pc = "start", !.conv = x]
  <2>1. /\ born \subseteq born' /\ born' \subseteq Convs
        /\ \/ Ends(o)
           \/ op' = [op EXCEPT ![o] = c]
           \/ \E x \in Convs : x \in born' /\ op' = [op EXCEPT ![o] = d(x)]
    <3>1. CASE NotStarted(o) /\ UNCHANGED <<live, born>>
      BY <3>1, <1>0 DEF NotStarted, Ends, TypeOK
    <3>2. ASSUME op[o].snap.conv \in live,
                 op' = [op EXCEPT ![o].pc = "start", ![o].conv = op[o].snap.conv],
                 UNCHANGED <<live, born>>
          PROVE  \E x \in Convs : x \in born' /\ op' = [op EXCEPT ![o] = d(x)]
      BY <3>2, <1>0 DEF TypeOK
    <3>3. ASSUME NEW x \in Convs \ born, born' = born \cup {x},
                 op' = [op EXCEPT ![o].pc = "start", ![o].conv = x]
          PROVE  op' = [op EXCEPT ![o] = d(x)]
      BY <3>3, <1>0
    <3> QED
      BY <1>5, <3>1, <3>2, <3>3 DEF Resolve, TypeOK
  <2>2. op[o].kind # "now" => c \in Calls /\ Calling(c, born')
    BY <1>5, <1>0 DEF Resolve, Calls, Steps, Calling, NoOp
  <2>3. \A x \in Convs : x \in born' => d(x) \in Calls /\ Calling(d(x), born')
    BY <1>5, <1>0 DEF Resolve, Calls, Steps, Calling, NoOp
  <2>4. c \in Calls /\ Calling(c, born')
    BY <1>5, <1>0 DEF Resolve, Calls, Steps, Calling, NoOp
  <2> QED
    BY <2>1, <2>3, <2>4, <1>0, CallChanges, CallEnds
<1>6. CASE Start(o)
  <2> DEFINE c == [op[o] EXCEPT !.pc = "run"]
  <2>1. born' = born /\ op' = [op EXCEPT ![o] = c]
    BY <1>6, <1>0 DEF Start, Goto
  <2>2. c \in Calls /\ Calling(c, born)
    BY <1>6, <1>0 DEF Start, Calls, Steps, Calling, NoOp
  <2> QED
    BY <2>1, <2>2, <1>0, CallChanges
<1>7. CASE Run(o)
  <2> DEFINE c(ok) == [op[o] EXCEPT !.pc = "count", !.ok = ok]
  <2>1. born' = born /\ \E ok \in BOOLEAN : op' = [op EXCEPT ![o] = c(ok)]
    BY <1>7, <1>0 DEF Run
  <2>2. \A ok \in BOOLEAN : c(ok) \in Calls /\ Calling(c(ok), born)
    BY <1>7, <1>0 DEF Run, Calls, Steps, Calling, NoOp
  <2> QED
    BY <2>1, <2>2, <1>0, CallChanges
<1>8. CASE Count(o)
  <2> DEFINE c == [op[o] EXCEPT !.pc = "next"]
             d(ok) == [op[o] EXCEPT !.pc = "record", !.ok = ok]
  <2>1. /\ born' = born
        /\ \/ Ends(o)
           \/ op[o].kind # "now" /\ op' = [op EXCEPT ![o] = c]
           \/ \E ok \in BOOLEAN : op' = [op EXCEPT ![o] = d(ok)]
    BY <1>8, <1>0 DEF Count, Recorded, Ends, Calls
  <2>2. op[o].kind # "now" => c \in Calls /\ Calling(c, born)
    BY <1>8, <1>0 DEF Count, Calls, Steps, Calling, NoOp
  <2>3. \A ok \in BOOLEAN : d(ok) \in Calls /\ Calling(d(ok), born)
    BY <1>8, <1>0 DEF Count, Calls, Steps, Calling, NoOp
  <2> QED
    BY <2>1, <2>2, <2>3, <1>0, CallChanges, CallEnds
<1>9. CASE Record(o)
  <2> DEFINE c == [op[o] EXCEPT !.pc = "next"]
  <2>1. born' = born /\ (Ends(o) \/ (op[o].kind # "now" /\ op' = [op EXCEPT ![o] = c]))
    BY <1>9, <1>0 DEF Record, Recorded, Ends
  <2>2. op[o].kind # "now" => c \in Calls /\ Calling(c, born)
    BY <1>9, <1>0 DEF Record, Calls, Steps, Calling, NoOp
  <2> QED
    BY <2>1, <2>2, <1>0, CallChanges, CallEnds
<1>10. CASE EditWrite(o)
  <2> DEFINE c == [op[o] EXCEPT !.pc = "arm"]
  <2>1. born' = born /\ (Ends(o) \/ op' = [op EXCEPT ![o] = c])
    BY <1>10, <1>0 DEF EditWrite, Goto
  <2>2. c \in Calls /\ Calling(c, born)
    BY <1>10, <1>0 DEF EditWrite, Calls, Steps, Calling, NoOp
  <2> QED
    BY <2>1, <2>2, <1>0, CallChanges, CallEnds
<1>11. CASE Rearm(o)
  BY <1>11, <1>0, CallEnds DEF Rearm
<1>12. CASE RemoveRow(o)
  BY <1>12, <1>0, CallEnds DEF RemoveRow
<1>13. CASE Missed(o)
  <2> DEFINE c == [op[o] EXCEPT !.pc = "again"]
  <2>1. born' = born /\ op' = [op EXCEPT ![o] = c]
    BY <1>13, <1>0 DEF Missed, Goto
  <2>2. c \in Calls /\ Calling(c, born)
    BY <1>13, <1>0 DEF Missed, Calls, Steps, Calling, NoOp
  <2> QED
    BY <2>1, <2>2, <1>0, CallChanges
<1>14. CASE Again(o)
  BY <1>14, <1>0, CallEnds DEF Again
<1>15. CASE Cascade(o)
  <2> DEFINE c == [op[o] EXCEPT !.pc = "drop"]
  <2>1. born' = born /\ op' = [op EXCEPT ![o] = c]
    BY <1>15, <1>0 DEF Cascade, Goto
  <2>2. c \in Calls /\ Calling(c, born)
    BY <1>15, <1>0 DEF Cascade, Calls, Steps, Calling, NoOp
  <2> QED
    BY <2>1, <2>2, <1>0, CallChanges
<1>16. CASE CascadeRows(o)
  BY <1>16, <1>0, CallEnds DEF CascadeRows
<1> QED
  BY <1>1, <1>2, <1>3, <1>4, <1>5, <1>6, <1>7, <1>8, <1>9, <1>10, <1>11, <1>12,
     <1>13, <1>14, <1>15, <1>16 DEF Step

\* The rows the steps write are rows.
LEMMA RowChanges ==
  ASSUME NEW r \in Rows, NEW c \in Convs \cup {None}, NEW b
  PROVE  /\ [r EXCEPT !.enabled = FALSE] \in Rows
         /\ [r EXCEPT !.retry = 0] \in Rows
         /\ [r EXCEPT !.retry = 0, !.conv = IF b THEN c ELSE @] \in Rows
<1>1. 0 \in 0 .. MaxRetries
  BY CronAssumption
<1> QED
  BY <1>1 DEF Rows

\* A step of a call writes data of their types.
LEMMA DataStep ==
  ASSUME TypeOK, CallsOK, NEW o \in Ops, Step(o)
  PROVE  /\ row' \in [Jobs -> Rows] /\ gone' \subseteq Jobs
         /\ timer' \in [Jobs -> Timers \cup {None}]
         /\ born' \subseteq Convs /\ live' \subseteq born' /\ busy' \subseteq born'
         /\ used' \in [Kinds -> Nat]
         /\ crossed' \subseteq Jobs /\ overtaken' \subseteq Jobs
<1> USE CronAssumption DEF At
<1>0. /\ op[o] \in Calls /\ Calling(op[o], born)
      /\ op[o].kind \notin {"none", "delete"} => op[o].job \in Jobs
  BY DEF TypeOK, CallsOK, Calling
<1> USE <1>0 DEF TypeOK
<1>1. CASE TickRead(o)
  BY <1>1 DEF TickRead, NotFound, Cancel
<1>2. CASE Retry(o)
  BY <1>2 DEF Retry, Update, Calling, Rows, Timers
<1>3. CASE Skip(o)
  BY <1>3 DEF Skip, Update, Calling, Rows
<1>4. CASE Reschedule(o)
  <2>1. row' \in [Jobs -> Rows]
    <3>1. \/ row' = row
          \/ row' = [row EXCEPT ![op[o].job] = [row[op[o].job] EXCEPT !.enabled = FALSE]]
      BY <1>4 DEF Reschedule, Update
    <3>2. op[o].job \in Jobs
      BY <1>4 DEF Reschedule, Calling
    <3>3. [row[op[o].job] EXCEPT !.enabled = FALSE] \in Rows
      BY <3>2, RowChanges
    <3> QED
      BY <3>1, <3>2, <3>3
  <2>2. timer' \in [Jobs -> Timers \cup {None}]
    BY <1>4 DEF Reschedule, Cancel, Arm, Calling, Rows, Timers, Schedules
  <2> QED
    BY <1>4, <2>1, <2>2 DEF Reschedule
<1>5. CASE Resolve(o)
  BY <1>5 DEF Resolve
<1>6. CASE Start(o)
  BY <1>6 DEF Start, Calling
<1>7. CASE Run(o)
  BY <1>7 DEF Run
<1>8. CASE Count(o)
  BY <1>8 DEF Count
<1>9. CASE Record(o)
  <2>1. /\ op[o].job \in Jobs
        /\ op[o].conv \in Convs \cup {None}
    BY <1>9 DEF Record, Calling, Calls
  <2>2. row[op[o].job] \in Rows
    BY <2>1
  <2>3. [row[op[o].job] EXCEPT !.retry = 0, !.conv = IF op[o].ok THEN op[o].conv ELSE @] \in Rows
    BY <2>1, <2>2, RowChanges
  <2>4. row' \in [Jobs -> Rows]
    BY <1>9, <2>1, <2>3 DEF Record, Update
  <2> QED
    BY <1>9, <2>1, <2>4 DEF Record
<1>10. CASE EditWrite(o)
  BY <1>10 DEF EditWrite, Calling, Rows
<1>11. CASE Rearm(o)
  BY <1>11 DEF Rearm, Arm, Calling, Rows, Timers
<1>12. CASE RemoveRow(o)
  BY <1>12 DEF RemoveRow
<1>13. CASE Missed(o)
  BY <1>13 DEF Missed, Update, Calling, Rows
<1>14. CASE Again(o)
  <2>1. row' \in [Jobs -> Rows]
    <3>1. \/ row' = row
          \/ row' = [row EXCEPT ![op[o].job] = [row[op[o].job] EXCEPT !.enabled = FALSE]]
      BY <1>14 DEF Again, Update
    <3>2. op[o].job \in Jobs
      BY <1>14 DEF Again, Calling
    <3>3. [row[op[o].job] EXCEPT !.enabled = FALSE] \in Rows
      BY <3>2, RowChanges
    <3> QED
      BY <3>1, <3>2, <3>3
  <2>2. timer' \in [Jobs -> Timers \cup {None}]
    BY <1>14 DEF Again, Cancel, Arm, Calling, Rows, Timers, Schedules
  <2> QED
    BY <1>14, <2>1, <2>2 DEF Again
<1>15. CASE Cascade(o)
  BY <1>15 DEF Cascade
<1>16. CASE CascadeRows(o)
  BY <1>16 DEF CascadeRows, Bound
<1> QED
  BY <1>1, <1>2, <1>3, <1>4, <1>5, <1>6, <1>7, <1>8, <1>9, <1>10, <1>11, <1>12,
     <1>13, <1>14, <1>15, <1>16 DEF Step

\* A call begins: its record, and what it does to the two sets of jobs.
LEMMA CallBegins ==
  ASSUME TypeOK, CallsOK, born' = born, NEW o \in Ops, NEW kind, NEW STATE j, j \in Jobs,
         NEW step, NEW STATE snap, NEW asks,
         [NoOp EXCEPT !.kind = kind, !.pc = step, !.job = j, !.snap = snap, !.asks = asks] \in Calls,
         Calling([NoOp EXCEPT !.kind = kind, !.pc = step, !.job = j, !.snap = snap,
                              !.asks = asks], born),
         BeginAsking(o, kind, j, step, snap, asks)
  PROVE  /\ op' \in [Ops -> Calls] /\ CallsOK'
         /\ crossed' \subseteq Jobs /\ overtaken' \subseteq Jobs
<1>1. op' \in [Ops -> Calls] /\ CallsOK'
  BY CallChanges DEF BeginAsking, TypeOK
<1>2. crossed' \subseteq Jobs /\ overtaken' \subseteq Jobs
  BY DEF BeginAsking, TypeOK
<1> QED
  BY <1>1, <1>2

\* Every step keeps the types and the calls well formed.
LEMMA TypeNext ==
  ASSUME TypeOK, CallsOK, [Next]_vars
  PROVE  TypeOK' /\ CallsOK'
<1> USE CronAssumption
<1>0. NoOp \in Calls /\ row \in [Jobs -> Rows]
  BY NoOpIsCall DEF TypeOK
<1>1. ASSUME NEW o \in Ops, Step(o) PROVE TypeOK' /\ CallsOK'
  BY <1>1, CallsStep, DataStep DEF TypeOK
<1>2. ASSUME NEW j \in Jobs, Fire(j) PROVE TypeOK' /\ CallsOK'
  <2>1. PICK o \in Ops : BeginAsking(o, "tick", j, "read", None, {})
    BY <1>2 DEF Fire, Begin
  <2> DEFINE c == [NoOp EXCEPT !.kind = "tick", !.pc = "read", !.job = j, !.snap = None, !.asks = {}]
  <2>2. c \in Calls /\ Calling(c, born)
    BY DEF NoOp, Calls, Calling, Steps, Kinds
  <2>3. UNCHANGED <<row, gone, busy, live, born, used>>
    BY <1>2 DEF Fire
  <2>4. /\ op' \in [Ops -> Calls] /\ CallsOK'
        /\ crossed' \subseteq Jobs /\ overtaken' \subseteq Jobs
    BY <2>1, <2>2, <2>3, CallBegins
  <2>5. timer' \in [Jobs -> Timers \cup {None}]
    BY <1>2 DEF Fire, TypeOK
  <2> QED
    BY <2>3, <2>4, <2>5 DEF TypeOK
<1>3. ASSUME NEW o \in Ops, NEW j \in Jobs, RunNow(o, j) PROVE TypeOK' /\ CallsOK'
  <2> DEFINE c == [NoOp EXCEPT !.kind = "now", !.pc = "resolve", !.job = j, !.snap = row[j], !.asks = {}]
  <2>1. BeginAsking(o, "now", j, "resolve", row[j], {}) /\ UNCHANGED <<row, gone, timer, busy, live, born>>
    BY <1>3 DEF RunNow, Begin
  <2>2. c \in Calls /\ Calling(c, born)
    BY <1>0, ZenonT(60) DEF NoOp, Calls, Calling, Steps, Kinds
  <2>3. /\ op' \in [Ops -> Calls] /\ CallsOK'
        /\ crossed' \subseteq Jobs /\ overtaken' \subseteq Jobs
    BY <2>1, <2>2, CallBegins
  <2>4. used' \in [Kinds -> Nat]
    BY <1>3 DEF RunNow, Spend, TypeOK, Kinds
  <2> QED
    BY <2>1, <2>3, <2>4 DEF TypeOK
<1>4. ASSUME NEW o \in Ops, NEW j \in Jobs, Edit(o, j) PROVE TypeOK' /\ CallsOK'
  <2>0. UNCHANGED <<row, gone, timer, busy, live, born>>
    BY <1>4 DEF Edit
  <2>1. PICK asks \in SUBSET {"enabled", "sched"}, e \in BOOLEAN, s \in Schedules :
          BeginAsking(o, "edit", j, "write",
                      [row[j] EXCEPT !.enabled = IF "enabled" \in asks THEN e ELSE @,
                                     !.sched = IF "sched" \in asks THEN s ELSE @], asks)
    BY <1>4 DEF Edit
  <2> DEFINE r == [row[j] EXCEPT !.enabled = IF "enabled" \in asks THEN e ELSE @,
                                 !.sched = IF "sched" \in asks THEN s ELSE @]
             c == [NoOp EXCEPT !.kind = "edit", !.pc = "write", !.job = j, !.snap = r, !.asks = asks]
  <2>2. r \in Rows
    BY <1>0, ZenonT(60) DEF Rows
  <2>3. c \in Calls /\ Calling(c, born)
    <3> HIDE DEF r
    <3> QED
      BY <2>2, <1>0, ZenonT(60) DEF NoOp, Calls, Calling, Steps, Kinds
  <2>4. /\ op' \in [Ops -> Calls] /\ CallsOK'
        /\ crossed' \subseteq Jobs /\ overtaken' \subseteq Jobs
    BY <2>0, <2>1, <2>3, CallBegins
  <2>5. used' \in [Kinds -> Nat]
    BY <1>4 DEF Edit, Spend, TypeOK, Kinds
  <2> QED
    BY <2>0, <2>4, <2>5 DEF TypeOK
<1>5. ASSUME NEW o \in Ops, NEW j \in Jobs, Remove(o, j) PROVE TypeOK' /\ CallsOK'
  <2> DEFINE c == [NoOp EXCEPT !.kind = "remove", !.pc = "drop", !.job = j, !.snap = None, !.asks = {}]
  <2>1. BeginAsking(o, "remove", j, "drop", None, {}) /\ UNCHANGED <<row, gone, busy, live, born>>
    BY <1>5 DEF Remove, Begin
  <2>2. c \in Calls /\ Calling(c, born)
    BY DEF NoOp, Calls, Calling, Steps, Kinds
  <2>3. /\ op' \in [Ops -> Calls] /\ CallsOK'
        /\ crossed' \subseteq Jobs /\ overtaken' \subseteq Jobs
    BY <2>1, <2>2, CallBegins
  <2>4. used' \in [Kinds -> Nat] /\ timer' \in [Jobs -> Timers \cup {None}]
    BY <1>5 DEF Remove, Cancel, Spend, TypeOK, Kinds
  <2> QED
    BY <2>1, <2>3, <2>4 DEF TypeOK
<1>6. ASSUME NEW o \in Ops, NEW j \in Jobs, Resume(o, j) PROVE TypeOK' /\ CallsOK'
  <2>1. PICK step \in {"arm", "missed"} : BeginAsking(o, "resume", j, step, row[j], {})
    BY <1>6 DEF Resume, Begin
  <2> DEFINE c == [NoOp EXCEPT !.kind = "resume", !.pc = step, !.job = j, !.snap = row[j], !.asks = {}]
  <2>2. c \in Calls /\ Calling(c, born)
    BY <1>0, <1>6 DEF Resume, NoOp, Calls, Calling, Steps, Kinds
  <2>3. UNCHANGED <<row, gone, timer, busy, live, born>>
    BY <1>6 DEF Resume
  <2>4. /\ op' \in [Ops -> Calls] /\ CallsOK'
        /\ crossed' \subseteq Jobs /\ overtaken' \subseteq Jobs
    BY <2>1, <2>2, <2>3, CallBegins
  <2>5. used' \in [Kinds -> Nat]
    BY <1>6 DEF Resume, Spend, TypeOK, Kinds
  <2> QED
    BY <2>3, <2>4, <2>5 DEF TypeOK
<1>7. ASSUME NEW o \in Ops, NEW d \in Convs, DeleteConversation(o, d) PROVE TypeOK' /\ CallsOK'
  <2> DEFINE c == [NoOp EXCEPT !.kind = "delete", !.pc = "list", !.conv = d]
  <2>1. op' = [op EXCEPT ![o] = c] /\ UNCHANGED <<row, gone, timer, busy, born, crossed, overtaken>>
    BY <1>7 DEF DeleteConversation
  <2>2. c \in Calls /\ Calling(c, born)
    BY DEF NoOp, Calls, Calling, Steps, Kinds
  <2>3. op' \in [Ops -> Calls] /\ CallsOK'
    <3> HIDE DEF c
    <3> QED
      BY <2>1, <2>2, CallChanges DEF TypeOK
  <2>4. used' \in [Kinds -> Nat] /\ live' \subseteq live
    BY <1>7 DEF DeleteConversation, Spend, TypeOK, Kinds
  <2> QED
    BY <2>1, <2>3, <2>4 DEF TypeOK
<1>8. CASE Restart
  <2>1. op' \in [Ops -> Calls] /\ CallsOK'
    BY <1>8, NoOpIsCall DEF Restart, CallsOK
  <2>2. used' \in [Kinds -> Nat] /\ gone' \subseteq Jobs
    BY <1>8 DEF Restart, Orphans, Spend, TypeOK, Kinds
  <2>3. timer' \in [Jobs -> Timers \cup {None}]
    BY <1>8, <1>0 DEF Restart, Rows, Timers
  <2> QED
    BY <1>8, <2>1, <2>2, <2>3 DEF Restart, TypeOK
<1>9. CASE UNCHANGED vars
  BY <1>9 DEF vars, TypeOK, CallsOK
<1> QED
  BY <1>1, <1>2, <1>3, <1>4, <1>5, <1>6, <1>7, <1>8, <1>9 DEF Next, Call

-----------------------------------------------------------------------------
(* Edits, timers and schedules. *)

\* What the steps of an execution do to the calls.
LEMMA ExecutionKeeps ==
  ASSUME TypeOK, CallsOK, NEW o \in Ops,
         TickRead(o) \/ Resolve(o) \/ Count(o) \/ Record(o)
  PROVE  /\ \A p \in Ops : p # o => op'[p] = op[p]
         /\ op[o].kind \in {"tick", "now"}
         /\ op[o].job \in Jobs
         /\ \/ op'[o].kind = "none"
            \/ /\ op'[o].kind = op[o].kind /\ op'[o].job = op[o].job
               /\ op'[o].pc # "read"
               /\ op[o].pc # "read" => op'[o].snap = op[o].snap
               /\ op[o].pc = "read" => op'[o].snap = row[op[o].job]
<1>0. op \in [Ops -> Calls] /\ op[o] \in Calls /\ Calling(op[o], born)
  BY DEF TypeOK, CallsOK
<1>1. op[o].kind \in {"tick", "now"} /\ op[o].job \in Jobs
  BY <1>0 DEF TickRead, Resolve, Count, Record, At, Calling
<1>2. NoOp.kind = "none"
  BY DEF NoOp
<1>3. CASE TickRead(o)
  <2> DEFINE c == [op[o] EXCEPT !.snap = row[op[o].job], !.pc = Verdict(row[op[o].job])]
  <2>1. op' = [op EXCEPT ![o] = NoOp] \/ op' = [op EXCEPT ![o] = c]
    BY <1>0, <1>3 DEF TickRead, Ends
  <2>2. /\ c.kind = op[o].kind /\ c.job = op[o].job /\ c.pc # "read" /\ c.snap = row[op[o].job]
    BY <1>0 DEF Calls, Verdict
  <2>3. op[o].pc = "read"
    BY <1>3 DEF TickRead, At
  <2> HIDE DEF c
  <2> QED
    BY <1>0, <1>1, <1>2, <2>1, <2>2, <2>3
<1>4. CASE Resolve(o)
  <2> DEFINE c(step, x) == [op[o] EXCEPT !.pc = step, !.conv = x]
             d == [op[o] EXCEPT !.pc = "count"]
  <2>1. \/ op' = [op EXCEPT ![o] = NoOp] \/ op' = [op EXCEPT ![o] = d]
        \/ \E x : op' = [op EXCEPT ![o] = c("start", x)]
    BY <1>0, <1>4 DEF Resolve, NotStarted
  <2>2. /\ d.kind = op[o].kind /\ d.job = op[o].job /\ d.pc = "count" /\ d.snap = op[o].snap
    BY <1>0 DEF Calls
  <2>3. \A x : LET e == c("start", x)
               IN e.kind = op[o].kind /\ e.job = op[o].job /\ e.pc = "start" /\ e.snap = op[o].snap
    BY <1>0 DEF Calls
  <2>4. op[o].pc = "resolve"
    BY <1>4 DEF Resolve, At
  <2> HIDE DEF c, d
  <2> QED
    BY <1>0, <1>1, <1>2, <2>1, <2>2, <2>3, <2>4
<1>5. CASE Count(o)
  <2> DEFINE c(b) == [op[o] EXCEPT !.pc = "record", !.ok = b]
             d == [op[o] EXCEPT !.pc = "next"]
  <2>1. \/ op' = [op EXCEPT ![o] = NoOp] \/ op' = [op EXCEPT ![o] = d]
        \/ \E b : op' = [op EXCEPT ![o] = c(b)]
    BY <1>0, <1>5 DEF Count, Recorded
  <2>2. /\ d.kind = op[o].kind /\ d.job = op[o].job /\ d.pc = "next" /\ d.snap = op[o].snap
    BY <1>0 DEF Calls
  <2>3. \A b : LET e == c(b)
               IN e.kind = op[o].kind /\ e.job = op[o].job /\ e.pc = "record" /\ e.snap = op[o].snap
    BY <1>0 DEF Calls
  <2>4. op[o].pc = "count"
    BY <1>5 DEF Count, At
  <2> HIDE DEF c, d
  <2> QED
    BY <1>0, <1>1, <1>2, <2>1, <2>2, <2>3, <2>4
<1>6. CASE Record(o)
  <2> DEFINE d == [op[o] EXCEPT !.pc = "next"]
  <2>1. op' = [op EXCEPT ![o] = NoOp] \/ op' = [op EXCEPT ![o] = d]
    BY <1>0, <1>6 DEF Record, Recorded
  <2>2. /\ d.kind = op[o].kind /\ d.job = op[o].job /\ d.pc = "next" /\ d.snap = op[o].snap
    BY <1>0 DEF Calls
  <2>3. op[o].pc = "record"
    BY <1>6 DEF Record, At
  <2> HIDE DEF d
  <2> QED
    BY <1>0, <1>1, <1>2, <2>1, <2>2, <2>3
<1> QED
  BY <1>3, <1>4, <1>5, <1>6

\* What an edit writes.
LEMMA EditWrites ==
  ASSUME TypeOK, CallsOK, NEW o \in Ops, EditWrite(o)
  PROVE  /\ \A p \in Ops : p # o => op'[p] = op[p]
         /\ op[o].kind = "edit" /\ op[o].job \in Jobs /\ op[o].pc = "write"
         /\ \/ op'[o].kind = "none" /\ row' = row
            \/ /\ op'[o].kind = "edit" /\ op'[o].job = op[o].job /\ op'[o].pc = "arm"
               /\ op'[o].snap = op[o].snap /\ op'[o].asks = op[o].asks
               /\ \A j \in Jobs : j # op[o].job => row'[j] = row[j]
               /\ row'[op[o].job].enabled =
                    IF "enabled" \in op[o].asks THEN op[o].snap.enabled ELSE row[op[o].job].enabled
               /\ row'[op[o].job].sched =
                    IF "sched" \in op[o].asks THEN op[o].snap.sched ELSE row[op[o].job].sched
<1>0. /\ op \in [Ops -> Calls] /\ op[o] \in Calls /\ Calling(op[o], born)
      /\ row \in [Jobs -> Rows]
  BY DEF TypeOK, CallsOK
<1>1. op[o].kind = "edit" /\ op[o].job \in Jobs /\ op[o].pc = "write"
  BY <1>0 DEF EditWrite, At, Calling
<1>2. CASE Ends(o) /\ UNCHANGED row
  BY <1>0, <1>1, <1>2 DEF Ends, NoOp
<1>3. CASE ~(Ends(o) /\ UNCHANGED row)
  <2> DEFINE c == [op[o] EXCEPT !.pc = "arm"]
             r == [row[op[o].job] EXCEPT
                     !.enabled = IF "enabled" \in op[o].asks THEN op[o].snap.enabled ELSE @,
                     !.sched = IF "sched" \in op[o].asks THEN op[o].snap.sched ELSE @]
  <2>1. op' = [op EXCEPT ![o] = c]
    BY <1>0, <1>3 DEF EditWrite, Goto
  <2>2. row' = [row EXCEPT ![op[o].job] = r]
    BY <1>0, <1>1, <1>3 DEF EditWrite, Rows
  <2>3. /\ c.kind = op[o].kind /\ c.job = op[o].job /\ c.pc = "arm"
        /\ c.snap = op[o].snap /\ c.asks = op[o].asks
    BY <1>0 DEF Calls
  <2>4. row[op[o].job] \in Rows
    BY <1>0, <1>1
  <2>5. /\ r.enabled = IF "enabled" \in op[o].asks THEN op[o].snap.enabled ELSE row[op[o].job].enabled
        /\ r.sched = IF "sched" \in op[o].asks THEN op[o].snap.sched ELSE row[op[o].job].sched
    BY <2>4 DEF Rows
  <2> HIDE DEF c, r
  <2> QED
    BY <1>0, <1>1, <2>1, <2>2, <2>3, <2>5
<1> QED
  BY <1>1, <1>2, <1>3

\* Edits.
LEMMA EditsStep ==
  ASSUME TypeOK, CallsOK, EditsCross, EditSees, NEW o \in Ops, Step(o)
  PROVE  EditsCross' /\ EditSees'
<1>1. CASE TickRead(o) \/ Resolve(o) \/ Count(o)
  <2>1. row' = row /\ crossed' = crossed
    BY <1>1 DEF TickRead, Resolve, Count
  <2> QED
    BY <1>1, <2>1, ExecutionKeeps DEF EditsCross, EditSees
<1>5. CASE Record(o)
  <2>1. op[o].job \in Jobs /\ row \in [Jobs -> Rows]
    BY <1>5, ExecutionKeeps DEF TypeOK
  <2>2. \A j \in Jobs : row'[j].enabled = row[j].enabled
    BY <1>5, <2>1 DEF Record, Update, Rows
  <2>3. crossed \subseteq crossed'
    BY <1>5 DEF Record
  <2>4. \A p \in Ops : op[p].kind = "edit" => op[p].job \in Jobs
    BY DEF CallsOK, Calling
  <2>5. \A p \in Ops : op'[p].kind = "edit" => p # o /\ op'[p] = op[p]
    BY <1>5, ExecutionKeeps
  <2> QED
    BY <2>2, <2>3, <2>4, <2>5 DEF EditsCross, EditSees
<1>10. CASE EditWrite(o)
  <2>1. crossed' = crossed
    BY <1>10 DEF EditWrite
  <2>2. \A p \in Ops : op[p].kind = "edit" => op[p].job \in Jobs
    BY DEF CallsOK, Calling
  <2>3. EditsCross'
    BY <1>10, <2>1, EditWrites DEF EditsCross
  <2>4. ASSUME NEW p \in Ops, op'[p].kind = "edit", op[p].job \notin crossed, row'[op[p].job].enabled
        PROVE  op'[p].snap.enabled \/ (op'[p].pc = "write" /\ "enabled" \in op'[p].asks)
    <3>1. CASE p = o
      BY <1>10, <2>4, <3>1, EditWrites DEF EditSees
    <3>2. CASE p # o
      <4>1. op'[p] = op[p] /\ op[p].job \in Jobs
        BY <1>10, <2>2, <2>4, <3>2, EditWrites
      <4>2. op[p].job # op[o].job
        BY <1>10, <2>4, <3>2, <4>1, EditWrites DEF EditsCross
      <4>3. row'[op[p].job] = row[op[p].job]
        BY <1>10, <4>1, <4>2, EditWrites
      <4> QED
        BY <2>4, <4>1, <4>3 DEF EditSees
    <3> QED
      BY <3>1, <3>2
  <2>5. \A p \in Ops : op'[p].kind = "edit" => op'[p].job = op[p].job
    BY <1>10, EditWrites
  <2> QED
    BY <2>1, <2>3, <2>4, <2>5 DEF EditSees
<1> USE CronAssumption DEF At, TypeOK, CallsOK, Calling, Rows, NoOp, EditsCross, EditSees
<1>2. CASE Retry(o)
  BY <1>2 DEF Retry, Update, Ends
<1>3. CASE Skip(o)
  BY <1>3 DEF Skip, Update, Goto
<1>4. CASE Reschedule(o)
  BY <1>4 DEF Reschedule, Update, Cancel, Arm, Ends
<1>6. CASE Start(o)
  BY <1>6 DEF Start, Goto
<1>7. CASE Run(o)
  BY <1>7 DEF Run
<1>11. CASE Rearm(o)
  BY <1>11 DEF Rearm, Arm, Ends
<1>12. CASE RemoveRow(o)
  BY <1>12 DEF RemoveRow, Ends
<1>13. CASE Missed(o)
  BY <1>13 DEF Missed, Update, Goto
<1>14. CASE Again(o)
  BY SMTT(30), <1>14 DEF Again, Update, Cancel, Arm, Ends
<1>15. CASE Cascade(o)
  BY <1>15 DEF Cascade, Bound, Goto
<1>16. CASE CascadeRows(o)
  BY <1>16 DEF CascadeRows, Bound, Ends
<1> QED
  BY <1>1, <1>2, <1>3, <1>4, <1>5, <1>6, <1>7, <1>10, <1>11, <1>12, <1>13, <1>14, <1>15, <1>16 DEF Step

\* Every step keeps what the history of crossing edits says of the calls.
LEMMA EditsNext ==
  ASSUME TypeOK, CallsOK, EditsCross, EditSees, [Next]_vars
  PROVE  EditsCross' /\ EditSees'
<1> USE CronAssumption DEF TypeOK, CallsOK, Calling, Rows, NoOp, EditsCross, EditSees
<1>1. ASSUME NEW o \in Ops, Step(o) PROVE EditsCross' /\ EditSees'
  BY <1>1, EditsStep
<1>2. ASSUME NEW j \in Jobs, Fire(j) PROVE EditsCross' /\ EditSees'
  BY <1>2 DEF Fire, Begin, BeginAsking, Free, On
<1>3. ASSUME NEW o \in Ops, NEW j \in Jobs, RunNow(o, j) PROVE EditsCross' /\ EditSees'
  BY <1>3 DEF RunNow, Begin, BeginAsking, Spend, Free, On
<1>4. ASSUME NEW o \in Ops, NEW j \in Jobs, Edit(o, j) PROVE EditsCross' /\ EditSees'
  BY <1>4, SMTT(40) DEF Edit, BeginAsking, Spend, Free, On
<1>5. ASSUME NEW o \in Ops, NEW j \in Jobs, Remove(o, j) PROVE EditsCross' /\ EditSees'
  BY <1>5 DEF Remove, Begin, BeginAsking, Spend, Free, On, Cancel
<1>6. ASSUME NEW o \in Ops, NEW j \in Jobs, Resume(o, j) PROVE EditsCross' /\ EditSees'
  BY <1>6 DEF Resume, Begin, BeginAsking, Spend, Free, On
<1>7. ASSUME NEW o \in Ops, NEW c \in Convs, DeleteConversation(o, c) PROVE EditsCross' /\ EditSees'
  BY <1>7 DEF DeleteConversation, Spend, Free
<1>8. CASE Restart
  BY <1>8 DEF Restart, Orphans, Spend
<1>9. CASE UNCHANGED vars
  BY <1>9 DEF vars
<1> QED
  BY <1>1, <1>2, <1>3, <1>4, <1>5, <1>6, <1>7, <1>8, <1>9 DEF Next, Call

\* A job that is armed stays armed, or some call owes it a timer.
LEMMA ArmedStep ==
  ASSUME TypeOK, CallsOK, EditSees, Armed, NEW o \in Ops, Step(o)
  PROVE  Armed'
<1>1. CASE TickRead(o)
  <2>1. /\ UNCHANGED <<row, gone, crossed>>
        /\ \/ op[o].job \in gone
           \/ ~row[op[o].job].enabled /\ timer' = timer
           \/ op'[o].kind = "tick" /\ op'[o].job = op[o].job /\ timer' = timer
    <3>1. ASSUME op' = [op EXCEPT ![o].snap = row[op[o].job], ![o].pc = Verdict(row[op[o].job])]
          PROVE  op'[o].kind = "tick" /\ op'[o].job = op[o].job
      BY <1>1, <3>1 DEF TickRead, At, TypeOK, CallsOK, Calling, Calls
    <3> QED
      BY <1>1, <3>1 DEF TickRead
  <2>2. \A j \in Jobs : j # op[o].job => timer'[j] = timer[j]
    BY <1>1 DEF TickRead, NotFound, Cancel, TypeOK
  <2>3. /\ \A p \in Ops : p # o => op'[p] = op[p]
        /\ op[o].kind = "tick"
    BY <1>1, ExecutionKeeps DEF TickRead, At, CallsOK, Calling
  <2> QED
    BY <2>1, <2>2, <2>3 DEF Armed, Owes
<1>5. CASE Resolve(o) \/ Count(o)
  <2>1. UNCHANGED <<row, gone, timer, crossed>>
    BY <1>5 DEF Resolve, Count
  <2>2. op[o].kind = "tick" /\ op[o].job \notin gone => op'[o].kind = "tick" /\ op'[o].job = op[o].job
    BY <1>5 DEF Resolve, Count, NotStarted, Recorded, TypeOK, Calls
  <2>3. /\ \A p \in Ops : p # o => op'[p] = op[p]
        /\ op[o].kind \in {"tick", "now"}
    BY <1>5, ExecutionKeeps
  <2> QED
    BY <2>1, <2>2, <2>3 DEF Armed, Owes
<1>10. CASE EditWrite(o)
  <2>1. timer' = timer /\ gone' = gone /\ crossed' = crossed
    BY <1>10 DEF EditWrite
  <2>2. op'[o].kind = "none" => op[o].job \in gone
    BY <1>10 DEF EditWrite, Goto, TypeOK, Calls, CallsOK, Calling, At
  <2>3. \A j \in Jobs : row'[j].conv = row[j].conv
    BY <1>10, EditWrites DEF EditWrite, TypeOK, Rows
  <2>4. ASSUME NEW j \in Jobs \ (gone \cup crossed), row'[j].enabled, timer[j] = None
        PROVE  \E p \in Ops : Owes(p, j)'
    <3>1. CASE j = op[o].job
      BY <1>10, <2>2, <2>4, <3>1, EditWrites DEF Owes
    <3>2. CASE j # op[o].job
      <4>1. row'[j] = row[j]
        BY <1>10, <3>2, EditWrites
      <4>2. PICK p \in Ops : Owes(p, j)
        BY <2>4, <4>1 DEF Armed
      <4>3. p # o
        BY <1>10, <3>2, <4>2, EditWrites DEF Owes
      <4> QED
        BY <1>10, <2>3, <4>2, <4>3, EditWrites DEF Owes
    <3> QED
      BY <3>1, <3>2
  <2> QED
    BY <2>1, <2>4 DEF Armed
<1> USE CronAssumption DEF At, TypeOK, CallsOK, Calling, Rows, NoOp, EditSees, Armed, Owes
<1>2. CASE Retry(o)
  BY <1>2 DEF Retry, Update, Ends
<1>3. CASE Skip(o)
  BY <1>3 DEF Skip, Update, Goto
<1>4. CASE Reschedule(o)
  BY <1>4, SMTT(40) DEF Reschedule, Update, Cancel, Arm, Ends
<1>6. CASE Start(o)
  BY <1>6 DEF Start, Goto
<1>7. CASE Run(o)
  BY <1>7 DEF Run
<1>9. CASE Record(o)
  BY <1>9 DEF Record, Update, Recorded
<1>11. CASE Rearm(o)
  BY <1>11 DEF Rearm, Arm, Ends
<1>12. CASE RemoveRow(o)
  BY <1>12 DEF RemoveRow, Ends
<1>13. CASE Missed(o)
  BY <1>13 DEF Missed, Update, Goto
<1>14. CASE Again(o)
  BY <1>14 DEF Again, Update, Cancel, Arm, Ends
<1>15. CASE Cascade(o)
  BY <1>15 DEF Cascade, Bound, Goto
<1>16. CASE CascadeRows(o)
  BY <1>16 DEF CascadeRows, Bound, Ends
<1> QED
  BY <1>1, <1>2, <1>3, <1>4, <1>5, <1>6, <1>7, <1>9, <1>10, <1>11, <1>12, <1>13, <1>14, <1>15, <1>16 DEF Step

\* Every step leaves an enabled job its timer, or a call that owes it one.
LEMMA ArmedNext ==
  ASSUME TypeOK, CallsOK, EditSees, Armed, [Next]_vars
  PROVE  Armed'
<1> USE CronAssumption DEF TypeOK, CallsOK, Calling, Rows, NoOp, EditSees, Armed, Owes
<1>1. ASSUME NEW o \in Ops, Step(o) PROVE Armed'
  BY <1>1, ArmedStep
<1>2. ASSUME NEW j \in Jobs, Fire(j) PROVE Armed'
  BY <1>2 DEF Fire, Begin, BeginAsking, Free, On
<1>3. ASSUME NEW o \in Ops, NEW j \in Jobs, RunNow(o, j) PROVE Armed'
  BY <1>3 DEF RunNow, Begin, BeginAsking, Spend, Free, On
<1>4. ASSUME NEW o \in Ops, NEW j \in Jobs, Edit(o, j) PROVE Armed'
  BY <1>4 DEF Edit, BeginAsking, Spend, Free, On
<1>5. ASSUME NEW o \in Ops, NEW j \in Jobs, Remove(o, j) PROVE Armed'
  BY <1>5 DEF Remove, Begin, BeginAsking, Spend, Free, On, Cancel
<1>6. ASSUME NEW o \in Ops, NEW j \in Jobs, Resume(o, j) PROVE Armed'
  BY <1>6 DEF Resume, Begin, BeginAsking, Spend, Free, On
<1>7. ASSUME NEW o \in Ops, NEW c \in Convs, DeleteConversation(o, c) PROVE Armed'
  BY <1>7 DEF DeleteConversation, Spend, Free
<1>8. CASE Restart
  BY <1>8 DEF Restart, Orphans, Spend
<1>9. CASE UNCHANGED vars
  BY <1>9 DEF vars
<1> QED
  BY <1>1, <1>2, <1>3, <1>4, <1>5, <1>6, <1>7, <1>8, <1>9 DEF Next, Call

\* Schedules.
LEMMA FreshStep ==
  ASSUME TypeOK, CallsOK, EditsOvertake, SnapIsFresh, TimerIsFresh, NEW o \in Ops, Step(o)
  PROVE  EditsOvertake' /\ SnapIsFresh' /\ TimerIsFresh'
<1>0. /\ op \in [Ops -> Calls] /\ row \in [Jobs -> Rows]
      /\ \A p \in Ops : Calling(op[p], born)
  BY DEF TypeOK, CallsOK
<1>1. CASE TickRead(o) \/ Resolve(o) \/ Count(o)
  <2>1. row' = row /\ overtaken' = overtaken
    BY <1>1 DEF TickRead, Resolve, Count
  <2>2. \A j \in Jobs : timer'[j] \in {None, timer[j]}
    BY <1>1 DEF TickRead, NotFound, Cancel, Resolve, Count, TypeOK
  <2>3. EditsOvertake'
    BY <1>1, <2>1, ExecutionKeeps DEF EditsOvertake
  <2>4. op'[o].kind # "none" /\ op[o].pc # "read" => op[o].kind = op'[o].kind
    BY <1>1, ExecutionKeeps
  <2>5. SnapIsFresh'
    <3>1. ASSUME NEW p \in Ops, Holds(op'[p]), op'[p].job \notin overtaken
          PROVE  op'[p].snap.sched = row[op'[p].job].sched
      <4>1. CASE p # o
        BY <1>1, <3>1, <4>1, ExecutionKeeps DEF SnapIsFresh
      <4>2. CASE p = o /\ op[o].pc = "read"
        BY <1>1, <3>1, <4>2, ExecutionKeeps DEF Holds
      <4>3. CASE p = o /\ op[o].pc # "read"
        <5>1. op'[o].kind = op[o].kind /\ op'[o].job = op[o].job /\ op'[o].snap = op[o].snap
          BY <1>1, <3>1, <4>3, ExecutionKeeps DEF Holds
        <5>2. Holds(op[o])
          BY <1>1, <3>1, <4>3, <5>1, ExecutionKeeps DEF Holds
        <5> QED
          BY <3>1, <4>3, <5>1, <5>2 DEF SnapIsFresh
      <4> QED
        BY <4>1, <4>2, <4>3
    <3> QED
      BY <2>1, <3>1 DEF SnapIsFresh
  <2>6. TimerIsFresh'
    BY <1>1, <2>1, <2>2, ExecutionKeeps DEF TimerIsFresh
  <2> QED
    BY <2>3, <2>5, <2>6
<1>4. CASE Reschedule(o)
  <2>1. /\ op[o].kind = "tick" /\ op[o].pc = "next" /\ op[o].job \in Jobs
        /\ overtaken' = overtaken
    BY <1>0, <1>4 DEF Reschedule, At, Calling
  <2>2. /\ \A p \in Ops : p # o => op'[p] = op[p]
        /\ op'[o].kind = "none"
    BY <1>0, <1>4 DEF Reschedule, Ends, NoOp
  <2>3. \A j \in Jobs : row'[j].sched = row[j].sched
    BY <1>0, <1>4, <2>1 DEF Reschedule, Update, Rows
  <2>4. \A j \in Jobs : j # op[o].job => timer'[j] = timer[j]
    BY <1>0, <1>4 DEF Reschedule, Arm, Cancel, TypeOK
  <2>5. timer'[op[o].job] \in {None, op[o].snap.sched}
    BY <1>0, <1>4, <2>1 DEF Reschedule, Arm, Cancel, TypeOK
  <2>6. EditsOvertake'
    BY <2>1, <2>2 DEF EditsOvertake
  <2>7. SnapIsFresh'
    <3>1. \A p \in Ops : Holds(op[p]) => op[p].job \in Jobs
      BY <1>0 DEF Holds, Calling
    <3> QED
      BY <2>1, <2>2, <2>3, <3>1 DEF SnapIsFresh, Holds
  <2>8. op[o].job \notin overtaken => op[o].snap.sched = row[op[o].job].sched
    BY <2>1 DEF SnapIsFresh, Holds
  <2>9. TimerIsFresh'
    BY <2>1, <2>2, <2>3, <2>4, <2>5, <2>8 DEF TimerIsFresh
  <2> QED
    BY <2>6, <2>7, <2>9
<1>10. CASE EditWrite(o)
  <2>1. timer' = timer /\ overtaken' = overtaken
    BY <1>10 DEF EditWrite
  <2>2. \A p \in Ops : op'[p].kind # "none" => op'[p].kind = op[p].kind /\ op'[p].job = op[p].job
    BY <1>10, EditWrites
  <2>3. EditsOvertake'
    BY <2>1, <2>2 DEF EditsOvertake
  <2>4. ASSUME NEW p \in Ops, Holds(op'[p]), op'[p].job \notin overtaken
        PROVE  op'[p].snap.sched = row'[op'[p].job].sched
    <3>1. CASE p = o
      BY <1>10, <2>4, <3>1, EditWrites DEF Holds, SnapIsFresh
    <3>2. CASE p # o
      <4>1. op'[p] = op[p] /\ op[p].job \in Jobs /\ op[p].kind \notin {"none", "delete"}
        BY <1>0, <1>10, <2>4, <3>2, EditWrites DEF Holds, Calling
      <4>2. op[p].job # op[o].job
        BY <1>10, <2>4, <3>2, <4>1, EditWrites DEF EditsOvertake
      <4>3. row'[op[p].job] = row[op[p].job]
        BY <1>10, <4>1, <4>2, EditWrites
      <4> QED
        BY <2>4, <4>1, <4>3 DEF SnapIsFresh
    <3> QED
      BY <3>1, <3>2
  <2>5. ASSUME NEW j \in Jobs \ overtaken
        PROVE  \/ timer'[j] \in {None, "retry", row'[j].sched}
               \/ \E p \in Ops : op'[p].kind = "edit" /\ op'[p].pc = "arm" /\ op'[p].job = j
    <3>1. CASE j = op[o].job /\ op'[o].kind # "none"
      BY <1>10, <3>1, EditWrites
    <3>2. CASE ~(j = op[o].job /\ op'[o].kind # "none")
      <4>1. row'[j] = row[j]
        BY <1>10, <3>2, EditWrites
      <4>2. \A p \in Ops : op[p].pc = "arm" => op'[p] = op[p]
        BY <1>10, EditWrites
      <4> QED
        BY <2>1, <2>5, <4>1, <4>2 DEF TimerIsFresh
    <3> QED
      BY <3>1, <3>2
  <2> QED
    BY <2>1, <2>3, <2>4, <2>5 DEF SnapIsFresh, TimerIsFresh
<1> USE CronAssumption DEF At, TypeOK, CallsOK, Calling, Rows, NoOp, EditsOvertake, SnapIsFresh, TimerIsFresh, Holds
<1>2. CASE Retry(o)
  BY <1>2 DEF Retry, Update, Ends
<1>3. CASE Skip(o)
  BY <1>3 DEF Skip, Update, Goto
<1>6. CASE Start(o)
  BY <1>6 DEF Start, Goto
<1>7. CASE Run(o)
  BY <1>7 DEF Run
<1>9. CASE Record(o)
  BY <1>9 DEF Record, Update, Recorded
<1>11. CASE Rearm(o)
  BY <1>11 DEF Rearm, Arm, Ends
<1>12. CASE RemoveRow(o)
  BY <1>12 DEF RemoveRow, Ends
<1>13. CASE Missed(o)
  BY <1>13, SMTT(40) DEF Missed, Update, Goto
<1>14. CASE Again(o)
  BY <1>14 DEF Again, Update, Cancel, Arm, Ends
<1>15. CASE Cascade(o)
  BY <1>15 DEF Cascade, Bound, Goto
<1>16. CASE CascadeRows(o)
  BY <1>16 DEF CascadeRows, Bound, Ends
<1> QED
  BY <1>1, <1>2, <1>3, <1>4, <1>6, <1>7, <1>9, <1>10, <1>11, <1>12, <1>13, <1>14, <1>15, <1>16 DEF Step

\* Every step keeps what calls and timers hold the row's, or overtaken.
LEMMA FreshNext ==
  ASSUME TypeOK, CallsOK, EditsOvertake, SnapIsFresh, TimerIsFresh, [Next]_vars
  PROVE  EditsOvertake' /\ SnapIsFresh' /\ TimerIsFresh'
<1>4. ASSUME NEW o \in Ops, NEW j \in Jobs, Edit(o, j) PROVE EditsOvertake' /\ SnapIsFresh' /\ TimerIsFresh'
  <2>1. PICK asks \in SUBSET {"enabled", "sched"}, e \in BOOLEAN, s \in Schedules :
          BeginAsking(o, "edit", j, "write",
                      [row[j] EXCEPT !.enabled = IF "enabled" \in asks THEN e ELSE @,
                                     !.sched = IF "sched" \in asks THEN s ELSE @], asks)
    BY <1>4 DEF Edit
  <2> DEFINE r == [row[j] EXCEPT !.enabled = IF "enabled" \in asks THEN e ELSE @,
                                 !.sched = IF "sched" \in asks THEN s ELSE @]
             c == [NoOp EXCEPT !.kind = "edit", !.pc = "write", !.job = j, !.snap = r, !.asks = asks]
  <2>2. UNCHANGED <<row, timer>>
    BY <1>4 DEF Edit
  <2>3. row[j] \in Rows /\ op \in [Ops -> Calls] /\ \A p \in Ops : Calling(op[p], born)
    BY DEF TypeOK, CallsOK
  <2>4. "sched" \notin asks => r.sched = row[j].sched
    BY <2>3 DEF Rows
  <2>5. c.kind = "edit" /\ c.pc = "write" /\ c.job = j /\ c.snap = r /\ c.asks = asks
    BY DEF NoOp
  <2>6. /\ op' = [op EXCEPT ![o] = c] /\ op[o].pc = "idle"
        /\ overtaken \subseteq overtaken'
        /\ On(j) # {} => j \in overtaken'
    BY <2>1 DEF BeginAsking, Free
  <2>7. \A p \in Ops : op[p].kind # "none" /\ op[p].job = j => p \in On(j)
    BY <2>3 DEF On, Free, Calling, NoOp
  <2>8. op[o].kind = "none"
    BY <2>3, <2>6 DEF Calling, NoOp
  <2> HIDE DEF c, r
  <2>9. op'[o] = c /\ \A p \in Ops : p # o => op'[p] = op[p]
    BY <2>3, <2>6
  <2>10. EditsOvertake'
    BY <2>5, <2>6, <2>7, <2>9 DEF EditsOvertake
  <2>11. SnapIsFresh'
    BY <2>2, <2>4, <2>5, <2>6, <2>9 DEF SnapIsFresh, Holds
  <2>12. TimerIsFresh'
    BY <2>2, <2>6, <2>8, <2>9 DEF TimerIsFresh
  <2> QED
    BY <2>10, <2>11, <2>12
<1> USE CronAssumption DEF TypeOK, CallsOK, Calling, Rows, NoOp, EditsOvertake, SnapIsFresh, TimerIsFresh, Holds
<1>1. ASSUME NEW o \in Ops, Step(o) PROVE EditsOvertake' /\ SnapIsFresh' /\ TimerIsFresh'
  BY <1>1, FreshStep
<1>2. ASSUME NEW j \in Jobs, Fire(j) PROVE EditsOvertake' /\ SnapIsFresh' /\ TimerIsFresh'
  BY <1>2 DEF Fire, Begin, BeginAsking, Free, On
<1>3. ASSUME NEW o \in Ops, NEW j \in Jobs, RunNow(o, j) PROVE EditsOvertake' /\ SnapIsFresh' /\ TimerIsFresh'
  BY <1>3 DEF RunNow, Begin, BeginAsking, Spend, Free, On
<1>5. ASSUME NEW o \in Ops, NEW j \in Jobs, Remove(o, j) PROVE EditsOvertake' /\ SnapIsFresh' /\ TimerIsFresh'
  BY <1>5 DEF Remove, Begin, BeginAsking, Spend, Free, On, Cancel
<1>6. ASSUME NEW o \in Ops, NEW j \in Jobs, Resume(o, j) PROVE EditsOvertake' /\ SnapIsFresh' /\ TimerIsFresh'
  BY <1>6 DEF Resume, Begin, BeginAsking, Spend, Free, On
<1>7. ASSUME NEW o \in Ops, NEW c \in Convs, DeleteConversation(o, c) PROVE EditsOvertake' /\ SnapIsFresh' /\ TimerIsFresh'
  BY <1>7 DEF DeleteConversation, Spend, Free
<1>8. CASE Restart
  BY <1>8 DEF Restart, Orphans, Spend
<1>9. CASE UNCHANGED vars
  BY <1>9 DEF vars
<1> QED
  BY <1>1, <1>2, <1>3, <1>4, <1>5, <1>6, <1>7, <1>8, <1>9 DEF Next, Call
-----------------------------------------------------------------------------
(* The invariant, and the theorems. *)

\* The invariant holds at the start.
LEMMA Inits == ASSUME Init PROVE IInv
<1> USE CronAssumption
<1>1. TypeOK
  <2>1. op \in [Ops -> Calls]
    BY NoOpIsCall DEF Init
  <2>2. row \in [Jobs -> Rows] /\ timer \in [Jobs -> Timers \cup {None}]
    BY DEF Init, Rows, Timers
  <2>3. used \in [Kinds -> Nat]
    BY DEF Init
  <2> QED
    BY <2>1, <2>2, <2>3 DEF Init, TypeOK
<1>2. CallsOK
  BY NoOpIsCall DEF Init, CallsOK
<1>3. \A o \in Ops : op[o].kind = "none" /\ op[o].pc = "idle"
  BY DEF Init, NoOp
<1>4. \A j \in Jobs : timer[j] = row[j].sched /\ row[j].sched \in Schedules
  BY DEF Init, Rows
<1>5. EditsCross /\ EditSees /\ EditsOvertake /\ SnapIsFresh
  BY <1>3 DEF EditsCross, EditSees, EditsOvertake, SnapIsFresh, Holds
<1>6. Armed /\ TimerIsFresh
  BY <1>4 DEF Armed, TimerIsFresh
<1> QED
  BY <1>1, <1>2, <1>5, <1>6 DEF IInv

\* The strengthening is inductive.
THEOREM Inductive == Spec => []IInv
<1>1. IInv /\ [Next]_vars => IInv'
  BY TypeNext, EditsNext, ArmedNext, FreshNext DEF IInv
<1> QED
  BY Inits, <1>1, PTL DEF Spec

\* Every variable has its type, whatever the jobs, the calls and the budgets.
THEOREM Typed == Spec => []TypeOK
BY Inductive, PTL DEF IInv

\* No job dies silently (EnabledIsArmed): whenever no call is on an enabled
\* job, a timer of the job is live, unless two edits of it have crossed.
THEOREM NoSilentDeath == Spec => []EnabledIsArmed
<1>1. ASSUME IInv PROVE EnabledIsArmed
  <2>1. \A o \in Ops : Calling(op[o], born)
    BY <1>1 DEF IInv, CallsOK
  <2>2. ASSUME NEW j \in Jobs \ (gone \cup crossed), On(j) = {}, row[j].enabled
        PROVE  /\ timer[j] # None
               /\ j \notin overtaken => timer[j] \in {row[j].sched, "retry"}
    <3>1. \A o \in Ops : op[o].pc = "idle" \/ op[o].job \notin {j, None}
      BY <2>2 DEF On, Free
    <3>2. \A o \in Ops : op[o].pc = "idle" => op[o].kind = "none"
      BY <2>1 DEF Calling, NoOp
    <3>3. \A o \in Ops : op[o].kind = "delete" => op[o].job = None /\ op[o].pc # "idle"
      BY <2>1 DEF Calling
    <3>4. \A o \in Ops : ~Owes(o, j)
      BY <3>1, <3>2, <3>3 DEF Owes
    <3>5. timer[j] # None
      BY <1>1, <2>2, <3>4 DEF IInv, Armed
    <3>6. ~\E o \in Ops : op[o].kind = "edit" /\ op[o].pc = "arm" /\ op[o].job = j
      BY <3>1
    <3> QED
      BY <1>1, <2>2, <3>5, <3>6 DEF IInv, TimerIsFresh
  <2> QED
    BY <2>2 DEF EnabledIsArmed
<1> QED
  BY Inductive, <1>1, PTL

\* The guard is never left up (BusyIsBacked): a conversation counts as busy
\* only while some execution on it has yet to end.
THEOREM GuardComesDown == Spec => []BusyIsBacked
<1>1. ASSUME Init PROVE BusyIsBacked
  BY <1>1 DEF Init, BusyIsBacked
<1>2. ASSUME TypeOK, BusyIsBacked, [Next]_vars PROVE BusyIsBacked'
  <2>0. op \in [Ops -> Calls]
    BY <1>2 DEF TypeOK
  <2> DEFINE Others(o) == op[o].pc # "run" /\ \A p \in Ops : p # o => op'[p] = op[p]
  <2>1. ASSUME NEW o \in Ops, Others(o), busy' = busy PROVE BusyIsBacked'
    BY <1>2, <2>1 DEF BusyIsBacked, At
  <2>2. ASSUME NEW o \in Ops, Start(o) PROVE BusyIsBacked'
    <3>1. /\ op' = [op EXCEPT ![o] = [op[o] EXCEPT !.pc = "run"]] /\ op[o].pc = "start"
          /\ busy' = busy \cup {op[o].conv}
      BY <2>0, <2>2 DEF Start, Goto, At
    <3>2. op'[o].pc = "run" /\ op'[o].conv = op[o].conv
      BY <2>0, <3>1 DEF Calls
    <3> QED
      BY <1>2, <2>0, <3>1, <3>2 DEF BusyIsBacked, At
  <2>3. ASSUME NEW o \in Ops, Run(o) PROVE BusyIsBacked'
    <3>1. /\ \A p \in Ops : p # o => op'[p] = op[p]
          /\ busy' = busy \ {op[o].conv}
      BY <2>0, <2>3 DEF Run
    <3> QED
      BY <1>2, <3>1 DEF BusyIsBacked, At
  <2>4. ASSUME NEW o \in Ops, Step(o), ~Start(o), ~Run(o) PROVE BusyIsBacked'
    <3>1. busy' = busy
      BY <2>4, ZenonT(60) DEF Step, TickRead, Retry, Skip, Reschedule, Resolve, Count, Record, EditWrite,
                  Rearm, RemoveRow, Missed, Again, Cascade, CascadeRows
    <3>2. op[o].pc # "run"
      BY <2>4, ZenonT(60) DEF Step, TickRead, Retry, Skip, Reschedule, Resolve, Count, Record, EditWrite,
                  Rearm, RemoveRow, Missed, Again, Cascade, CascadeRows, At
    <3>3. \A p \in Ops : p # o => op'[p] = op[p]
      BY <2>0, <2>4 DEF Step, TickRead, Retry, Skip, Reschedule, Resolve, Count, Record, EditWrite,
                        Rearm, RemoveRow, Missed, Again, Cascade, CascadeRows,
                        Ends, Goto, NotStarted, Recorded
    <3> QED
      BY <2>1, <3>1, <3>2, <3>3, SMTT(40)
  <2>5. ASSUME NEW o \in Ops, NEW j \in Jobs, Call(o, j) PROVE BusyIsBacked'
    <3>1. Others(o) /\ busy' = busy
      BY <2>0, <2>5 DEF Call, RunNow, Edit, Remove, Resume, Begin, BeginAsking, Free
    <3> QED
      BY <2>1, <3>1
  <2>6. ASSUME NEW j \in Jobs, Fire(j) PROVE BusyIsBacked'
    <3>1. PICK o \in Ops : Begin(o, "tick", j, "read", None)
      BY <2>6 DEF Fire
    <3>2. Others(o) /\ busy' = busy
      BY <2>0, <2>6, <3>1 DEF Fire, Begin, BeginAsking, Free
    <3> QED
      BY <2>1, <3>2
  <2>7. ASSUME NEW o \in Ops, NEW c \in Convs, DeleteConversation(o, c) PROVE BusyIsBacked'
    <3>1. Others(o) /\ busy' = busy
      BY <2>0, <2>7 DEF DeleteConversation, Free
    <3> QED
      BY <2>1, <3>1
  <2>8. CASE Restart
    BY <2>8 DEF Restart, BusyIsBacked
  <2>9. CASE UNCHANGED vars
    BY <1>2, <2>9 DEF vars, BusyIsBacked, At
  <2> QED
    BY <1>2, <2>2, <2>3, <2>4, <2>5, <2>6, <2>7, <2>8, <2>9 DEF Next
<1> QED
  BY Typed, <1>1, <1>2, PTL DEF Spec

-----------------------------------------------------------------------------
(* Removed jobs.                                                             *)

\* The job was removed, no call is on it and no timer of it is armed.
Forgotten(j) ==
  /\ j \in gone /\ timer[j] = None
  /\ \A o \in Ops : op[o].job # j

\* A call that goes on stays on its job, or ends.
LEMMA JobsStay ==
  ASSUME TypeOK, NEW o \in Ops, Step(o)
  PROVE  op' = [op EXCEPT ![o] = op'[o]] /\ op'[o].job \in {op[o].job, None}
<1> USE DEF TypeOK, Goto, Ends, NoOp, Calls
<1>1. CASE TickRead(o) BY <1>1 DEF TickRead
<1>2. CASE Retry(o) \/ Skip(o) \/ Reschedule(o) BY <1>2 DEF Retry, Skip, Reschedule
<1>3. CASE Resolve(o) BY <1>3 DEF Resolve, NotStarted
<1>4. CASE Start(o) \/ Run(o) BY <1>4 DEF Start, Run
<1>5. CASE Count(o) \/ Record(o) BY <1>5 DEF Count, Record, Recorded
<1>6. CASE EditWrite(o) \/ Rearm(o) \/ RemoveRow(o) BY <1>6 DEF EditWrite, Rearm, RemoveRow
<1>7. CASE Missed(o) \/ Again(o) BY <1>7 DEF Missed, Again
<1>8. CASE Cascade(o) \/ CascadeRows(o) BY <1>8 DEF Cascade, CascadeRows
<1> QED BY <1>1, <1>2, <1>3, <1>4, <1>5, <1>6, <1>7, <1>8 DEF Step

\* A timer is armed, or left, by a call on its job only.
LEMMA TimersStay ==
  ASSUME TypeOK, NEW o \in Ops, Step(o), NEW j \in Jobs, op[o].job # j, timer[j] = None
  PROVE  timer'[j] = None /\ gone \subseteq gone'
<1> USE DEF TypeOK, Arm, Cancel
<1>1. CASE TickRead(o) BY <1>1 DEF TickRead, NotFound
<1>2. CASE Retry(o) \/ Skip(o) \/ Reschedule(o) BY <1>2 DEF Retry, Skip, Reschedule
<1>3. CASE Resolve(o) \/ Start(o) \/ Run(o) \/ Count(o) \/ Record(o)
  BY <1>3 DEF Resolve, Start, Run, Count, Record
<1>4. CASE EditWrite(o) \/ Rearm(o) \/ RemoveRow(o) BY <1>4 DEF EditWrite, Rearm, RemoveRow
<1>5. CASE Missed(o) \/ Again(o) BY <1>5 DEF Missed, Again
<1>6. CASE Cascade(o) \/ CascadeRows(o) BY <1>6 DEF Cascade, CascadeRows
<1> QED BY <1>1, <1>2, <1>3, <1>4, <1>5, <1>6 DEF Step

\* A job that was removed and that no call is on any more is forgotten for
\* good: no tick, run, edit or resume takes it up, no restart arms it, and no
\* timer of it goes off.  What is left of RemovedIsForgotten for TLC is that
\* the calls on a removed job end, and leave no timer.
THEOREM ForgottenForGood == Spec => \A j \in Jobs : [](Forgotten(j) => []Forgotten(j))
<1> SUFFICES ASSUME NEW j \in Jobs PROVE Spec => [](Forgotten(j) => []Forgotten(j)) OBVIOUS
<1>1. ASSUME TypeOK, Forgotten(j), [Next]_vars PROVE Forgotten(j)'
  <2>0. op \in [Ops -> Calls] /\ timer \in [Jobs -> Timers \cup {None}]
    BY <1>1 DEF TypeOK
  <2>1. CASE UNCHANGED vars BY <1>1, <2>1 DEF Forgotten, vars
  <2>2. ASSUME NEW o \in Ops, Step(o) PROVE Forgotten(j)'
    <3>1. timer'[j] = None /\ gone \subseteq gone' BY <1>1, <2>2, TimersStay DEF Forgotten
    <3>2. op' = [op EXCEPT ![o] = op'[o]] /\ op'[o].job \in {op[o].job, None}
      BY <1>1, <2>2, JobsStay
    <3>3. \A p \in Ops : op'[p].job # j BY <1>1, <2>0, <3>2, CronAssumption DEF Forgotten
    <3> QED BY <1>1, <3>1, <3>3 DEF Forgotten
  <2>3. ASSUME NEW i \in Jobs, Fire(i) PROVE Forgotten(j)'
    BY <1>1, <2>0, <2>3 DEF Fire, Begin, BeginAsking, Forgotten, NoOp, Calls
  <2>4. ASSUME NEW o \in Ops, NEW i \in Jobs, Call(o, i) PROVE Forgotten(j)'
    <3>1. i # j BY <1>1, <2>4 DEF Call, RunNow, Edit, Remove, Resume, Forgotten
    <3>2. /\ gone' = gone /\ timer'[j] = timer[j]
          /\ \A p \in Ops : op'[p] = op[p] \/ op'[p].job = i
      <4>1. CASE RunNow(o, i)
        BY <2>0, <4>1 DEF RunNow, Begin, BeginAsking, NoOp, Calls
      <4>2. CASE Edit(o, i)
        BY <2>0, <4>2 DEF Edit, BeginAsking, NoOp, Calls
      <4>3. CASE Remove(o, i)
        BY <2>0, <3>1, <4>3 DEF Remove, Begin, BeginAsking, Cancel, NoOp, Calls
      <4>4. CASE Resume(o, i)
        BY <2>0, <4>4 DEF Resume, Begin, BeginAsking, NoOp, Calls
      <4> QED BY <2>4, <4>1, <4>2, <4>3, <4>4 DEF Call
    <3> QED BY <1>1, <3>1, <3>2 DEF Forgotten
  <2>5. ASSUME NEW o \in Ops, NEW c \in Convs, DeleteConversation(o, c) PROVE Forgotten(j)'
    BY <1>1, <2>0, <2>5, CronAssumption DEF DeleteConversation, Forgotten, NoOp, Calls
  <2>6. CASE Restart BY <1>1, <2>6, CronAssumption DEF Restart, Forgotten, NoOp
  <2> QED BY <1>1, <2>1, <2>2, <2>3, <2>4, <2>5, <2>6 DEF Next
<1> QED BY <1>1, Typed, PTL DEF Spec
=============================================================================
