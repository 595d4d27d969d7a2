--------------------------- MODULE TaskBoardProofs ---------------------------
(* Theorems about TaskBoard, for any tasks, calls and budgets. *)
EXTENDS TaskBoard, TLAPS

\* What a call in flight holds at each of its steps.
Holding(c) ==
  LET s == call[c]
  IN /\ s.pc \in {"insert", "link", "append", "free", "remove"} => s.todo \subseteq Present
     /\ s.pc \in {"link", "append", "update", "free", "remove"} => s.task \in Present
     /\ s.pc \in {"append", "remove"} => s.next \in s.todo
     /\ s.pc \in {"insert", "link", "append"} => s.status = None
     /\ s.pc \in {"free", "remove"} => s.status = "completed"
     /\ s.pc = "append" /\ c \notin stale => s.seen = row[s.next].blocks
     /\ s.pc = "remove" /\ c \notin stale => s.seen = row[s.next].blockedBy
     /\ s.pc = "update" => s.seen \subseteq Present

CallsHold == \A c \in Calls : Holding(c)

\* Who completes a task has read all that wait for it, but the late ones.
CompletingSees ==
  \A c \in Calls, u, d \in Tasks :
    /\ call[c].pc = "update" /\ call[c].status = "completed" /\ call[c].task = d
    /\ Waits(u, d)
    => u \in call[c].seen \/ d \in late[u]

\* The part of the invariant that is about dependencies.
Dependencies == DependencyIsMutual /\ CompletedBlocksNobody /\ CompletingSees

IInv == TypeOK /\ CallsHold /\ Dependencies

\* The step leaves every other call alone.
Others(c) == \A o \in Calls : o # c => call'[o] = call[o]

-----------------------------------------------------------------------------
(* What the steps do to the calls. *)

\* A connection with no call in flight.
LEMMA IdleIs == Idle \in CallState /\ Idle.pc = "idle" /\ Idle.todo = {}
BY DEF Idle, CallState

\* Proceed ends the call or goes on, and keeps everything else of it.
LEMMA ProceedIs ==
  ASSUME call \in [Calls -> CallState], NEW c \in Calls, NEW STATE todo, todo \subseteq Tasks,
         NEW step \in {"link", "free"}, Proceed(c, step, todo)
  PROVE  /\ call' \in [Calls -> CallState] /\ Others(c)
         /\ \/ todo = {} /\ call'[c].pc = "idle"
            \/ /\ todo # {} /\ call'[c].pc = step /\ call'[c].todo = todo
               /\ call'[c].task = call[c].task /\ call'[c].status = call[c].status
<1> DEFINE k == [call[c] EXCEPT !.pc = step, !.todo = todo, !.next = None, !.seen = {}]
<1>1. \/ todo = {} /\ call' = [call EXCEPT ![c] = Idle]
      \/ todo # {} /\ call' = [call EXCEPT ![c] = k]
  BY DEF Proceed
<1>2. call[c] \in CallState
  OBVIOUS
<1>3. k \in CallState /\ k.pc = step /\ k.todo = todo /\ k.task = call[c].task /\ k.status = call[c].status
  BY <1>2 DEF CallState
<1> HIDE DEF k
<1> QED
  BY <1>1, <1>3, IdleIs DEF Others

-----------------------------------------------------------------------------
(* Who waits for whom. *)

\* A pair that waits after a step of c waited before, unless c still had to
\* deal with it.
LEMMA Waiting ==
  ASSUME NEW c \in Calls, Others(c), NEW u \in Tasks, NEW d \in Tasks, Waits(u, d)',
         row[u] # None, d \in row[u].blockedBy, cut[u] \subseteq cut'[u]
  PROVE  Waits(u, d) \/ Pending(c, d, u)
BY DEF Waits, Others, Pending

\* A pair is at rest when it is listed on both sides and, should the task
\* waited for be completed, is known to have come too late.
AtRest(u, d) ==
  /\ u \in row'[d].blocks
  /\ row'[d].status = "completed" \/ Completing(d) => d \in late'[u]

\* A step that starts or ends no completion keeps the invariant when every
\* pair that begins to wait is at rest.
LEMMA Keeps ==
  ASSUME TypeOK, Dependencies,
         \A t \in Present : row[t].blocks \subseteq row'[t].blocks /\ row'[t].status = row[t].status,
         \A u \in Tasks : late[u] \subseteq late'[u],
         \A o \in Calls : call'[o].pc = "update" => call'[o] = call[o],
         \A u, d \in Tasks : Waits(u, d)' => Waits(u, d) \/ AtRest(u, d)
  PROVE  Dependencies'
<1>1. \A u, d \in Tasks : Waits(u, d) => d \in Present
  BY DEF Waits, TypeOK, Present
<1>2. DependencyIsMutual'
  BY <1>1 DEF Dependencies, DependencyIsMutual, AtRest
<1>3. CompletedBlocksNobody'
  BY <1>1 DEF Dependencies, CompletedBlocksNobody, AtRest
<1>4. CompletingSees'
  BY <1>1 DEF Dependencies, CompletingSees, AtRest, Completing
<1> QED
  BY <1>2, <1>3, <1>4 DEF Dependencies

-----------------------------------------------------------------------------
(* Types, and what calls hold. *)

\* A call that did not take part holds what it held, when rows only change as
\* its snapshot allows.
LEMMA OtherHolds ==
  ASSUME NEW c \in Calls, NEW o \in Calls, o # c, call'[o] = call[o], Holding(o),
         Present \subseteq Present',
         \/ Writes(c)
         \/ row' = row /\ (o \notin stale' => o \notin stale)
  PROVE  Holding(o)'
<1>1. CASE Writes(c)
  BY <1>1 DEF Writes, Holding
<1>2. CASE row' = row /\ (o \notin stale' => o \notin stale)
  BY <1>2 DEF Holding
<1> QED
  BY <1>1, <1>2

\* Every step keeps the strengthened invariant: for each action what it does
\* to the calls and the rows, then types, what calls hold, and dependencies.
LEMMA InductiveNext ==
  ASSUME IInv, [Next]_vars
  PROVE  IInv'
<1> USE BoardAssumption DEF At
<1> TypeOK /\ CallsHold /\ Dependencies
  BY DEF IInv
<1>0. /\ call \in [Calls -> CallState] /\ row \in [Tasks -> Row \cup {None}]
      /\ \A t \in Present : t \in Tasks /\ row[t] \in Row
      /\ \A o \in Calls : Holding(o)
  BY DEF TypeOK, CallsHold, Present
<1>1. ASSUME NEW c \in Calls, NEW deps \in SUBSET Tasks, Check(c, deps)
      PROVE  IInv'
  <2> DEFINE k == [Idle EXCEPT !.pc = "insert", !.todo = deps]
  <2>1. call' = [call EXCEPT ![c] = k] /\ UNCHANGED <<row, stale, used, cut, late>> /\ deps \subseteq Present
    BY <1>1 DEF Check
  <2>2. k \in CallState /\ k.pc = "insert" /\ k.todo = deps /\ k.status = None
    BY DEF Idle, CallState
  <2> HIDE DEF k
  <2>3. call' \in [Calls -> CallState] /\ call'[c] = k /\ Others(c)
    BY <1>0, <2>1, <2>2 DEF Others
  <2>4. Present' = Present
    BY <2>1 DEF Present
  <2>5. TypeOK'
    BY <2>1, <2>3, <2>4 DEF TypeOK
  <2>6. Holding(c)'
    BY <2>1, <2>2, <2>3, <2>4 DEF Holding
  <2>7. \A o \in Calls : o # c => Holding(o)'
    BY <1>0, <2>1, <2>3, <2>4, OtherHolds DEF Others
  <2>20. \A u, d \in Tasks : Waits(u, d)' => Waits(u, d)
    BY <1>0, <1>1, <2>1, <2>3, Waiting DEF Check, Pending, Waits
  <2>21. Dependencies'
    BY <2>1, <2>2, <2>3, <2>20, Keeps DEF Others
  <2> QED
    BY <2>21, <2>5, <2>6, <2>7 DEF CallsHold, IInv
<1>2. ASSUME NEW c \in Calls, Insert(c)
      PROVE  IInv'
  <2>1. PICK t \in Tasks \ Present :
          /\ row' = [row EXCEPT ![t] = [status |-> "open", blockedBy |-> call[c].todo, blocks |-> {}]]
          /\ call' = [call EXCEPT ![c] = IF @.todo = {} THEN Idle
                                         ELSE [@ EXCEPT !.pc = "link", !.task = t]]
    BY <1>2 DEF Insert
  <2> DEFINE k == [call[c] EXCEPT !.pc = "link", !.task = t]
             r == [status |-> "open", blockedBy |-> call[c].todo, blocks |-> {}]
  <2>2. call[c].pc = "insert" /\ Writes(c) /\ UNCHANGED <<used, cut, late>>
    BY <1>2 DEF Insert
  <2>3. call[c] \in CallState /\ call[c].todo \subseteq Present /\ call[c].todo \subseteq Tasks
    BY <1>0, <2>2 DEF Holding, Present
  <2>4. k \in CallState /\ k.pc = "link" /\ k.task = t /\ k.todo = call[c].todo /\ k.status = call[c].status
    BY <2>3 DEF CallState
  <2>5. r \in Row /\ r.blockedBy = call[c].todo /\ r.blocks = {} /\ r # None
    BY <1>0, <2>3 DEF Row, Statuses
  <2>6. call[c].status = None
    BY <1>0, <2>2 DEF Holding
  <2>0. /\ call' = [call EXCEPT ![c] = Idle] \/ call' = [call EXCEPT ![c] = k]
        /\ row' = [row EXCEPT ![t] = r]
    BY <2>1
  <2> HIDE DEF k, r
  <2>7. /\ call' \in [Calls -> CallState] /\ Others(c)
        /\ (call'[c].pc = "idle" \/ call'[c] = k)
    BY <1>0, <2>0, <2>4, IdleIs DEF Others
  <2>8. row' \in [Tasks -> Row \cup {None}] /\ Present' = Present \cup {t} /\ row'[t] = r
        /\ \A u \in Present : row'[u] = row[u]
    BY <1>0, <2>0, <2>5 DEF Present
  <2>9. TypeOK'
    BY <2>2, <2>3, <2>5, <2>7, <2>8 DEF TypeOK, Writes
  <2>10. Holding(c)'
    BY <2>3, <2>4, <2>6, <2>7, <2>8 DEF Holding
  <2>11. \A o \in Calls : o # c => Holding(o)'
    BY <1>0, <2>2, <2>7, <2>8, OtherHolds DEF Others
  <2>20. ASSUME NEW u \in Tasks, NEW d \in Tasks, Waits(u, d)'
         PROVE  Waits(u, d)
    <3>1. CASE u = t
      <4>1. d \in call[c].todo
        BY <2>5, <2>8, <2>20, <3>1 DEF Waits
      <4>2. Pending(c, d, u)'
        BY <1>0, <2>1, <2>4, <3>1, <4>1 DEF Pending, k
      <4> QED
        BY <2>20, <4>2 DEF Waits
    <3>2. CASE u # t
      <4>1. row'[u] = row[u]
        BY <1>0, <2>0, <3>2
      <4> QED
        BY <2>2, <2>7, <2>20, <4>1, Waiting DEF Waits, Pending
    <3> QED
      BY <3>1, <3>2
  <2>21. Dependencies'
    BY <2>2, <2>4, <2>7, <2>8, <2>20, Keeps DEF Others
  <2> QED
    BY <2>21, <2>9, <2>10, <2>11 DEF CallsHold, IInv
<1>3. ASSUME NEW c \in Calls, Link(c)
      PROVE  IInv'
  <2>1. PICK d \in call[c].todo :
          call' = [call EXCEPT ![c].pc = "append", ![c].next = d, ![c].seen = row[d].blocks]
    BY <1>3 DEF Link
  <2> DEFINE k == [call[c] EXCEPT !.pc = "append", !.next = d, !.seen = row[d].blocks]
  <2>2. /\ call[c].pc = "link" /\ stale' = stale \ {c} /\ UNCHANGED <<row, used, cut, late>>
        /\ Present' = Present
    BY <1>3 DEF Link, Present
  <2>3. /\ call[c] \in CallState /\ call[c].todo \subseteq Present /\ call[c].task \in Present
        /\ call[c].status = None /\ d \in Tasks /\ row[d] \in Row
    BY <1>0, <2>1, <2>2 DEF Holding
  <2>4. /\ k \in CallState /\ k.pc = "append" /\ k.task = call[c].task /\ k.todo = call[c].todo
        /\ k.status = call[c].status /\ k.next = d /\ k.seen = row[d].blocks
    BY <2>3 DEF CallState, Row
  <2>5. call' = [call EXCEPT ![c] = k]
    BY <1>0, <2>1
  <2> HIDE DEF k
  <2>6. call' \in [Calls -> CallState] /\ call'[c] = k /\ Others(c)
    BY <1>0, <2>4, <2>5 DEF Others
  <2>7. TypeOK'
    BY <2>2, <2>6 DEF TypeOK
  <2>8. Holding(c)'
    BY <2>1, <2>2, <2>3, <2>4, <2>6 DEF Holding
  <2>9. \A o \in Calls : o # c => Holding(o)'
    BY <1>0, <2>2, <2>6, OtherHolds DEF Others
  <2>20. \A u, x \in Tasks : Waits(u, x)' => Waits(u, x)
    BY <2>2, <2>4, <2>6, Waiting DEF Pending, Waits
  <2>21. Dependencies'
    BY <2>2, <2>4, <2>6, <2>20, Keeps DEF Others
  <2> QED
    BY <2>21, <2>7, <2>8, <2>9 DEF CallsHold, IInv
<1>4. ASSUME NEW c \in Calls, Append(c)
      PROVE  IInv'
  <2> DEFINE d == call[c].next
             u == call[c].task
             r == [row[d] EXCEPT !.blocks = call[c].seen \cup {u}]
  <2>1. /\ call[c].pc = "append" /\ Writes(c) /\ UNCHANGED <<used, cut>>
        /\ row' = [row EXCEPT ![d].blocks = call[c].seen \cup {u}]
        /\ late' \in {late, [late EXCEPT ![u] = @ \cup {d}]}
        /\ Proceed(c, "link", call[c].todo \ {d}) /\ c \notin stale
    BY <1>4 DEF Append
  <2>2. /\ call[c] \in CallState /\ call[c].todo \subseteq Present /\ u \in Present /\ d \in Present
        /\ call[c].status = None /\ row[d] \in Row /\ call[c].seen = row[d].blocks
    BY <1>0, <2>1 DEF Holding
  <2>3. u \in Tasks /\ d \in Tasks /\ call[c].todo \subseteq Tasks
    BY <2>2 DEF Present
  <2>4. r \in Row /\ r.blocks = row[d].blocks \cup {u} /\ r.blockedBy = row[d].blockedBy
    BY <2>2, <2>3 DEF Row
  <2>5. row' = [row EXCEPT ![d] = r]
    BY <1>0, <2>1
  <2>6. /\ call' \in [Calls -> CallState] /\ Others(c)
        /\ \/ call[c].todo \ {d} = {} /\ call'[c].pc = "idle"
           \/ /\ call'[c].pc = "link" /\ call'[c].todo = call[c].todo \ {d}
              /\ call'[c].task = u /\ call'[c].status = call[c].status
    BY <1>0, <2>1, <2>3, ProceedIs
  <2> HIDE DEF r, d, u
  <2>7. /\ row' \in [Tasks -> Row \cup {None}] /\ Present' = Present /\ row'[d] = r
        /\ \A t \in Tasks : t # d => row'[t] = row[t]
    BY <1>0, <2>2, <2>3, <2>4, <2>5 DEF Present
  <2>8. late' \in [Tasks -> SUBSET Tasks]
    BY <2>1, <2>3 DEF TypeOK
  <2>9. \A t \in Present : row'[t].blocks \cup (row'[t].blockedBy \ cut'[t]) \subseteq Present
    BY <2>1, <2>2, <2>4, <2>7 DEF TypeOK, Present
  <2>10. TypeOK'
    BY <2>1, <2>6, <2>7, <2>8, <2>9 DEF TypeOK, Writes
  <2>11. Holding(c)'
    BY <2>2, <2>6, <2>7 DEF Holding
  <2>12. \A o \in Calls : o # c => Holding(o)'
    BY <1>0, <2>1, <2>6, <2>7, OtherHolds DEF Others
  <2>13. row[d].status = "completed" \/ Completing(d) => d \in late'[u]
    BY <1>4, <2>3 DEF Append, TypeOK, d, u
  <2>14. row'[d].status = row[d].status
    BY <2>2, <2>7 DEF r, Row
  <2>15. \A x \in Tasks : late[x] \subseteq late'[x]
    BY <2>1, <2>3 DEF TypeOK
  <2>20. ASSUME NEW x \in Tasks, NEW y \in Tasks, Waits(x, y)'
         PROVE  Waits(x, y) \/ AtRest(x, y)
    <3>1. row[x] # None /\ y \in row[x].blockedBy
      BY <2>2, <2>4, <2>7, <2>20 DEF Waits, Present
    <3>2. Waits(x, y) \/ Pending(c, y, x)
      BY <2>1, <2>6, <2>20, <3>1, Waiting
    <3>3. CASE Pending(c, y, x)
      <4>1. x = u /\ y \in call[c].todo
        BY <2>1, <3>3 DEF Pending, u
      <4>2. ~Pending(c, y, x)'
        BY <2>20 DEF Waits
      <4>3. y = d
        BY <2>6, <4>1, <4>2 DEF Pending
      <4> QED
        BY <2>4, <2>7, <2>13, <2>14, <4>1, <4>3 DEF AtRest
    <3> QED
      BY <3>2, <3>3
  <2>21. Dependencies'
    BY <2>4, <2>6, <2>7, <2>14, <2>15, <2>20, Keeps DEF Others, Present
  <2> QED
    BY <2>21, <2>10, <2>11, <2>12 DEF CallsHold, IInv
<1>5. ASSUME NEW c \in Calls, NEW t \in Tasks, NEW s \in Statuses \cup {None},
             NEW deps \in {None} \cup (SUBSET Tasks), Find(c, t, s, deps)
      PROVE  IInv'
  <2> DEFINE k == [Idle EXCEPT !.pc = "update", !.task = t, !.seen = row[t].blocks,
                               !.status = s, !.deps = deps]
  <2>1. /\ call' = [call EXCEPT ![c] = k] /\ UNCHANGED <<row, stale, cut, late>> /\ t \in Present
        /\ used' \in [Kinds -> Nat]
    BY <1>5 DEF Find, Spend, TypeOK, Kinds
  <2>2. row[t] \in Row /\ row[t].blocks \subseteq Present
    BY <1>0, <2>1 DEF TypeOK
  <2>3. /\ k \in CallState /\ k.pc = "update" /\ k.task = t /\ k.seen = row[t].blocks /\ k.deps = deps
    BY <2>2 DEF Idle, CallState, Present
  <2> HIDE DEF k
  <2>4. call' \in [Calls -> CallState] /\ call'[c] = k /\ Others(c) /\ Present' = Present
    BY <1>0, <2>1, <2>3 DEF Others, Present
  <2>5. TypeOK'
    BY <2>1, <2>4 DEF TypeOK
  <2>6. Holding(c)'
    BY <2>1, <2>2, <2>3, <2>4 DEF Holding
  <2>7. \A o \in Calls : o # c => Holding(o)'
    BY <1>0, <2>1, <2>4, OtherHolds DEF Others
  <2>20. \A u, d \in Tasks : Waits(u, d)' => Waits(u, d)
    BY <1>5, <2>1, <2>4, Waiting DEF Find, Pending, Waits
  <2>21. DependencyIsMutual' /\ CompletedBlocksNobody'
    BY <2>1, <2>20 DEF Dependencies, DependencyIsMutual, CompletedBlocksNobody
  <2>22. ASSUME NEW o \in Calls, NEW u \in Tasks, NEW d \in Tasks, Waits(u, d)',
                call'[o].pc = "update", call'[o].status = "completed", call'[o].task = d
         PROVE  u \in call'[o].seen \/ d \in late'[u]
    <3>1. Waits(u, d)
      BY <2>20, <2>22
    <3>2. CASE o = c
      BY <2>3, <2>4, <2>22, <3>1, <3>2 DEF Dependencies, DependencyIsMutual
    <3>3. CASE o # c
      BY <2>1, <2>4, <2>22, <3>1, <3>3 DEF Others, Dependencies, CompletingSees
    <3> QED
      BY <3>2, <3>3
  <2>23. Dependencies'
    BY <2>21, <2>22 DEF Dependencies, CompletingSees
  <2> QED
    BY <2>23, <2>5, <2>6, <2>7 DEF CallsHold, IInv
<1>6. ASSUME NEW c \in Calls, Update(c)
      PROVE  IInv'
  <2> DEFINE t == call[c].task
             s == call[c].status
             deps == call[c].deps
             r == [row[t] EXCEPT !.status = IF s = None THEN @ ELSE s,
                                 !.blockedBy = IF deps = None THEN @ ELSE deps]
             todo == IF s = "completed" THEN call[c].seen ELSE {}
  <2>1. /\ call[c].pc = "update" /\ Writes(c) /\ UNCHANGED <<used, late>>
        /\ row' = [row EXCEPT ![t] = r]
        /\ cut' = IF deps = None THEN cut ELSE [cut EXCEPT ![t] = Tasks]
        /\ Proceed(c, "free", todo)
    BY <1>6 DEF Update
  <2>2. /\ call[c] \in CallState /\ t \in Present /\ row[t] \in Row /\ call[c].seen \subseteq Present
    BY <1>0, <2>1 DEF Holding
  <2>3. /\ t \in Tasks /\ todo \subseteq Tasks /\ s \in Statuses \cup {None}
        /\ deps \in (SUBSET Tasks) \cup {None}
    BY <2>2 DEF Present, CallState
  <2>4. /\ r \in Row /\ r.blocks = row[t].blocks
        /\ r.blockedBy = IF deps = None THEN row[t].blockedBy ELSE deps
    BY <2>2, <2>3 DEF Row
  <2>5. /\ call' \in [Calls -> CallState] /\ Others(c)
        /\ \/ todo = {} /\ call'[c].pc = "idle"
           \/ /\ call'[c].pc = "free" /\ call'[c].todo = todo /\ todo # {}
              /\ call'[c].task = t /\ call'[c].status = s
    BY <1>0, <2>1, <2>3, ProceedIs
  <2>6. todo \subseteq Present /\ (todo # {} => s = "completed")
    BY <2>2
  <2> HIDE DEF r, t, s, deps, todo
  <2>7. /\ row' \in [Tasks -> Row \cup {None}] /\ Present' = Present /\ row'[t] = r
        /\ \A x \in Tasks : x # t => row'[x] = row[x]
    BY <1>0, <2>1, <2>2, <2>3, <2>4 DEF Present
  <2>8. cut' \in [Tasks -> SUBSET Tasks]
    BY <2>1, <2>3 DEF TypeOK
  <2>14. \A x \in Tasks : cut[x] \subseteq cut'[x]
    BY <2>1, <2>3 DEF TypeOK
  <2>9. \A x \in Present : row'[x].blocks \cup (row'[x].blockedBy \ cut'[x]) \subseteq Present
    <3>1. ASSUME NEW x \in Present, deps # None, x = t
          PROVE  row'[x].blockedBy \subseteq cut'[x]
      BY <2>1, <2>3, <2>4, <2>7, <3>1 DEF TypeOK
    <3>2. ASSUME NEW x \in Present, deps = None \/ x # t
          PROVE  row'[x].blockedBy = row[x].blockedBy /\ cut[x] \subseteq cut'[x]
      BY <2>4, <2>7, <2>14, <3>2 DEF Present
    <3>3. \A x \in Present : row'[x].blocks = row[x].blocks
      BY <2>4, <2>7 DEF Present
    <3> QED
      BY <3>1, <3>2, <3>3 DEF TypeOK
  <2>10. TypeOK'
    BY <2>1, <2>5, <2>7, <2>8, <2>9 DEF TypeOK, Writes
  <2>11. Holding(c)'
    BY <2>2, <2>5, <2>6, <2>7 DEF Holding
  <2>12. \A o \in Calls : o # c => Holding(o)'
    BY <1>0, <2>1, <2>5, <2>7, OtherHolds DEF Others
  <2>13. /\ row'[t].status = IF s = None THEN row[t].status ELSE s
         /\ \A x \in Present : row'[x].blocks = row[x].blocks
    BY <2>2, <2>3, <2>4, <2>7 DEF r, Row, Present
  <2>20. ASSUME NEW u \in Tasks, NEW d \in Tasks, Waits(u, d)'
         PROVE  Waits(u, d) /\ ~Pending(c, d, u)' /\ row[d].blocks = row'[d].blocks
    <3>1. row[u] # None /\ d \in row[u].blockedBy
      <4>1. CASE u # t
        BY <2>7, <2>20, <4>1 DEF Waits
      <4>2. CASE u = t /\ deps = None
        BY <1>0, <2>2, <2>4, <2>7, <2>20, <4>2 DEF Waits, Present
      <4>3. CASE u = t /\ deps # None
        BY <2>1, <2>3, <2>20, <4>3 DEF Waits, TypeOK
      <4> QED
        BY <4>1, <4>2, <4>3
    <3>2. Waits(u, d)
      BY <2>1, <2>5, <2>14, <2>20, <3>1, Waiting DEF Pending
    <3>3. d \in Present
      BY <3>2 DEF Waits, TypeOK, Present
    <3> QED
      BY <2>13, <2>20, <3>2, <3>3 DEF Waits
  <2>21. DependencyIsMutual'
    BY <2>20 DEF Dependencies, DependencyIsMutual
  <2>22. ASSUME NEW u \in Tasks, NEW d \in Tasks, Waits(u, d)', row'[d].status = "completed"
         PROVE  d \in late'[u]
    <3>1. Waits(u, d) /\ ~Pending(c, d, u)'
      BY <2>20, <2>22
    <3>2. CASE row[d].status = "completed"
      BY <2>1, <3>1, <3>2 DEF Dependencies, CompletedBlocksNobody
    <3>3. CASE row[d].status # "completed"
      <4>1. d = t /\ s = "completed"
        BY <2>7, <2>13, <2>22, <3>3
      <4>2. u \in call[c].seen \/ d \in late[u]
        BY <2>1, <3>1, <4>1 DEF Dependencies, CompletingSees, t, s
      <4>3. u \notin todo
        BY <2>5, <3>1, <4>1 DEF Pending
      <4> QED
        BY <2>1, <4>1, <4>2, <4>3 DEF todo
    <3> QED
      BY <3>2, <3>3
  <2>23. CompletingSees'
    BY <2>1, <2>5, <2>20 DEF Others, Dependencies, CompletingSees
  <2>24. Dependencies'
    BY <2>21, <2>22, <2>23 DEF Dependencies, CompletedBlocksNobody
  <2> QED
    BY <2>24, <2>10, <2>11, <2>12 DEF CallsHold, IInv
<1>7. ASSUME NEW c \in Calls, Free(c)
      PROVE  IInv'
  <2>1. PICK u \in call[c].todo :
          call' = [call EXCEPT ![c].pc = "remove", ![c].next = u, ![c].seen = row[u].blockedBy]
    BY <1>7 DEF Free
  <2> DEFINE k == [call[c] EXCEPT !.pc = "remove", !.next = u, !.seen = row[u].blockedBy]
  <2>2. /\ call[c].pc = "free" /\ stale' = stale \ {c} /\ UNCHANGED <<row, used, cut, late>>
        /\ Present' = Present
    BY <1>7 DEF Free, Present
  <2>3. /\ call[c] \in CallState /\ call[c].todo \subseteq Present /\ call[c].task \in Present
        /\ call[c].status = "completed" /\ u \in Tasks /\ row[u] \in Row
    BY <1>0, <2>1, <2>2 DEF Holding
  <2>4. /\ k \in CallState /\ k.pc = "remove" /\ k.task = call[c].task /\ k.todo = call[c].todo
        /\ k.status = call[c].status /\ k.next = u /\ k.seen = row[u].blockedBy
    BY <2>3 DEF CallState, Row
  <2>5. call' = [call EXCEPT ![c] = k]
    BY <1>0, <2>1
  <2> HIDE DEF k
  <2>6. call' \in [Calls -> CallState] /\ call'[c] = k /\ Others(c)
    BY <1>0, <2>4, <2>5 DEF Others
  <2>7. TypeOK'
    BY <2>2, <2>6 DEF TypeOK
  <2>8. Holding(c)'
    BY <2>1, <2>2, <2>3, <2>4, <2>6 DEF Holding
  <2>9. \A o \in Calls : o # c => Holding(o)'
    BY <1>0, <2>2, <2>6, OtherHolds DEF Others
  <2>20. \A x, d \in Tasks : Waits(x, d)' => Waits(x, d)
    BY <2>2, <2>4, <2>6, Waiting DEF Pending, Waits
  <2>21. Dependencies'
    BY <2>2, <2>4, <2>6, <2>20, Keeps DEF Others
  <2> QED
    BY <2>21, <2>7, <2>8, <2>9 DEF CallsHold, IInv
<1>8. ASSUME NEW c \in Calls, Remove(c)
      PROVE  IInv'
  <2> DEFINE u == call[c].next
             r == [row[u] EXCEPT !.blockedBy = call[c].seen \ {call[c].task}]
  <2>1. /\ call[c].pc = "remove" /\ Writes(c) /\ UNCHANGED <<used, cut, late>>
        /\ row' = [row EXCEPT ![u].blockedBy = call[c].seen \ {call[c].task}]
        /\ Proceed(c, "free", call[c].todo \ {u}) /\ c \notin stale
    BY <1>8 DEF Remove
  <2>2. /\ call[c] \in CallState /\ call[c].todo \subseteq Present /\ u \in Present
        /\ call[c].task \in Present /\ call[c].status = "completed"
        /\ row[u] \in Row /\ call[c].seen = row[u].blockedBy
    BY <1>0, <2>1 DEF Holding
  <2>3. u \in Tasks /\ call[c].todo \subseteq Tasks
    BY <2>2 DEF Present
  <2>4. r \in Row /\ r.blockedBy \subseteq row[u].blockedBy /\ r.blocks = row[u].blocks
    BY <2>2, <2>3 DEF Row
  <2>5. row' = [row EXCEPT ![u] = r]
    BY <1>0, <2>1
  <2>6. /\ call' \in [Calls -> CallState] /\ Others(c)
        /\ \/ call[c].todo \ {u} = {} /\ call'[c].pc = "idle"
           \/ /\ call'[c].pc = "free" /\ call'[c].todo = call[c].todo \ {u}
              /\ call'[c].task = call[c].task /\ call'[c].status = call[c].status
    BY <1>0, <2>1, <2>3, ProceedIs
  <2> HIDE DEF r, u
  <2>7. /\ row' \in [Tasks -> Row \cup {None}] /\ Present' = Present /\ row'[u] = r
        /\ \A t \in Tasks : t # u => row'[t] = row[t]
    BY <1>0, <2>2, <2>3, <2>4, <2>5 DEF Present
  <2>9. \A t \in Present : row'[t].blocks \cup (row'[t].blockedBy \ cut'[t]) \subseteq Present
    BY <2>1, <2>2, <2>4, <2>7 DEF TypeOK, Present
  <2>10. TypeOK'
    BY <2>1, <2>6, <2>7, <2>9 DEF TypeOK, Writes
  <2>11. Holding(c)'
    BY <2>2, <2>6, <2>7 DEF Holding
  <2>12. \A o \in Calls : o # c => Holding(o)'
    BY <1>0, <2>1, <2>6, <2>7, OtherHolds DEF Others
  <2>13. row'[u].status = row[u].status /\ call[c].task \notin row'[u].blockedBy
    BY <2>2, <2>7 DEF r, Row
  <2>20. ASSUME NEW x \in Tasks, NEW y \in Tasks, Waits(x, y)'
         PROVE  Waits(x, y)
    <3>1. row[x] # None /\ y \in row[x].blockedBy
      BY <2>2, <2>4, <2>7, <2>20 DEF Waits, Present
    <3>2. Waits(x, y) \/ Pending(c, y, x)
      BY <2>1, <2>6, <2>20, <3>1, Waiting
    <3>3. CASE Pending(c, y, x)
      <4>1. y = call[c].task /\ x \in call[c].todo /\ x # u
        BY <2>1, <2>13, <2>20, <3>3 DEF Pending, Waits
      <4>2. Pending(c, y, x)'
        BY <2>6, <4>1 DEF Pending
      <4> QED
        BY <2>20, <4>2 DEF Waits
    <3> QED
      BY <3>2, <3>3
  <2>21. Dependencies'
    BY <2>1, <2>4, <2>6, <2>7, <2>13, <2>20, Keeps DEF Others, Present
  <2> QED
    BY <2>21, <2>10, <2>11, <2>12 DEF CallsHold, IInv
<1>9. ASSUME NEW c \in Calls, Busy(c)
      PROVE  IInv'
  <2>1. /\ call' = [call EXCEPT ![c] = Idle] /\ UNCHANGED <<row, stale, used, late>>
        /\ cut' \in [Tasks -> SUBSET Tasks] /\ Present' = Present
        /\ \A u \in Tasks : cut[u] \subseteq cut'[u]
    BY <1>9 DEF Busy, TypeOK, Present
  <2>2. call' \in [Calls -> CallState] /\ call'[c].pc = "idle" /\ Others(c)
    BY <1>0, <2>1, IdleIs DEF Others
  <2>6. \A t \in Present : row[t].blocks \cup (row[t].blockedBy \ cut'[t]) \subseteq Present
    BY <2>1 DEF TypeOK, Present
  <2>3. TypeOK'
    BY <2>1, <2>2, <2>6 DEF TypeOK
  <2>4. Holding(c)'
    BY <2>2 DEF Holding
  <2>5. \A o \in Calls : o # c => Holding(o)'
    BY <1>0, <2>1, <2>2, OtherHolds DEF Others
  <2>20. ASSUME NEW u \in Tasks, NEW d \in Tasks, Waits(u, d)'
         PROVE  Waits(u, d)
    <3>1. cut'[u] = cut[u] \cup {x \in Tasks : Pending(c, x, u)}
      BY <1>9 DEF Busy
    <3>2. d \notin cut'[u] /\ row[u] # None /\ d \in row[u].blockedBy
      BY <2>1, <2>20 DEF Waits
    <3> QED
      BY <2>2, <2>20, <3>1, <3>2, Waiting
  <2>21. Dependencies'
    BY <2>1, <2>2, <2>20, Keeps DEF Others
  <2> QED
    BY <2>21, <2>3, <2>4, <2>5 DEF CallsHold, IInv
<1>10. CASE Crash
  <2>1. /\ call' = [c \in Calls |-> Idle] /\ UNCHANGED <<row, stale, late>>
        /\ cut' \in [Tasks -> SUBSET Tasks] /\ Present' = Present /\ used' \in [Kinds -> Nat]
        /\ \A u \in Tasks : cut[u] \subseteq cut'[u]
    BY <1>10 DEF Crash, TypeOK, Present, Spend, Kinds
  <2>2. call' \in [Calls -> CallState] /\ \A c \in Calls : call'[c].pc = "idle"
    BY <2>1, IdleIs
  <2>3. \A t \in Present : row[t].blocks \cup (row[t].blockedBy \ cut'[t]) \subseteq Present
    BY <2>1 DEF TypeOK, Present
  <2>4. TypeOK'
    BY <2>1, <2>2, <2>3 DEF TypeOK
  <2>20. ASSUME NEW u \in Tasks, NEW d \in Tasks, Waits(u, d)'
         PROVE  Waits(u, d)
    <3>1. cut'[u] = cut[u] \cup {x \in Tasks : \E c \in Calls : Pending(c, x, u)}
      BY <1>10 DEF Crash
    <3> QED
      BY <2>1, <2>20, <3>1 DEF Waits
  <2>21. Dependencies'
    BY <2>1, <2>2, <2>20, Keeps
  <2> QED
    BY <2>21, <2>2, <2>4 DEF CallsHold, Holding, IInv
<1>11. CASE UNCHANGED vars
  <2>1. Present' = Present
    BY <1>11 DEF vars, Present
  <2>20. \A u, d \in Tasks : Waits(u, d)' => Waits(u, d)
    BY <1>11 DEF vars, Waits, Pending
  <2>21. Dependencies'
    BY <1>11, <2>20, Keeps DEF vars
  <2> QED
    BY <2>21, <1>11, <2>1 DEF vars, TypeOK, CallsHold, Holding, IInv
<1> QED
  BY <1>1, <1>2, <1>3, <1>4, <1>5, <1>6, <1>7, <1>8, <1>9, <1>10, <1>11 DEF Next

\* A board starts empty.
LEMMA Inits == Init => IInv
<1> SUFFICES ASSUME Init PROVE IInv
  OBVIOUS
<1>1. \A t \in Tasks : row[t] = None
  BY DEF Init
<1>2. \A c \in Calls : call[c] = Idle
  BY DEF Init
<1>3. TypeOK
  BY <1>1, IdleIs DEF Init, TypeOK, Present, Kinds
<1>4. CallsHold
  BY <1>2, IdleIs DEF CallsHold, Holding
<1>5. Dependencies
  BY <1>1, <1>2, IdleIs DEF Dependencies, DependencyIsMutual, CompletedBlocksNobody, CompletingSees, Waits
<1> QED
  BY <1>3, <1>4, <1>5 DEF IInv

-----------------------------------------------------------------------------
(* Theorems *)

\* The strengthened invariant holds of every run of the board.
THEOREM Inductive == Spec => []IInv
BY Inits, InductiveNext, PTL DEF Spec

\* Every variable keeps its type, and no task ever names one that does not
\* exist (create_task and update_task).
THEOREM Typed == Spec => []TypeOK
<1>1. IInv => TypeOK
  BY DEF IInv
<1> QED
  BY <1>1, Inductive, PTL

\* Whatever calls overlap, a task that waits for another is in its list
\* (append_to_blocks loses no entry).
THEOREM NoEntryLost == Spec => []DependencyIsMutual
<1>1. IInv => DependencyIsMutual
  BY DEF IInv, Dependencies
<1> QED
  BY <1>1, Inductive, PTL

\* Nobody goes on waiting for a completed task, but those that were linked
\* to it too late (check_unblocks and remove_from_blocked_by).
THEOREM CompletionFrees == Spec => []CompletedBlocksNobody
<1>1. IInv => CompletedBlocksNobody
  BY DEF IInv, Dependencies
<1> QED
  BY <1>1, Inductive, PTL
=============================================================================
