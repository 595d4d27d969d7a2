--------------------------- MODULE TeamLoopProofs ---------------------------
(***************************************************************************)
(* Proofs about TeamLoop, for every team, every number of loops and every  *)
(* budget of outside events: first what holds always, then what holds as   *)
(* long as no slot is added or spawned: every slot then has one loop, its  *)
(* mail reaches a turn once, and the leader hears when all have settled.   *)
(***************************************************************************)
EXTENDS TeamLoop, TLAPS

USE DEF mailVars, teamVars, slotVars, loopVars, wakeVars, turnVars, history, vars,
        InlineUnchanged, TurnUnchanged, JoinUnchanged

\* A loop is started under a number that is free.
LEMMA FreeLoop == ASSUME NEW a \in Agents, Running(a) # Loops
                  PROVE  Free(a) \in Loops \ Running(a)
BY DEF Free, Running

\* The unread rows of a slot are rows.
LEMMA UnreadRows == ASSUME TypeOK, NEW a \in Agents PROVE Unread(a) \in SUBSET Row
BY DEF Unread, TypeOK

\* The rows of tasks that are cut off are rows.
LEMMA CutOffRows == ASSUME TypeOK, NEW S \in SUBSET Tasks PROVE CutOff(S) \in SUBSET Row
BY DEF CutOff, TypeOK

\* Aborting tasks keeps the types of what it changes.
LEMMA TypeAbort ==
  ASSUME TypeOK, NEW S, Abort(S)
  PROVE  /\ pc' \in [Tasks -> PC] /\ permit' \in [Tasks -> BOOLEAN]
         /\ batch' \in [Tasks -> SUBSET Row] /\ ok' \in [Tasks -> BOOLEAN]
BY DEF Abort, TypeOK, PC

\* A step of a loop keeps the types.
LEMMA TypeLoop == ASSUME TypeOK, NEW t \in Tasks, LoopStep(t) PROVE TypeOK'
<1>0. PICK a \in Agents, g \in Loops : t = <<a, g>>
  BY DEF Tasks
<1>a. t[1] = a /\ t[1] \in Agents
  BY <1>0
<1>1. CASE TakePermit(t) \/ Park(t)
  BY <1>1, ZenonT(60) DEF TakePermit, Park, TypeOK, PC
<1>2. CASE Exit(t)
  BY <1>2 DEF Exit, TypeOK, PC
<1>3. CASE Peek(t)
  BY <1>3, <1>a, UnreadRows, ZenonT(60) DEF Peek, TypeOK, PC
<1>4. CASE SkipBusy(t)
  BY <1>4, <1>a DEF SkipBusy, GiveUp, TypeOK, PC
<1>5. CASE SkipWarmup(t)
  BY <1>5, <1>a DEF SkipWarmup, Spend, GiveUp, TypeOK, PC, Kinds
<1>6. CASE Pass(t)
  BY <1>6 DEF Pass, TypeOK, PC
<1>7. CASE SetWorking(t) \/ ClaimRow(t) \/ Send(t)
  <2>1. CASE SetWorking(t)
    BY <2>1, <1>a DEF SetWorking, TypeOK, PC
  <2>2. CASE ClaimRow(t)
    BY <2>2, <1>a DEF ClaimRow, TypeOK, PC
  <2>3. CASE Send(t)
    BY <2>3, <1>a DEF Send, Hand, TypeOK, PC
  <2>. QED BY <1>7, <2>1, <2>2, <2>3
<1>8. CASE TurnEnds(t)
  <2>1. /\ waiting' \in [Agents -> Nat] /\ ended' \in [Agents -> Nat]
    <3>1. UNCHANGED <<waiting, ended>> \/ Hear(a)
      BY <1>8, <1>a DEF TurnEnds
    <3>2. CASE UNCHANGED <<waiting, ended>>
      BY <3>2 DEF TypeOK
    <3>3. CASE Hear(a)
      <4>1. waiting \in [Agents -> Nat] /\ ended \in [Agents -> Nat]
        BY DEF TypeOK
      <4>. QED BY <3>3, <4>1 DEF Hear
    <3>. QED BY <3>1, <3>2, <3>3
  <2>2. used' \in [Kinds -> Nat]
    <3>1. UNCHANGED used \/ Spend("fail")
      BY <1>8 DEF TurnEnds
    <3>. QED BY <3>1 DEF Spend, TypeOK, Kinds
  <2>3. ok' \in [Tasks -> BOOLEAN] /\ pc' \in [Tasks -> PC]
    BY <1>8 DEF TurnEnds, TypeOK, PC
  <2>. QED BY <1>8, <2>1, <2>2, <2>3 DEF TurnEnds, TypeOK
<1>9. CASE Mark(t)
  BY <1>9 DEF Mark, TypeOK, PC
<1>10. CASE MarkFails(t)
  BY <1>10 DEF MarkFails, Spend, TypeOK, PC, Kinds
<1>11. CASE FinishRow(t)
  BY <1>11, <1>a DEF FinishRow, Release, TypeOK, PC
<1>12. CASE SetError(t)
  BY <1>12, <1>a DEF SetError, TypeOK, PC
<1>13. CASE MarkIdle(t)
  BY <1>13, <1>a DEF MarkIdle, TypeOK, PC
<1>14. CASE Note(t)
  BY <1>14, <1>a, TeamAssumption DEF Note, Write, NewRow, Row, TypeOK, PC
<1>15. CASE Check(t)
  BY <1>15, <1>a, TeamAssumption DEF Check, Notified, Tasks, Loops, TypeOK, PC
<1> QED
  BY <1>1, <1>2, <1>3, <1>4, <1>5, <1>6, <1>7, <1>8, <1>9, <1>10, <1>11, <1>12,
     <1>13, <1>14, <1>15 DEF LoopStep

\* The types hold at the start.
LEMMA TypeInit == Init => TypeOK
BY TeamAssumption, BoundAssumption DEF Init, TypeOK, PC, NoInline

\* Writers and their signals keep the types.
LEMMA TypeMail ==
  ASSUME TypeOK, NEW a \in Agents,
         \/ UserWrite(a) \/ Decline(a) \/ \E s \in Agents : McpWrite(s, a)
         \/ \E m \in owed : Wake(m)
  PROVE  TypeOK'
<1>1. CASE UserWrite(a)
  BY <1>1 DEF UserWrite, Spend, Write, NewRow, Row, TypeOK, Kinds
<1>2. CASE Decline(a)
  BY <1>2, TeamAssumption DEF Decline, Spend, Write, NewRow, Row, TypeOK, Kinds
<1>3. ASSUME NEW s \in Agents, McpWrite(s, a) PROVE TypeOK'
  BY <1>3 DEF McpWrite, Spend, Write, NewRow, Row, TypeOK, Kinds
<1>4. ASSUME NEW m \in owed, Wake(m) PROVE TypeOK'
  <2>1. m.to \in Agents
    BY DEF TypeOK, Row
  <2>2. inline' \in [Agents -> [pc : {"no", "peek", "send", "prompt"},
                               batch : SUBSET Row, old : BOOLEAN]]
    BY <1>4, <2>1 DEF Wake, TypeOK
  <2>3. permit' \in [Tasks -> BOOLEAN]
    BY <1>4, <2>1 DEF Wake, Notified, Tasks, Loops, TypeOK
  <2> QED
    BY <1>4, <2>2, <2>3 DEF Wake, TypeOK
<1> QED
  BY <1>1, <1>2, <1>3, <1>4

\* Inline sends, user turns and relays keep the types.
LEMMA TypeTurns ==
  ASSUME TypeOK, NEW a \in Agents,
         \/ InlineStep(a) \/ DirectCheck(a) \/ DirectDropped(a) \/ DirectStep(a)
         \/ RelayDone(a) \/ StreamCloses(a)
  PROVE  TypeOK'
<1>1. CASE InlinePeek(a)
  <2>1. inline' \in [Agents -> [pc : {"no", "peek", "send", "prompt"},
                               batch : SUBSET Row, old : BOOLEAN]]
    <3>1. NoInline \in [pc : {"no", "peek", "send", "prompt"},
                       batch : SUBSET Row, old : BOOLEAN]
      BY DEF NoInline
    <3>2. [pc |-> "send", batch |-> Unread(a), old |-> inline[a].old]
            \in [pc : {"no", "peek", "send", "prompt"}, batch : SUBSET Row, old : BOOLEAN]
      BY UnreadRows DEF TypeOK
    <3>3. \/ inline' = [inline EXCEPT ![a] = NoInline]
          \/ inline' = [inline EXCEPT ![a] = [pc |-> "send", batch |-> Unread(a),
                                             old |-> inline[a].old]]
      BY <1>1 DEF InlinePeek
    <3> QED
      BY <3>1, <3>2, <3>3 DEF TypeOK
  <2> QED
    BY <1>1, <2>1 DEF InlinePeek, TypeOK
<1>2. CASE InlineSend(a)
  BY <1>2 DEF InlineSend, Hand, TypeOK
<1>3. CASE InlineEnds(a)
  BY <1>3 DEF InlineEnds, NoInline, TypeOK
<1>4. CASE DirectCheck(a)
  BY <1>4 DEF DirectCheck, DirectDropped, Spend, TypeOK, Kinds
<1>5. CASE DirectStart(a)
  BY <1>5 DEF DirectStart, TypeOK
<1>6. CASE DirectEnds(a)
  BY <1>6 DEF DirectEnds, Hear, TypeOK
<1>7. CASE DirectDone(a)
  BY <1>7 DEF DirectDone, Release, TypeOK
<1>8. CASE RelayDone(a)
  BY <1>8 DEF RelayDone, Release, TypeOK
<1>9. CASE StreamCloses(a)
  BY <1>9 DEF StreamCloses, Hear, TypeOK
<1>10. CASE DirectDropped(a)
  BY <1>10 DEF DirectDropped, TypeOK
<1> QED
  BY <1>1, <1>2, <1>3, <1>4, <1>5, <1>6, <1>7, <1>8, <1>9, <1>10 DEF InlineStep, DirectStep

\* EventLoopRegistry::spawn keeps the types of the loops' state.
LEMMA TypeSpawn ==
  ASSUME TypeOK, NEW a \in Agents, NEW signalled \in BOOLEAN, Spawn(a, signalled)
  PROVE  /\ reg' \in [Agents -> 0 .. MaxLoops]
         /\ pc' \in [Tasks -> PC]
         /\ permit' \in [Tasks -> BOOLEAN]
         /\ UNCHANGED <<batch, ok, doomed>>
<1>1. Free(a) \in 1 .. MaxLoops /\ <<a, Free(a)>> \in Tasks
  BY FreeLoop DEF Spawn, Tasks, Loops
<1>2. Free(a) \in 0 .. MaxLoops
  BY <1>1, BoundAssumption
<1> QED
  BY <1>1, <1>2 DEF Spawn, TypeOK, PC

\* Additions and removals keep the types.
LEMMA TypeMembers ==
  ASSUME TypeOK, NEW a \in Agents,
         Persist(a) \/ JoinStep(a) \/ RemovePersist(a) \/ RemoveSlot(a)
  PROVE  TypeOK'
<1>1. CASE Persist(a)
  BY <1>1 DEF Persist, TypeOK
<1>2. CASE AddAttach(a)
  <2>1. CASE session = "up"
    <3>1. /\ live' \subseteq Agents /\ needs' \subseteq Agents
          /\ status' \in [Agents -> {"idle", "working", "error"}]
      BY <1>2, <2>1 DEF AddAttach, SlotFor, TypeOK
    <3>2. joining' \in [Agents -> {"no", "adding", "added", "spawning", "orphaned",
                                  "spawned", "done"}]
      BY <1>2, <2>1 DEF AddAttach, TypeOK
    <3>. QED BY <1>2, <3>1, <3>2 DEF AddAttach, TypeOK
  <2>2. CASE session # "up"
    BY <1>2, <2>2 DEF AddAttach, TypeOK
  <2>. QED BY <2>1, <2>2
<1>3. CASE AddRegister(a)
  <2>1. CASE session = "up"
    BY <1>3, <2>1, TypeSpawn DEF AddRegister, TypeOK
  <2>2. CASE session # "up"
    BY <1>3, <2>2 DEF AddRegister, TypeOK
  <2> QED
    BY <2>1, <2>2
<1>4. CASE SpawnAttach(a)
  <2>1. mail' \subseteq Row /\ nextId' \in Nat /\ read' = read
    BY <1>4, TeamAssumption DEF SpawnAttach, Write, NewRow, Row, TypeOK
  <2> QED
    BY <1>4, <2>1 DEF SpawnAttach, SlotFor, TypeOK
<1>5. CASE SpawnRegister(a)
  <2>1. CASE session = "up"
    BY <1>5, <2>1, TypeSpawn DEF SpawnRegister, TypeOK
  <2>2. CASE session # "up"
    BY <1>5, <2>2 DEF SpawnRegister, TypeOK
  <2> QED
    BY <2>1, <2>2
<1>6. CASE RemovePersist(a)
  BY <1>6 DEF RemovePersist, TypeOK
<1>7. CASE RemoveSlot(a)
  <2>1. CASE session = "up" /\ a \in live
    <3>1. excused' \subseteq Row
      <4>1. CutOff({<<a, reg[a]>>} \cap Tasks) \in SUBSET Row
        BY CutOffRows
      <4> QED
        BY <1>7, <2>1, <4>1 DEF RemoveSlot, TypeOK
    <3>2. /\ pc' \in [Tasks -> PC] /\ permit' \in [Tasks -> BOOLEAN]
          /\ batch' \in [Tasks -> SUBSET Row] /\ ok' \in [Tasks -> BOOLEAN]
      <4>1. Abort({<<a, reg[a]>>} \cap Tasks)
        BY <1>7, <2>1 DEF RemoveSlot
      <4> QED
        BY <4>1, TypeAbort
    <3>3. reg' \in [Agents -> 0 .. MaxLoops]
      BY <1>7, <2>1, BoundAssumption DEF RemoveSlot, TypeOK
    <3>4. /\ live' \subseteq Agents /\ needs' \subseteq Agents
          /\ status' \in [Agents -> {"idle", "working", "error"}]
      BY <1>7, <2>1 DEF RemoveSlot, TypeOK
    <3>5. leaving' \subseteq Agents
      BY <1>7 DEF RemoveSlot, TypeOK
    <3>6. UNCHANGED <<mailVars, member, joining, doomed, wakeVars, conv, waiting, ended, direct,
                      handed, repeated, session, snapshot, used, skipped>>
      BY <1>7 DEF RemoveSlot
    <3>7. stranded' \subseteq Agents
      BY <1>7, <2>1 DEF RemoveSlot, Strands, TypeOK
    <3> QED
      BY <3>1, <3>2, <3>3, <3>4, <3>5, <3>6, <3>7 DEF TypeOK
  <2>2. CASE ~(session = "up" /\ a \in live)
    BY <1>7, <2>2 DEF RemoveSlot, TypeOK
  <2> QED
    BY <2>1, <2>2
<1> QED
  BY <1>1, <1>2, <1>3, <1>4, <1>5, <1>6, <1>7 DEF JoinStep

\* The session's start, its stop and a crash keep the types.
LEMMA TypeSession ==
  ASSUME TypeOK, EnsureStep \/ StopSession \/ Crash
  PROVE  TypeOK'
<1>1. CASE EnsureBegin
  BY <1>1 DEF EnsureBegin, TypeOK
<1>2. CASE EnsureReady
  <2>1. \A a \in snapshot : Free(a) \in 0 .. MaxLoops
    BY <1>2, FreeLoop, BoundAssumption DEF EnsureReady, Loops, TypeOK
  <2>2. reg' \in [Agents -> 0 .. MaxLoops]
    BY <1>2, <2>1, BoundAssumption DEF EnsureReady, TypeOK
  <2>3. pc' \in [Tasks -> PC] /\ permit' \in [Tasks -> BOOLEAN]
    BY <1>2 DEF EnsureReady, TypeOK, PC
  <2> QED
    BY <1>2, <2>2, <2>3 DEF EnsureReady, TypeOK
<1>3. CASE StopSession
  <2>1. inline' \in [Agents -> [pc : {"no", "peek", "send", "prompt"},
                               batch : SUBSET Row, old : BOOLEAN]]
    BY <1>3 DEF StopSession, TypeOK
  <2>2. joining' \in [Agents -> {"no", "adding", "added", "spawning", "orphaned",
                                "spawned", "done"}]
    BY <1>3 DEF StopSession, TypeOK
  <2>3. reg' \in [Agents -> 0 .. MaxLoops]
    BY <1>3, BoundAssumption DEF StopSession, NoSession
  <2>4. excused' \subseteq Row
    BY <1>3 DEF StopSession, CutOff, TypeOK
  <2>5. /\ pc' \in [Tasks -> PC] /\ permit' \in [Tasks -> BOOLEAN]
        /\ batch' \in [Tasks -> SUBSET Row] /\ ok' \in [Tasks -> BOOLEAN]
    BY <1>3, TypeAbort DEF StopSession
  <2>6. used' \in [Kinds -> Nat]
    BY <1>3 DEF StopSession, Spend, Kinds, TypeOK
  <2>7. stranded' \subseteq Agents
    BY <1>3 DEF StopSession, Strands, TypeOK
  <2> QED
    BY <1>3, <2>1, <2>2, <2>3, <2>4, <2>5, <2>6, <2>7 DEF StopSession, NoSession, TypeOK
<1>4. CASE Crash
  <2>1. inline' \in [Agents -> [pc : {"no", "peek", "send", "prompt"},
                               batch : SUBSET Row, old : BOOLEAN]]
    BY <1>4 DEF Crash, NoInline, TypeOK
  <2>2. joining' \in [Agents -> {"no", "adding", "added", "spawning", "orphaned",
                                "spawned", "done"}]
    BY <1>4 DEF Crash, TypeOK
  <2>3. reg' \in [Agents -> 0 .. MaxLoops]
    BY <1>4, BoundAssumption DEF Crash, NoSession
  <2>4. excused' \subseteq Row
    BY <1>4 DEF Crash, CutOff, TypeOK
  <2>5. /\ pc' \in [Tasks -> PC] /\ permit' \in [Tasks -> BOOLEAN]
        /\ batch' \in [Tasks -> SUBSET Row] /\ ok' \in [Tasks -> BOOLEAN]
    BY <1>4, TypeAbort DEF Crash
  <2>6. used' \in [Kinds -> Nat]
    BY <1>4 DEF Crash, Spend, Kinds, TypeOK
  <2> QED
    BY <1>4, <2>1, <2>2, <2>3, <2>4, <2>5, <2>6 DEF Crash, NoSession, TypeOK
<1> QED
  BY <1>1, <1>2, <1>3, <1>4 DEF EnsureStep

\* Every step keeps the types.
LEMMA TypeNext == TypeOK /\ [Next]_vars => TypeOK'
<1> SUFFICES ASSUME TypeOK, [Next]_vars PROVE TypeOK'
  OBVIOUS
<1>1. CASE Next
  <2>1. ASSUME NEW t \in Tasks, LoopStep(t) PROVE TypeOK'
    BY <2>1, TypeLoop
  <2>2. ASSUME NEW a \in Agents, UserWrite(a) \/ Decline(a) PROVE TypeOK'
    BY <2>2, TypeMail
  <2>3. ASSUME NEW s \in Agents, NEW a \in Agents, McpWrite(s, a) PROVE TypeOK'
    BY <2>3, TypeMail
  <2>4. ASSUME NEW m \in owed, Wake(m) PROVE TypeOK'
    BY <2>4, TypeMail, TeamAssumption
  <2>5. ASSUME NEW a \in Agents,
               \/ InlineStep(a) \/ DirectCheck(a) \/ DirectDropped(a) \/ DirectStep(a)
               \/ RelayDone(a) \/ StreamCloses(a)
        PROVE  TypeOK'
    BY <2>5, TypeTurns
  <2>6. ASSUME NEW a \in Agents,
               Persist(a) \/ JoinStep(a) \/ RemovePersist(a) \/ RemoveSlot(a)
        PROVE  TypeOK'
    BY <2>6, TypeMembers
  <2>7. CASE EnsureStep \/ StopSession \/ Crash
    BY <2>7, TypeSession
  <2> QED
    BY <1>1, <2>1, <2>2, <2>3, <2>4, <2>5, <2>6, <2>7 DEF Next
<1>2. CASE UNCHANGED vars
  BY <1>2 DEF TypeOK
<1> QED
  BY <1>1, <1>2

\* Every variable of the team keeps its type, whatever the agents, the users
\* and the faults do.
THEOREM TypeCorrect == Spec => []TypeOK
BY TypeInit, TypeNext, PTL DEF Spec

-----------------------------------------------------------------------------
(* The rows in hand *)

\* At the start nobody holds a row.
LEMMA RowsInit == Init => RowsInHand
BY DEF Init, RowsInHand, NoInline

\* A step that leaves the holders of rows alone, but for rows added to the
\* mailbox, keeps the rows in hand.
LEMMA RowsKept ==
  ASSUME RowsInHand, mail \subseteq mail', UNCHANGED <<pc, batch, inline, handed, read>>
  PROVE  RowsInHand'
BY DEF RowsInHand

\* A loop that is not about to hold a turn's rows may move as it likes.
LEMMA RowsMoved ==
  ASSUME TypeOK, RowsInHand, NEW t \in Tasks, NEW where \in PC \ {"prompt", "mark"},
         pc' = [pc EXCEPT ![t] = where], mail \subseteq mail',
         UNCHANGED <<batch, inline, handed, read>>
  PROVE  RowsInHand'
BY DEF RowsInHand, TypeOK

\* A loop holds only rows there are, through each of its steps.
LEMMA RowsLoop == ASSUME TypeOK, RowsInHand, NEW t \in Tasks, LoopStep(t) PROVE RowsInHand'
<1>0. t[1] \in Agents
  BY DEF Tasks
<1>1. CASE TakePermit(t) \/ Park(t)
  BY <1>1, RowsMoved DEF TakePermit, Park, PC
<1>2. CASE Exit(t)
  BY <1>2, RowsMoved DEF Exit, PC
<1>3. CASE Peek(t)
  <2>1. \A u \in Tasks \ {t} : pc'[u] = pc[u] /\ batch'[u] = batch[u]
    BY <1>3 DEF Peek, TypeOK
  <2>2. pc'[t] \in {"wait", "park", "guard"}
    BY <1>3 DEF Peek, TypeOK
  <2>3. batch'[t] \subseteq mail
    BY <1>3 DEF Peek, Unread, TypeOK, RowsInHand
  <2>4. UNCHANGED <<mail, read, handed, inline>>
    BY <1>3 DEF Peek
  <2> QED
    BY <2>1, <2>2, <2>3, <2>4 DEF RowsInHand
<1>4. CASE SkipBusy(t) \/ SkipWarmup(t)
  BY <1>4, ZenonT(60) DEF SkipBusy, SkipWarmup, GiveUp, RowsInHand, TypeOK
<1>5. CASE Pass(t)
  BY <1>5, RowsMoved DEF Pass, PC
<1>6. CASE Send(t)
  BY <1>6 DEF Send, Hand, RowsInHand, TypeOK
<1>15. CASE SetWorking(t) \/ ClaimRow(t)
  BY <1>15, RowsMoved DEF SetWorking, ClaimRow, PC
<1>7. CASE TurnEnds(t)
  BY <1>7 DEF TurnEnds, RowsInHand, TypeOK
<1>8. CASE Mark(t)
  BY <1>8 DEF Mark, RowsInHand, TypeOK
<1>9. CASE MarkFails(t)
  BY <1>9 DEF MarkFails, RowsInHand, TypeOK
<1>10. CASE FinishRow(t)
  BY <1>10, RowsMoved DEF FinishRow, PC
<1>11. CASE SetError(t)
  BY <1>11, RowsMoved DEF SetError, PC
<1>12. CASE MarkIdle(t)
  BY <1>12, RowsMoved DEF MarkIdle, PC
<1>13. CASE Note(t)
  BY <1>13, RowsMoved DEF Note, Write, PC
<1>14. CASE Check(t)
  BY <1>14, RowsMoved DEF Check, PC
<1> QED
  BY <1>1, <1>2, <1>3, <1>4, <1>5, <1>6, <1>7, <1>8, <1>9, <1>10, <1>11, <1>12,
     <1>13, <1>14, <1>15 DEF LoopStep

\* Aborting loops, or starting one, holds no new rows.
LEMMA RowsAborted ==
  ASSUME TypeOK, RowsInHand, NEW S, Abort(S),
         UNCHANGED <<mail, handed, read>>,
         \A a \in Agents : \/ inline'[a].batch = {}
                           \/ /\ inline'[a].batch = inline[a].batch
                              /\ inline'[a].pc = inline[a].pc
  PROVE  RowsInHand'
<1>1. ASSUME NEW t \in Tasks
      PROVE  /\ batch'[t] \subseteq mail
             /\ pc'[t] \in {"prompt", "mark"} => batch'[t] \subseteq handed
  <2>1. CASE t \in S
    BY <2>1 DEF Abort
  <2>2. CASE t \notin S
    BY <2>2 DEF Abort, RowsInHand
  <2> QED
    BY <2>1, <2>2
<1>2. ASSUME NEW a \in Agents
      PROVE  /\ inline'[a].batch \subseteq mail
             /\ inline'[a].pc = "prompt" => inline'[a].batch \subseteq handed
  BY <1>2 DEF RowsInHand
<1> QED
  BY <1>1, <1>2 DEF RowsInHand

\* A loop that starts holds none.
LEMMA RowsStarted ==
  ASSUME TypeOK, RowsInHand, NEW a \in Agents, NEW signalled, Spawn(a, signalled),
         UNCHANGED <<mail, inline, handed, read>>
  PROVE  RowsInHand'
<1>1. pc' = [pc EXCEPT ![<<a, Free(a)>>] = "wait"] /\ batch' = batch
  BY DEF Spawn
<1>2. \A t \in Tasks : pc'[t] \in {"prompt", "mark"} => pc[t] = pc'[t]
  BY <1>1 DEF TypeOK
<1> QED
  BY <1>1, <1>2 DEF RowsInHand

\* Writers, inline sends, user turns and additions keep the rows in hand.
LEMMA RowsAgents ==
  ASSUME TypeOK, RowsInHand, NEW a \in Agents,
         \/ UserWrite(a) \/ Decline(a) \/ DirectCheck(a) \/ DirectDropped(a) \/ Persist(a)
         \/ InlineStep(a) \/ DirectStep(a) \/ JoinStep(a)
         \/ RelayDone(a) \/ StreamCloses(a)
         \/ RemovePersist(a) \/ RemoveSlot(a)
  PROVE  RowsInHand'
<1>1. CASE UserWrite(a) \/ Decline(a) \/ SpawnAttach(a)
  BY <1>1, RowsKept DEF UserWrite, Decline, SpawnAttach, Write
<1>2. CASE \/ DirectCheck(a) \/ DirectDropped(a) \/ DirectStep(a) \/ RelayDone(a) \/ StreamCloses(a)
           \/ Persist(a) \/ AddAttach(a) \/ RemovePersist(a)
  BY <1>2, RowsKept DEF DirectCheck, DirectDropped, DirectStep, DirectStart, DirectEnds, DirectDone,
     RelayDone, StreamCloses, Persist, AddAttach, RemovePersist
<1>3. CASE InlinePeek(a)
  BY <1>3 DEF InlinePeek, NoInline, Unread, RowsInHand, TypeOK
<1>4. CASE InlineSend(a)
  BY <1>4 DEF InlineSend, Hand, RowsInHand, TypeOK
<1>5. CASE InlineEnds(a)
  BY <1>5 DEF InlineEnds, NoInline, RowsInHand, TypeOK
<1>6. CASE AddRegister(a)
  BY <1>6, RowsKept, RowsStarted DEF AddRegister
<1>7. CASE SpawnRegister(a)
  BY <1>7, RowsKept, RowsStarted DEF SpawnRegister
<1>8. CASE RemoveSlot(a)
  <2>1. CASE session = "up" /\ a \in live
    <3>1. Abort({<<a, reg[a]>>} \cap Tasks) /\ UNCHANGED <<mail, inline, handed, read>>
      BY <1>8, <2>1 DEF RemoveSlot
    <3> QED
      BY <3>1, RowsAborted
  <2>2. CASE ~(session = "up" /\ a \in live)
    BY <1>8, <2>2, RowsKept DEF RemoveSlot
  <2> QED
    BY <2>1, <2>2
<1> QED
  BY <1>1, <1>2, <1>3, <1>4, <1>5, <1>6, <1>7, <1>8 DEF InlineStep, JoinStep

\* So do the session's start, its stop and a crash.
LEMMA RowsSession ==
  ASSUME TypeOK, RowsInHand, EnsureStep \/ StopSession \/ Crash
  PROVE  RowsInHand'
<1>1. CASE EnsureBegin
  BY <1>1, RowsKept DEF EnsureBegin
<1>2. CASE EnsureReady
  <2>1. \A t \in Tasks : pc'[t] \in {"prompt", "mark"} => pc[t] = pc'[t]
    BY <1>2 DEF EnsureReady
  <2> QED
    BY <1>2, <2>1 DEF EnsureReady, RowsInHand
<1>3. CASE StopSession
  BY <1>3, RowsAborted DEF StopSession
<1>4. CASE Crash
  BY <1>4, RowsAborted DEF Crash, NoInline
<1> QED
  BY <1>1, <1>2, <1>3, <1>4 DEF EnsureStep

\* Every step keeps the rows in hand.
LEMMA RowsNext == TypeOK /\ RowsInHand /\ [Next]_vars => RowsInHand'
<1> SUFFICES ASSUME TypeOK, RowsInHand, [Next]_vars PROVE RowsInHand'
  OBVIOUS
<1>1. CASE Next
  <2>1. ASSUME NEW t \in Tasks, LoopStep(t) PROVE RowsInHand'
    BY <2>1, RowsLoop
  <2>2. ASSUME NEW s \in Agents, NEW a \in Agents, McpWrite(s, a) PROVE RowsInHand'
    BY <2>2, RowsKept DEF McpWrite, Write
  <2>3. ASSUME NEW m \in owed, Wake(m) PROVE RowsInHand'
    <3>1. m.to \in Agents
      BY DEF TypeOK, Row
    <3> QED
      BY <2>3, <3>1 DEF Wake, RowsInHand, TypeOK
  <2>4. ASSUME NEW a \in Agents,
               \/ UserWrite(a) \/ Decline(a) \/ DirectCheck(a) \/ DirectDropped(a) \/ Persist(a)
               \/ InlineStep(a) \/ DirectStep(a) \/ JoinStep(a)
               \/ RelayDone(a) \/ StreamCloses(a)
               \/ RemovePersist(a) \/ RemoveSlot(a)
        PROVE  RowsInHand'
    BY <2>4, RowsAgents
  <2>5. CASE EnsureStep \/ StopSession \/ Crash
    BY <2>5, RowsSession
  <2> QED
    BY <1>1, <2>1, <2>2, <2>3, <2>4, <2>5 DEF Next
<1>2. CASE UNCHANGED vars
  BY <1>2, RowsKept
<1> QED
  BY <1>1, <1>2

\* For every team and every mixture of faults, the loops and the inline
\* fallback mark read only rows a turn has carried.
THEOREM RowsStayInHand == Spec => []RowsInHand
<1>1. Spec => []TypeOK
  BY TypeCorrect
<1> QED
  BY <1>1, RowsInit, RowsNext, PTL DEF Spec

-----------------------------------------------------------------------------
(* The loops implement the abstract mailbox *)

\* The initial states are initial states of the mailbox.
LEMMA MailboxInit == Init => Mailbox!Init
BY DEF Init, Mailbox!Init

\* A write adds one row, or (which TypeOK does not exclude) none.
LEMMA MailboxWrite ==
  ASSUME TypeOK, NEW to \in Agents, NEW from \in Agents \cup {User},
         NEW via \in {"user", "mcp", "idle", "declined", "welcome"},
         Write(to, from, via), UNCHANGED handed
  PROVE  [Mailbox!Next]_Mailbox!vars
<1>1. NewRow(to, from, via) \in Row
  BY DEF NewRow, Row, TypeOK
<1> QED
  BY <1>1 DEF Write, Mailbox!Next, Mailbox!Write, Mailbox!vars

\* A step of a loop is a step of the mailbox, or none of it.
LEMMA MailboxLoop ==
  ASSUME TypeOK, RowsInHand, NEW t \in Tasks, LoopStep(t)
  PROVE  [Mailbox!Next]_Mailbox!vars
<1>0. t[1] \in Agents
  BY DEF Tasks
<1>1. CASE Send(t)
  <2>1. handed \subseteq handed' /\ handed' \subseteq mail /\ UNCHANGED <<mail, read>>
    BY <1>1 DEF Send, Hand, RowsInHand
  <2> QED
    BY <2>1 DEF Mailbox!Next, Mailbox!Hand
<1>2. CASE Mark(t)
  <2>1. read \subseteq read' /\ read' \subseteq handed /\ UNCHANGED <<mail, handed>>
    BY <1>2 DEF Mark, RowsInHand
  <2> QED
    BY <2>1 DEF Mailbox!Next, Mailbox!MarkRead
<1>3. CASE Note(t)
  BY <1>0, <1>3, MailboxWrite, TeamAssumption DEF Note
<1>4. CASE \/ TakePermit(t) \/ Exit(t) \/ Peek(t) \/ Park(t) \/ SkipBusy(t) \/ SkipWarmup(t) \/ Pass(t)
           \/ SetWorking(t) \/ ClaimRow(t) \/ TurnEnds(t) \/ MarkFails(t) \/ FinishRow(t) \/ SetError(t) \/ MarkIdle(t)
           \/ Check(t)
  <2>1. UNCHANGED <<mail, handed, read>>
    BY <1>4 DEF TakePermit, Exit, Peek, Park, SkipBusy, SkipWarmup, GiveUp, Pass,
       SetWorking, ClaimRow, TurnEnds, MarkFails, FinishRow, SetError, MarkIdle, Check
  <2> QED
    BY <2>1 DEF Mailbox!vars
<1> QED
  BY <1>1, <1>2, <1>3, <1>4 DEF LoopStep

\* So is a step of a writer, an inline send, a user turn or an addition.
LEMMA MailboxAgents ==
  ASSUME TypeOK, RowsInHand, NEW a \in Agents,
         \/ UserWrite(a) \/ Decline(a) \/ DirectCheck(a) \/ DirectDropped(a) \/ Persist(a)
         \/ InlineStep(a) \/ DirectStep(a) \/ JoinStep(a)
         \/ RelayDone(a) \/ StreamCloses(a)
         \/ RemovePersist(a) \/ RemoveSlot(a)
  PROVE  [Mailbox!Next]_Mailbox!vars
<1>1. CASE UserWrite(a) \/ Decline(a) \/ SpawnAttach(a)
  BY <1>1, MailboxWrite, TeamAssumption DEF UserWrite, Decline, SpawnAttach
<1>2. CASE InlineSend(a)
  <2>1. handed \subseteq handed' /\ handed' \subseteq mail /\ UNCHANGED <<mail, read>>
    BY <1>2 DEF InlineSend, Hand, RowsInHand
  <2> QED
    BY <2>1 DEF Mailbox!Next, Mailbox!Hand
<1>3. CASE InlineEnds(a)
  <2>1. read \subseteq read' /\ read' \subseteq handed /\ UNCHANGED <<mail, handed>>
    BY <1>3 DEF InlineEnds, RowsInHand
  <2> QED
    BY <2>1 DEF Mailbox!Next, Mailbox!MarkRead
<1>4. CASE \/ DirectCheck(a) \/ DirectDropped(a) \/ DirectStep(a) \/ RelayDone(a) \/ StreamCloses(a) \/ Persist(a)
           \/ InlinePeek(a) \/ AddAttach(a) \/ AddRegister(a) \/ SpawnRegister(a)
           \/ RemovePersist(a) \/ RemoveSlot(a)
  <2>1. UNCHANGED <<mail, handed, read>>
    BY <1>4 DEF DirectCheck, DirectDropped, DirectStep, DirectStart, DirectEnds, DirectDone, RelayDone,
       StreamCloses, Persist, InlinePeek, AddAttach, AddRegister, SpawnRegister,
       RemovePersist, RemoveSlot
  <2> QED
    BY <2>1 DEF Mailbox!vars
<1> QED
  BY <1>1, <1>2, <1>3, <1>4 DEF InlineStep, JoinStep

\* Every step is a step of the mailbox, or none of it.
LEMMA MailboxNext ==
  TypeOK /\ RowsInHand /\ [Next]_vars => [Mailbox!Next]_Mailbox!vars
<1> SUFFICES ASSUME TypeOK, RowsInHand, [Next]_vars PROVE [Mailbox!Next]_Mailbox!vars
  OBVIOUS
<1>1. ASSUME NEW s \in Agents, NEW a \in Agents, McpWrite(s, a)
      PROVE  [Mailbox!Next]_Mailbox!vars
  BY <1>1, MailboxWrite DEF McpWrite
<1>2. CASE EnsureStep \/ StopSession \/ Crash \/ (\E m \in owed : Wake(m)) \/ UNCHANGED vars
  <2>1. UNCHANGED <<mail, handed, read>>
    BY <1>2 DEF EnsureStep, EnsureBegin, EnsureReady, StopSession, Crash, Wake
  <2> QED
    BY <2>1 DEF Mailbox!vars
<1> QED
  BY <1>1, <1>2, MailboxLoop, MailboxAgents DEF Next

\* Whatever the loops, the sessions, the users and the faults do, no row is
\* lost, changed, or marked read before a turn has carried it.
THEOREM LoopsImplementMailbox == Spec => MailboxSpec
<1>1. Spec => []TypeOK /\ []RowsInHand
  BY TypeCorrect, RowsStayInHand
<1> QED
  BY <1>1, MailboxInit, MailboxNext, PTL DEF Spec, MailboxSpec, Mailbox!Spec

-----------------------------------------------------------------------------
(* Slots and their loops *)

\* Only a session that is up has slots, and only on one is a spawn begun.
SlotsInSession ==
  /\ session # "up" => live = {}
  /\ \A a \in Agents : joining[a] = "spawning" => session = "up"

LoopInv == SlotsInSession /\ LiveHasLoop

\* No loop, mail, inline or user turn touches a slot, its loop or its joining.
LEMMA OthersKeepSlots ==
  ASSUME \/ \E t \in Tasks : LoopStep(t)
         \/ \E m \in owed : Wake(m)
         \/ \E a \in Agents :
              \/ UserWrite(a) \/ Decline(a) \/ DirectCheck(a) \/ DirectDropped(a) \/ InlineStep(a) \/ DirectStep(a)
              \/ RelayDone(a) \/ StreamCloses(a) \/ RemovePersist(a)
              \/ \E s \in Agents : McpWrite(s, a)
         \/ UNCHANGED vars
  PROVE  UNCHANGED <<live, reg, joining, session>>
<1>1. ASSUME NEW t \in Tasks, LoopStep(t) PROVE UNCHANGED <<live, reg, joining, session>>
  BY <1>1 DEF LoopStep, TakePermit, Exit, Peek, Park, SkipBusy, SkipWarmup, GiveUp, Pass, SetWorking, ClaimRow, Send,
              TurnEnds, Mark, MarkFails, FinishRow, SetError, MarkIdle, Note, Check
<1>2. ASSUME NEW m \in owed, Wake(m) PROVE UNCHANGED <<live, reg, joining, session>>
  BY <1>2 DEF Wake
<1>3. ASSUME NEW a \in Agents,
             \/ UserWrite(a) \/ Decline(a) \/ DirectCheck(a) \/ DirectDropped(a) \/ InlineStep(a) \/ DirectStep(a)
             \/ RelayDone(a) \/ StreamCloses(a) \/ RemovePersist(a)
             \/ \E s \in Agents : McpWrite(s, a)
      PROVE  UNCHANGED <<live, reg, joining, session>>
  BY <1>3 DEF UserWrite, Decline, DirectCheck, DirectDropped, InlineStep, InlinePeek, InlineSend, InlineEnds,
              DirectStep, DirectStart, DirectEnds, DirectDone, RelayDone, StreamCloses,
              RemovePersist, McpWrite
<1>. QED BY <1>1, <1>2, <1>3

\* EventLoopRegistry::spawn gives the slot a loop and leaves the others theirs.
LEMMA SpawnRegisters ==
  ASSUME TypeOK, NEW a \in Agents, NEW signalled, Spawn(a, signalled)
  PROVE  /\ reg'[a] # 0
         /\ \A b \in Agents \ {a} : reg'[b] = reg[b]
<1>1. Free(a) \in Loops
  BY FreeLoop DEF Spawn
<1>. QED BY <1>1 DEF Spawn, Loops, TypeOK

\* Additions and removals keep a loop for every slot.
LEMMA LoopMembers ==
  ASSUME TypeOK, LoopInv, NEW a \in Agents, Persist(a) \/ JoinStep(a) \/ RemoveSlot(a)
  PROVE  LoopInv'
<1>. USE DEF LoopInv, SlotsInSession, LiveHasLoop, TypeOK
<1>1. CASE Persist(a)
  BY <1>1 DEF Persist
<1>2. CASE AddAttach(a)
  BY <1>2 DEF AddAttach, SlotFor
<1>3. CASE SpawnAttach(a)
  BY <1>3 DEF SpawnAttach, SlotFor
<1>4. CASE AddRegister(a) \/ SpawnRegister(a)
  <2>1. /\ joining' = [joining EXCEPT ![a] = "done"]
        /\ UNCHANGED <<live, session>>
    BY <1>4 DEF AddRegister, SpawnRegister
  <2>2. CASE session = "up"
    <3>1. \E signalled : Spawn(a, signalled)
      BY <1>4, <2>2 DEF AddRegister, SpawnRegister
    <3>. QED BY <2>1, <2>2, <3>1, SpawnRegisters
  <2>3. CASE session # "up"
    BY <2>1, <2>3
  <2>. QED BY <2>2, <2>3
<1>5. CASE RemoveSlot(a)
  <2>1. CASE session = "up" /\ a \in live
    BY <1>5, <2>1 DEF RemoveSlot
  <2>2. CASE ~(session = "up" /\ a \in live)
    BY <1>5, <2>2 DEF RemoveSlot
  <2>. QED BY <2>1, <2>2
<1>. QED BY <1>1, <1>2, <1>3, <1>4, <1>5 DEF JoinStep

\* The session's start, its stop and a crash keep a loop for every slot.
LEMMA LoopSession ==
  ASSUME TypeOK, LoopInv, EnsureStep \/ StopSession \/ Crash
  PROVE  LoopInv'
<1>. USE DEF LoopInv, SlotsInSession, LiveHasLoop, TypeOK
<1>1. CASE EnsureBegin
  BY <1>1 DEF EnsureBegin
<1>2. CASE EnsureReady
  <2>1. \A a \in snapshot : Free(a) \in Loops
    BY <1>2, FreeLoop DEF EnsureReady
  <2>2. \A a \in live' : reg'[a] # 0
    BY <1>2, <2>1 DEF EnsureReady, Loops
  <2>3. session' = "up"
    BY <1>2 DEF EnsureReady
  <2>. QED BY <2>2, <2>3
<1>3. CASE StopSession
  BY <1>3 DEF StopSession, NoSession
<1>4. CASE Crash
  BY <1>4 DEF Crash, NoSession
<1>. QED BY <1>1, <1>2, <1>3, <1>4 DEF EnsureStep

\* Every step keeps a loop for every slot.
LEMMA LoopNext == TypeOK /\ LoopInv /\ [Next]_vars => LoopInv'
<1>. SUFFICES ASSUME TypeOK, LoopInv, [Next]_vars PROVE LoopInv'
  OBVIOUS
<1>1. CASE UNCHANGED <<live, reg, joining, session>>
  BY <1>1 DEF LoopInv, SlotsInSession, LiveHasLoop
<1>. QED BY <1>1, OthersKeepSlots, LoopMembers, LoopSession DEF Next

\* Whatever members come and go and sessions stop and start, no slot of the
\* scheduler is left without an event loop, but on the way to its own.
THEOREM LiveSlotsHaveLoops == Spec => []LiveHasLoop
<1>1. Init => LoopInv
  BY DEF Init, LoopInv, SlotsInSession, LiveHasLoop
<1>2. LoopInv => LiveHasLoop
  BY DEF LoopInv
<1>. QED BY <1>1, <1>2, TypeCorrect, LoopNext, PTL DEF Spec

-----------------------------------------------------------------------------
(* The conversation rows *)

\* A step of a loop, as the others see it.
LEMMA LoopMoves ==
  ASSUME NEW t \in Tasks, LoopStep(t), TypeOK
  PROVE  /\ UNCHANGED <<live, reg, joining, session, owed, stale, inline, leaving>>
         /\ doomed' \subseteq doomed /\ pc[t] # "dead"
         /\ \A u \in Tasks \ {t} : pc'[u] = pc[u] /\ batch'[u] = batch[u]
         /\ mail \subseteq mail' /\ nextId <= nextId'
<1>1. t[1] \in Agents
  BY DEF Tasks
<1>2. CASE TakePermit(t) \/ Exit(t) \/ Park(t) \/ Pass(t) \/ SetWorking(t) \/ ClaimRow(t) \/ Send(t) \/ TurnEnds(t)
  BY <1>2 DEF TakePermit, Exit, Park, Pass, SetWorking, ClaimRow, Send, TurnEnds, TypeOK
<1>3. CASE Peek(t) \/ SkipBusy(t) \/ SkipWarmup(t)
  BY <1>3 DEF Peek, SkipBusy, SkipWarmup, GiveUp, TypeOK
<1>4. CASE Mark(t) \/ MarkFails(t) \/ FinishRow(t) \/ SetError(t) \/ MarkIdle(t)
  BY <1>4 DEF Mark, MarkFails, FinishRow, SetError, MarkIdle, TypeOK
<1>5. CASE Note(t) \/ Check(t)
  BY <1>5 DEF Note, Write, Check, TypeOK
<1>. QED BY <1>2, <1>3, <1>4, <1>5 DEF LoopStep

\* What RunningIsReleased says of one row.
Releases(a) ==
  \/ direct[a] \in {"running", "ended"}
  \/ waiting[a] + ended[a] > 0
  \/ \E g \in Loops : pc[<<a, g>>] = "relay"
  \/ a \in stranded

\* What leaves the turns alone, and every loop that has claimed a row where it
\* is, leaves the row its release.
LEMMA ReleaseStays ==
  ASSUME NEW a \in Agents, conv[a] = "running" => Releases(a), conv'[a] = "running",
         UNCHANGED <<conv, waiting, ended, direct>>, stranded \subseteq stranded',
         \A g \in Loops : pc[<<a, g>>] = "relay" => pc'[<<a, g>>] = "relay" \/ a \in stranded'
  PROVE  Releases(a)'
BY DEF Releases

\* An abort strands the rows of the loops that have claimed one.
LEMMA ReleaseAborted ==
  ASSUME NEW a \in Agents, NEW S \in SUBSET Tasks, Abort(S),
         stranded' = stranded \cup Strands(S),
         conv[a] = "running" => Releases(a), conv'[a] = "running",
         UNCHANGED <<conv, waiting, ended, direct>>
  PROVE  Releases(a)'
<1>1. ASSUME NEW g \in Loops, pc[<<a, g>>] = "relay"
      PROVE  pc'[<<a, g>>] = "relay" \/ a \in stranded'
  <2>1. <<a, g>> \in Tasks
    BY DEF Tasks
  <2>2. CASE <<a, g>> \in S
    BY <1>1, <2>1, <2>2 DEF Strands
  <2>3. CASE <<a, g>> \notin S
    BY <1>1, <2>1, <2>3 DEF Abort
  <2>. QED BY <2>2, <2>3
<1>. QED BY <1>1, ReleaseStays

\* A step of a loop claims a row, hands it to a relay, or finishes it.
LEMMA ReleaseLoop ==
  ASSUME TypeOK, NEW t \in Tasks, LoopStep(t), NEW a \in Agents,
         conv[a] = "running" => Releases(a), conv'[a] = "running"
  PROVE  Releases(a)'
<1>0. t = <<t[1], t[2]>> /\ t[1] \in Agents /\ t[2] \in Loops
  BY DEF Tasks
<1>1. CASE ClaimRow(t)
  <2>1. /\ pc' = [pc EXCEPT ![t] = "relay"] /\ conv' = [conv EXCEPT ![t[1]] = "running"]
        /\ UNCHANGED <<waiting, ended, direct, stranded>>
    BY <1>1 DEF ClaimRow
  <2>2. pc'[t] = "relay" /\ \A u \in Tasks \ {t} : pc'[u] = pc[u]
    BY <2>1 DEF TypeOK
  <2>3. CASE t[1] = a
    BY <1>0, <2>2, <2>3 DEF Releases
  <2>4. CASE t[1] # a
    <3>1. Releases(a)
      BY <2>1, <2>4 DEF TypeOK
    <3>2. \A g \in Loops : pc'[<<a, g>>] = pc[<<a, g>>]
      BY <1>0, <2>2, <2>4 DEF Tasks
    <3>. QED BY <2>1, <3>1, <3>2 DEF Releases
  <2>. QED BY <2>3, <2>4
<1>2. CASE Send(t)
  <2>1. /\ pc' = [pc EXCEPT ![t] = "prompt"] /\ waiting' = [waiting EXCEPT ![t[1]] = @ + 1]
        /\ UNCHANGED <<conv, ended, direct, stranded>>
    BY <1>2 DEF Send
  <2>2. CASE t[1] = a
    <3>1. waiting'[a] = waiting[a] + 1 /\ ended'[a] = ended[a]
          /\ waiting[a] \in Nat /\ ended[a] \in Nat
      BY <2>1, <2>2 DEF TypeOK
    <3>. QED BY <3>1 DEF Releases
  <2>3. CASE t[1] # a
    <3>1. waiting'[a] = waiting[a]
      BY <2>1, <2>3 DEF TypeOK
    <3>2. \A g \in Loops : pc'[<<a, g>>] = pc[<<a, g>>]
      BY <1>0, <2>1, <2>3 DEF Tasks, TypeOK
    <3>. QED BY <2>1, <3>1, <3>2 DEF Releases
  <2>. QED BY <2>2, <2>3
<1>3. CASE TurnEnds(t)
  <2>1. /\ UNCHANGED <<conv, direct, stranded>> /\ (Hear(t[1]) \/ UNCHANGED <<waiting, ended>>)
        /\ pc[t] = "prompt" /\ pc' = [pc EXCEPT ![t] = "mark"]
    BY <1>3 DEF TurnEnds
  <2>2. \A g \in Loops : pc[<<a, g>>] = "relay" => pc'[<<a, g>>] = "relay"
    BY <2>1 DEF Tasks, TypeOK
  <2>3. waiting'[a] + ended'[a] = waiting[a] + ended[a]
    BY <1>0, <2>1 DEF Hear, TypeOK
  <2>. QED BY <2>1, <2>2, <2>3 DEF Releases
<1>4. CASE FinishRow(t)
  <2>1. /\ conv' = [conv EXCEPT ![t[1]] = "finished"] /\ stranded' = stranded \ {t[1]}
        /\ UNCHANGED <<waiting, ended, direct>>
        /\ pc[t] = "finish" /\ \A u \in Tasks \ {t} : pc'[u] = pc[u]
    BY <1>4 DEF FinishRow, Release, TypeOK
  <2>2. t[1] # a /\ conv'[a] = conv[a]
    BY <2>1 DEF TypeOK
  <2>3. \A g \in Loops : pc[<<a, g>>] = "relay" => pc'[<<a, g>>] = "relay"
    BY <2>1 DEF Tasks
  <2>. QED BY <2>1, <2>2, <2>3 DEF Releases
<1>5. CASE ~ClaimRow(t) /\ ~Send(t) /\ ~TurnEnds(t) /\ ~FinishRow(t)
  <2>1. UNCHANGED turnVars /\ pc[t] # "relay"
    BY <1>5 DEF LoopStep, TakePermit, Exit, Peek, Park, SkipBusy, SkipWarmup, GiveUp,
                      Pass, SetWorking, Mark, MarkFails, SetError, MarkIdle, Note, Check
  <2>2. \A g \in Loops : pc[<<a, g>>] = "relay" => pc'[<<a, g>>] = "relay"
    BY <2>1, LoopMoves DEF Tasks
  <2>. QED BY <2>1, <2>2, ReleaseStays
<1>. QED BY <1>1, <1>2, <1>3, <1>4, <1>5

\* User turns and relays take the last release away only where they write
\* finished.
LEMMA ReleaseTurns ==
  ASSUME TypeOK, NEW b \in Agents,
         \/ DirectCheck(b) \/ DirectDropped(b) \/ DirectStep(b)
         \/ RelayDone(b) \/ StreamCloses(b),
         NEW a \in Agents, conv[a] = "running" => Releases(a), conv'[a] = "running"
  PROVE  Releases(a)'
<1>1. UNCHANGED pc
  BY DEF DirectCheck, DirectDropped, DirectStep, DirectStart, DirectEnds, DirectDone, RelayDone,
         StreamCloses
<1>2. CASE DirectCheck(b) \/ DirectDropped(b) \/ DirectStart(b)
  BY <1>1, <1>2 DEF DirectCheck, DirectDropped, DirectStart, Releases, TypeOK
<1>3. CASE DirectEnds(b) \/ StreamCloses(b)
  <2>1. /\ UNCHANGED <<conv, stranded>> /\ Hear(b)
        /\ direct' = direct \/ direct' = [direct EXCEPT ![b] = "ended"]
    BY <1>3 DEF DirectEnds, StreamCloses
  <2>2. waiting'[a] + ended'[a] = waiting[a] + ended[a]
    BY <2>1 DEF Hear, TypeOK
  <2>3. direct[a] \in {"running", "ended"} => direct'[a] \in {"running", "ended"}
    BY <2>1 DEF TypeOK
  <2>. QED BY <1>1, <2>1, <2>2, <2>3 DEF Releases
<1>4. CASE DirectDone(b) \/ RelayDone(b)
  BY <1>1, <1>4 DEF DirectDone, RelayDone, Release, Releases, TypeOK
<1>. QED BY <1>2, <1>3, <1>4 DEF DirectStep

\* Every step leaves a running row its release.
LEMMA ReleaseKept ==
  ASSUME TypeOK, [Next]_vars, NEW a \in Agents,
         conv[a] = "running" => Releases(a), conv'[a] = "running"
  PROVE  Releases(a)'
<1>1. ASSUME NEW b \in Agents, RemoveSlot(b) PROVE Releases(a)'
  <2>1. CASE session = "up" /\ b \in live
    BY <1>1, <2>1, ReleaseAborted DEF RemoveSlot
  <2>2. CASE ~(session = "up" /\ b \in live)
    BY <1>1, <2>2, ReleaseStays DEF RemoveSlot
  <2>. QED BY <2>1, <2>2
<1>2. CASE StopSession
  BY <1>2, ReleaseAborted DEF StopSession
<1>3. CASE Crash
  BY <1>3 DEF Crash, Releases
<1>4. ASSUME NEW b \in Agents, AddRegister(b) \/ SpawnRegister(b) PROVE Releases(a)'
  <2>1. UNCHANGED turnVars /\ (UNCHANGED pc \/ \E signalled : Spawn(b, signalled))
    BY <1>4 DEF AddRegister, SpawnRegister
  <2>2. ASSUME NEW signalled, Spawn(b, signalled), NEW g \in Loops, pc[<<a, g>>] = "relay"
        PROVE  pc'[<<a, g>>] = "relay"
    <3>1. <<a, g>> # <<b, Free(b)>>
      BY <2>2, FreeLoop DEF Spawn, Running
    <3>. QED BY <2>2, <3>1 DEF Spawn, Tasks, TypeOK
  <2>. QED BY <2>1, <2>2, ReleaseStays
<1>5. CASE EnsureReady
  <2>1. ASSUME NEW g \in Loops, pc[<<a, g>>] = "relay" PROVE pc'[<<a, g>>] = "relay"
    <3>1. CASE a \in snapshot
      <4>1. Free(a) # g
        BY <1>5, <2>1, <3>1, FreeLoop DEF EnsureReady, Running
      <4>. QED BY <1>5, <2>1, <4>1 DEF EnsureReady, Tasks
    <3>2. CASE a \notin snapshot
      BY <1>5, <2>1, <3>2 DEF EnsureReady, Tasks
    <3>. QED BY <3>1, <3>2
  <2>. QED BY <1>5, <2>1, ReleaseStays DEF EnsureReady
<1>6. ASSUME NEW b \in Agents,
             \/ UserWrite(b) \/ Decline(b) \/ Persist(b) \/ InlineStep(b)
             \/ AddAttach(b) \/ SpawnAttach(b) \/ RemovePersist(b)
             \/ \E s \in Agents : McpWrite(s, b)
      PROVE  UNCHANGED <<turnVars, pc>>
  BY <1>6 DEF UserWrite, Decline, Persist, InlineStep, InlinePeek, InlineSend, InlineEnds,
              AddAttach, SpawnAttach, RemovePersist, McpWrite
<1>7. ASSUME (\E m \in owed : Wake(m)) \/ EnsureBegin \/ UNCHANGED vars
      PROVE  UNCHANGED <<turnVars, pc>>
  BY <1>7 DEF Wake, EnsureBegin
<1>8. CASE UNCHANGED <<turnVars, pc>>
  BY <1>8, ReleaseStays
<1>. QED BY <1>1, <1>2, <1>3, <1>4, <1>5, <1>6, <1>7, <1>8, ReleaseLoop, ReleaseTurns
         DEF Next, JoinStep, EnsureStep

\* Whatever is stopped, removed or fails, a running conversation row has a turn
\* or a relay that will finish it, but for the rows an abort, a dropped request
\* or a crash strands on the await of the claim itself.
THEOREM RunningRowsAreReleased == Spec => []RunningIsReleased
<1>1. Init => RunningIsReleased
  BY DEF Init, RunningIsReleased
<1>2. TypeOK /\ RunningIsReleased /\ [Next]_vars => RunningIsReleased'
  <2>. SUFFICES ASSUME TypeOK, RunningIsReleased, [Next]_vars, NEW a \in Agents, conv'[a] = "running"
                PROVE  Releases(a)'
    BY DEF RunningIsReleased, Releases
  <2>1. conv[a] = "running" => Releases(a)
    BY DEF RunningIsReleased, Releases
  <2>. QED BY <2>1, ReleaseKept
<1>. QED BY <1>1, <1>2, TypeCorrect, PTL DEF Spec

-----------------------------------------------------------------------------
(* As long as no slot is added or spawned *)

Fixed == Added = {} /\ Spawned = {}

\* A slot of the scheduler has one loop and other slots have none; nothing
\* is detached.
OneLoop ==
  /\ \A a \in Agents : joining[a] = "no"
  /\ doomed = {}
  /\ session # "up" => live = {}
  /\ \A a \in Agents : a \in live <=> reg[a] # 0
  /\ \A t \in Tasks : pc[t] # "dead" => reg[t[1]] = t[2]

\* An inline send on the session there is means that its slot was removed.
InlineApart ==
  /\ session # "up" => owed \subseteq stale
  /\ \A a \in Agents : inline[a].pc # "no" /\ ~inline[a].old => session = "up" /\ a \notin live

\* The writers in flight know rows that are older than the next.
OldRows == \A m \in owed \cup stale : m.id < nextId

\* The loop of slot a is on its way to read its mail again.
Awake == PC \ {"dead", "wait", "park"}

Comes(a) == reg[a] # 0 /\ (permit[<<a, reg[a]>>] \/ pc[<<a, reg[a]>>] \in Awake)

\* Rows whose writer will signal the loop of the session there is.
Signalled(m) == (m \in owed /\ m \notin stale) \/ m.via \in {"idle", "declined"}

ServedAt(a) == Comes(a) \/ \A m \in Unread(a) : Signalled(m)

Served == \A a \in live \ skipped : ServedAt(a)

Settling == {"idle", "note", "check"}

\* The idle notification has been read, or somebody is yet to settle or has
\* settled and is on the way to signal the leader, or the leader is at work.
Pending ==
  \/ ~\E m \in Unread(Lead) : m.via = "idle"
  \/ status[Lead] # "idle" \/ ~AllSettled
  \/ \E t \in Tasks : pc[t] \in Settling

\* The leader is signalled, or will be when the last teammate settles.
Awaited ==
  Lead \in live \ skipped => Comes(Lead) \/ Pending

\* Where a row is that a turn has carried, and whose turn was not cut off.
Carried ==
  /\ \A t \in Tasks : \A m \in batch[t] :
       /\ m.to = t[1] /\ pc[t] \in {"guard", "claim", "row", "relay", "prompt", "mark"}
       /\ pc[t] \in {"guard", "claim", "row", "relay"} => m \notin handed \/ m \in excused
  /\ \A m \in handed : m \in read \/ m \in excused
                       \/ \E t \in Tasks : m \in batch[t] /\ pc[t] \in {"prompt", "mark"}

-----------------------------------------------------------------------------
(* What steps there are *)

\* Steps that neither the loops nor the slots nor the mail notice.
Aside(a) == DirectCheck(a) \/ DirectDropped(a) \/ DirectStep(a) \/ RelayDone(a) \/ StreamCloses(a) \/ RemovePersist(a)

\* User turns, relays and the row of a removal move nothing of mail and loops.
LEMMA AsideMoves ==
  ASSUME NEW a \in Agents, Aside(a)
  PROVE  UNCHANGED <<mailVars, joining, slotVars, loopVars, wakeVars, history, session, snapshot,
                     skipped>>
BY DEF Aside, DirectCheck, DirectDropped, DirectStep, DirectStart, DirectEnds, DirectDone, RelayDone,
       StreamCloses, RemovePersist

\* Somebody writes a row and will signal its agent, or the row is a refusal.
MailStep(a) == UserWrite(a) \/ Decline(a) \/ \E s \in Agents : McpWrite(s, a)

\* A writer adds one row under the next number, and owes its signal but for a refusal.
LEMMA MailMoves ==
  ASSUME TypeOK, NEW a \in Agents, MailStep(a)
  PROVE  \E m \in Row :
           /\ mail' = mail \cup {m} /\ m.id = nextId /\ nextId' = nextId + 1
           /\ m.via # "idle"
           /\ owed' = owed \cup {m} \/ (owed' = owed /\ m.via = "declined")
           /\ UNCHANGED <<read, teamVars, slotVars, loopVars, stale, inline, history, session,
                          snapshot, skipped>>
           /\ session = "up"
<1>. USE DEF NewRow, Row, Write, TypeOK
<1>1. CASE UserWrite(a)
  <2>1. NewRow(a, User, "user") \in Row
    OBVIOUS
  <2>. QED BY <1>1, <2>1 DEF UserWrite
<1>2. CASE Decline(a)
  <2>1. NewRow(Lead, a, "declined") \in Row
    BY TeamAssumption
  <2>. QED BY <1>2, <2>1 DEF Decline
<1>3. ASSUME NEW s \in Agents, McpWrite(s, a)
      PROVE  \E m \in Row :
           /\ mail' = mail \cup {m} /\ m.id = nextId /\ nextId' = nextId + 1
           /\ m.via # "idle"
           /\ owed' = owed \cup {m} \/ (owed' = owed /\ m.via = "declined")
           /\ UNCHANGED <<read, teamVars, slotVars, loopVars, stale, inline, history, session,
                          snapshot, skipped>>
           /\ session = "up"
  <2>1. NewRow(a, s, "mcp") \in Row
    OBVIOUS
  <2>. QED BY <1>3, <2>1 DEF McpWrite
<1>. QED BY <1>1, <1>2, <1>3 DEF MailStep

\* Without slots to add or spawn, nobody joins.
LEMMA FixedSteps ==
  ASSUME Fixed, OneLoop, [Next]_vars
  PROVE  \/ \E t \in Tasks : LoopStep(t)
         \/ \E a \in Agents : MailStep(a) \/ InlineStep(a) \/ Aside(a) \/ RemoveSlot(a)
         \/ \E m \in owed : Wake(m)
         \/ EnsureBegin \/ EnsureReady \/ StopSession \/ Crash \/ UNCHANGED vars
<1>1. ASSUME NEW a \in Agents, Persist(a) \/ JoinStep(a) PROVE FALSE
  BY <1>1 DEF Fixed, OneLoop, Persist, JoinStep, AddAttach, AddRegister, SpawnAttach,
              SpawnRegister
<1>. QED BY <1>1 DEF Next, MailStep, Aside, EnsureStep

\* What the removal of a slot of the session there is changes.
LEMMA RemoveMoves ==
  ASSUME TypeOK, NEW a \in Agents, RemoveSlot(a), a \in live, session = "up"
  PROVE  /\ live' = live \ {a} /\ reg' = [reg EXCEPT ![a] = 0]
         /\ status' = [status EXCEPT ![a] = "idle"]
         /\ Abort({<<a, reg[a]>>} \cap Tasks)
         /\ excused' = excused \cup CutOff({<<a, reg[a]>>} \cap Tasks)
         /\ UNCHANGED <<mailVars, joining, doomed, wakeVars, handed, repeated, session, skipped>>
BY DEF RemoveSlot

\* Any other removal changes nothing of mail and loops.
LEMMA RemoveNothing ==
  ASSUME NEW a \in Agents, RemoveSlot(a), ~(a \in live /\ session = "up")
  PROVE  UNCHANGED <<mailVars, joining, slotVars, loopVars, wakeVars, history, session, skipped>>
BY DEF RemoveSlot

-----------------------------------------------------------------------------
(* One loop for a slot *)

\* At the start each slot has its one loop.
LEMMA OneLoopInit == Init => OneLoop
BY DEF Init, OneLoop

\* Every step keeps it so while no slot joins.
LEMMA OneLoopNext ==
  ASSUME Fixed, TypeOK, OneLoop, [Next]_vars
  PROVE  OneLoop'
<1>. USE DEF OneLoop
<1>1. ASSUME NEW t \in Tasks, LoopStep(t) PROVE OneLoop'
  BY <1>1, LoopMoves
<1>2. ASSUME NEW a \in Agents, MailStep(a) PROVE OneLoop'
  BY <1>2, MailMoves
<1>3. ASSUME NEW a \in Agents, InlineStep(a) \/ Aside(a) PROVE OneLoop'
  <2>1. UNCHANGED <<joining, live, reg, pc, doomed, session>>
    BY <1>3, AsideMoves DEF InlineStep, InlinePeek, InlineSend, InlineEnds
  <2>. QED BY <2>1
<1>4. ASSUME NEW a \in Agents, RemoveSlot(a) PROVE OneLoop'
  <2>1. CASE a \in live /\ session = "up"
    <3>1. /\ live' = live \ {a} /\ reg' = [reg EXCEPT ![a] = 0]
          /\ Abort({<<a, reg[a]>>} \cap Tasks) /\ UNCHANGED <<joining, doomed, session>>
      BY <1>4, <2>1, RemoveMoves
    <3>2. ASSUME NEW t \in Tasks, pc'[t] # "dead" PROVE reg'[t[1]] = t[2]
      <4>1. t \notin {<<a, reg[a]>>} /\ pc[t] # "dead" /\ t[1] \in Agents /\ t = <<t[1], t[2]>>
        BY <3>1, <3>2 DEF Abort, Tasks
      <4>2. reg[t[1]] = t[2] /\ t[1] # a
        BY <4>1
      <4>. QED BY <3>1, <4>1, <4>2 DEF TypeOK
    <3>3. \A b \in Agents : b \in live' <=> reg'[b] # 0
      BY <3>1 DEF TypeOK
    <3>. QED BY <2>1, <3>1, <3>2, <3>3
  <2>2. CASE ~(a \in live /\ session = "up")
    <3>1. UNCHANGED <<joining, live, reg, pc, doomed, session>>
      BY <1>4, <2>2, RemoveNothing
    <3>. QED BY <3>1
  <2>. QED BY <2>1, <2>2
<1>5. ASSUME NEW m \in owed, Wake(m) PROVE OneLoop'
  BY <1>5 DEF Wake
<1>6. CASE EnsureBegin
  BY <1>6 DEF EnsureBegin
<1>7. CASE EnsureReady
  <2>1. \A t \in Tasks : pc[t] = "dead"
    BY <1>7 DEF EnsureReady, Tasks, Loops
  <2>2. \A a \in snapshot : Free(a) \in Loops
    BY <1>7, FreeLoop DEF EnsureReady, TypeOK
  <2>3. \A t \in Tasks : pc'[t] # "dead" => reg'[t[1]] = t[2]
    BY <1>7, <2>1 DEF EnsureReady, Tasks
  <2>4. \A a \in Agents : a \in live' <=> reg'[a] # 0
    BY <1>7, <2>2 DEF EnsureReady, Loops
  <2>. QED BY <1>7, <2>3, <2>4 DEF EnsureReady
<1>8. CASE StopSession
  <2>1. \A t \in Tasks : pc[t] # "dead" => t[2] = reg[t[1]]
    OBVIOUS
  <2>2. /\ \A t \in Tasks : pc'[t] = "dead"
        /\ doomed' = {}
    BY <1>8, <2>1 DEF StopSession, Abort, TypeOK
  <2>. QED BY <1>8, <2>2 DEF StopSession, NoSession
<1>9. CASE Crash
  BY <1>9 DEF Crash, NoSession, Abort
<1>10. CASE UNCHANGED vars
  BY <1>10
<1>. QED BY <1>1, <1>2, <1>3, <1>4, <1>5, <1>6, <1>7, <1>8, <1>9, <1>10, FixedSteps

-----------------------------------------------------------------------------
(* The inline sends and the writers' rows *)

\* Every step keeps the inline sends of the session there is to slots that are gone.
LEMMA InlineApartNext ==
  ASSUME Fixed, TypeOK, OneLoop, InlineApart, [Next]_vars
  PROVE  InlineApart'
<1>. USE DEF InlineApart
<1>1. CASE UNCHANGED <<session, owed, stale, inline, live>>
  BY <1>1
<1>2. ASSUME NEW a \in Agents, MailStep(a) PROVE InlineApart'
  BY <1>2, MailMoves
<1>3. ASSUME NEW a \in Agents, InlineStep(a) PROVE InlineApart'
  <2>1. UNCHANGED <<session, owed, stale, live>>
    BY <1>3 DEF InlineStep, InlinePeek, InlineSend, InlineEnds
  <2>2. \A b \in Agents \ {a} : inline'[b] = inline[b]
    BY <1>3 DEF InlineStep, InlinePeek, InlineSend, InlineEnds, TypeOK
  <2>3. inline[a].pc # "no" /\ (inline'[a].pc # "no" => inline'[a].old = inline[a].old)
    BY <1>3 DEF InlineStep, InlinePeek, InlineSend, InlineEnds, NoInline, TypeOK
  <2>. QED BY <2>1, <2>2, <2>3
<1>4. ASSUME NEW a \in Agents, RemoveSlot(a) PROVE InlineApart'
  BY <1>4, RemoveMoves, RemoveNothing
<1>5. ASSUME NEW m \in owed, Wake(m) PROVE InlineApart'
  <2>1. m.to \in Agents
    BY DEF TypeOK, Row
  <2>2. CASE m \in stale
    BY <1>5, <2>1, <2>2 DEF Wake, TypeOK
  <2>3. CASE m \notin stale
    BY <1>5, <2>1, <2>3 DEF Wake, TypeOK, OneLoop
  <2>. QED BY <2>2, <2>3
<1>6. CASE EnsureReady
  BY <1>6 DEF EnsureReady
<1>7. CASE StopSession
  BY <1>7 DEF StopSession
<1>8. CASE Crash
  BY <1>8 DEF Crash, NoInline
<1>9. CASE EnsureBegin
  BY <1>9 DEF EnsureBegin
<1>. QED BY <1>1, <1>2, <1>3, <1>4, <1>5, <1>6, <1>7, <1>8, <1>9, FixedSteps, LoopMoves, AsideMoves

\* The rows that writers in flight know stay older than the next.
LEMMA OldRowsNext ==
  ASSUME Fixed, TypeOK, OneLoop, OldRows, [Next]_vars
  PROVE  OldRows'
<1>. USE DEF OldRows
<1>0. nextId \in Nat /\ \A m \in owed \cup stale : m.id \in Nat
  BY DEF TypeOK, Row
<1>1. ASSUME NEW t \in Tasks, LoopStep(t) PROVE OldRows'
  <2>1. nextId' \in Nat
    BY TypeNext DEF TypeOK
  <2>. QED BY <1>0, <1>1, <2>1, LoopMoves
<1>2. ASSUME NEW a \in Agents, MailStep(a) PROVE OldRows'
  BY <1>0, <1>2, MailMoves
<1>3. CASE nextId' = nextId /\ owed' \cup stale' \subseteq owed \cup stale
  BY <1>3
<1>4. ASSUME NEW a \in Agents, InlineStep(a) PROVE OldRows'
  BY <1>4 DEF InlineStep, InlinePeek, InlineSend, InlineEnds
<1>5. ASSUME NEW a \in Agents, RemoveSlot(a) PROVE OldRows'
  BY <1>5 DEF RemoveSlot
<1>6. ASSUME NEW m \in owed, Wake(m) PROVE OldRows'
  BY <1>6 DEF Wake
<1>7. CASE EnsureBegin \/ EnsureReady \/ StopSession \/ Crash
  BY <1>7 DEF EnsureBegin, EnsureReady, StopSession, Crash
<1>. QED BY <1>1, <1>2, <1>3, <1>4, <1>5, <1>6, <1>7, FixedSteps, AsideMoves

-----------------------------------------------------------------------------
(* No lost wake-up *)

\* A loop reads rows, and writes none but the notice of idleness.
LEMMA LoopMail ==
  ASSUME TypeOK, NEW t \in Tasks, LoopStep(t)
  PROVE  /\ read \subseteq read'
         /\ \A m \in mail' : m \in mail \/ m.via = "idle"
         /\ \A u \in Tasks \ {t} : permit[u] => permit'[u]
         /\ skipped \subseteq skipped' \cup {t[1]}
<1>1. CASE TakePermit(t) \/ Exit(t) \/ Park(t) \/ Pass(t) \/ SetWorking(t) \/ ClaimRow(t) \/ Send(t) \/ TurnEnds(t)
  BY <1>1 DEF TakePermit, Exit, Park, Pass, SetWorking, ClaimRow, Send, TurnEnds, TypeOK
<1>2. CASE Peek(t) \/ SkipBusy(t) \/ SkipWarmup(t)
  BY <1>2 DEF Peek, SkipBusy, SkipWarmup, GiveUp
<1>3. CASE Mark(t) \/ MarkFails(t) \/ FinishRow(t) \/ SetError(t) \/ MarkIdle(t)
  BY <1>3 DEF Mark, MarkFails, FinishRow, SetError, MarkIdle
<1>4. CASE Note(t)
  BY <1>4 DEF Note, Write, NewRow
<1>5. CASE Check(t)
  BY <1>5 DEF Check, Notified, TypeOK
<1>. QED BY <1>1, <1>2, <1>3, <1>4, <1>5 DEF LoopStep

\* Where the loop of a slot is after its step: on its way, or with nothing
\* unread, or where it was without a permit, or its batch given up.
LEMMA LoopLeaves ==
  ASSUME TypeOK, OneLoop, NEW t \in Tasks, LoopStep(t)
  PROVE  \/ pc'[t] \in Awake
         \/ Unread(t[1])' = {} /\ pc[t] = "peek"
         \/ UNCHANGED <<mailVars, permit, skipped>> /\ pc[t] = "park"
         \/ t[1] \in skipped'
         \/ t[1] \notin live
<1>. USE DEF Awake, PC
<1>1. CASE TakePermit(t) \/ Pass(t) \/ SetWorking(t) \/ ClaimRow(t) \/ Send(t) \/ TurnEnds(t)
  BY <1>1 DEF TakePermit, Pass, SetWorking, ClaimRow, Send, TurnEnds, TypeOK
<1>2. CASE Mark(t) \/ MarkFails(t) \/ FinishRow(t) \/ SetError(t) \/ MarkIdle(t)
  BY <1>2 DEF Mark, MarkFails, FinishRow, SetError, MarkIdle, TypeOK
<1>3. CASE Note(t) \/ Check(t)
  BY <1>3 DEF Note, Check, TypeOK
<1>4. CASE Peek(t)
  BY <1>4 DEF Peek, Unread, TypeOK
<1>5. CASE Park(t) \/ SkipBusy(t) \/ SkipWarmup(t)
  BY <1>5 DEF Park, SkipBusy, SkipWarmup, GiveUp
<1>6. CASE Exit(t)
  BY <1>6 DEF Exit, OneLoop
<1>. QED BY <1>1, <1>2, <1>3, <1>4, <1>5, <1>6 DEF LoopStep

\* A slot stays served if its loop and its permit are left alone and what is
\* new in its mail is signalled.
LEMMA ServedKept ==
  ASSUME NEW a \in Agents, ServedAt(a), reg'[a] = reg[a],
         pc'[<<a, reg[a]>>] = pc[<<a, reg[a]>>],
         permit[<<a, reg[a]>>] => permit'[<<a, reg[a]>>],
         read \subseteq read',
         \A m \in mail' : m.to = a => m \in mail \/ Signalled(m)',
         \A m \in mail : m.to = a /\ Signalled(m) => Signalled(m)'
  PROVE  ServedAt(a)'
BY DEF ServedAt, Comes, Unread

\* After a step of a loop every slot is still served.
LEMMA ServedLoop ==
  ASSUME TypeOK, OneLoop, Served, NEW t \in Tasks, LoopStep(t),
         NEW a \in live' \ skipped'
  PROVE  ServedAt(a)'
<1>0. /\ a \in live /\ a \in Agents /\ reg' = reg /\ reg[a] # 0
      /\ UNCHANGED <<owed, stale>> /\ \A m : Signalled(m)' <=> Signalled(m)
  BY LoopMoves DEF Signalled, OneLoop, TypeOK
<1>1. CASE a = t[1]
  <2>1. t = <<a, reg[a]>>
    BY <1>1, LoopMoves DEF OneLoop, Tasks
  <2>2. CASE pc'[t] \in Awake
    BY <1>0, <2>1, <2>2 DEF ServedAt, Comes
  <2>3. CASE Unread(a)' = {}
    BY <2>3 DEF ServedAt
  <2>4. CASE UNCHANGED <<mailVars, permit, skipped>> /\ pc[t] = "park"
    <3>1. ServedAt(a) /\ pc[t] \notin Awake
      BY <1>0, <2>4 DEF Served, Awake
    <3>. QED BY <1>0, <2>1, <2>4, <3>1 DEF ServedAt, Comes, Unread
  <2>. QED BY <1>0, <1>1, <2>2, <2>3, <2>4, LoopLeaves
<1>2. CASE a # t[1]
  <2>1. ServedAt(a)
    BY <1>0, <1>2, LoopMail DEF Served
  <2>2. <<a, reg[a]>> \in Tasks \ {t}
    BY <1>0, <1>2 DEF Tasks, Loops, TypeOK
  <2>3. \A m \in mail' : m \in mail \/ Signalled(m)
    BY LoopMail DEF Signalled
  <2>4. read \subseteq read' /\ (permit[<<a, reg[a]>>] => permit'[<<a, reg[a]>>])
    BY <2>2, LoopMail
  <2>5. pc'[<<a, reg[a]>>] = pc[<<a, reg[a]>>]
    BY <2>2, LoopMoves
  <2>. QED BY <1>0, <2>1, <2>3, <2>4, <2>5, ServedKept
<1>. QED BY <1>1, <1>2

\* After a signal too: the loop has its permit.
LEMMA ServedWake ==
  ASSUME TypeOK, OneLoop, Served, NEW m \in owed, Wake(m), NEW a \in live' \ skipped'
  PROVE  ServedAt(a)'
<1>0. /\ m.to \in Agents /\ a \in Agents /\ a \in live \ skipped /\ reg[a] # 0
      /\ <<a, reg[a]>> \in Tasks
      /\ ServedAt(a) /\ UNCHANGED <<mailVars, reg, pc>>
  BY DEF Wake, Served, OneLoop, TypeOK, Row, Tasks, Loops
<1>1. permit[<<a, reg[a]>>] => permit'[<<a, reg[a]>>]
  BY <1>0 DEF Wake, Notified, TypeOK
<1>2. \A r : Signalled(r) => Signalled(r)' \/ (r = m /\ m \notin stale)
  BY DEF Wake, Signalled
<1>3. CASE a = m.to /\ m \notin stale
  <2>1. permit' = Notified(a)
    BY <1>0, <1>3 DEF Wake
  <2>2. permit'[<<a, reg[a]>>]
    BY <1>0, <2>1 DEF Notified, TypeOK
  <2>. QED BY <1>0, <2>2 DEF ServedAt, Comes
<1>4. CASE a # m.to \/ m \in stale
  BY <1>0, <1>1, <1>2, <1>4, ServedKept
<1>. QED BY <1>3, <1>4

\* Every step leaves every slot served.
LEMMA ServedNext ==
  ASSUME Fixed, TypeOK, OneLoop, OldRows, Served, [Next]_vars
  PROVE  Served'
<1>. SUFFICES ASSUME NEW a \in live' \ skipped' PROVE ServedAt(a)'
  BY DEF Served
<1>a. a \in Agents
  BY TypeNext DEF TypeOK
<1>1. ASSUME NEW t \in Tasks, LoopStep(t) PROVE ServedAt(a)'
  BY <1>1, ServedLoop
<1>2. ASSUME NEW m \in owed, Wake(m) PROVE ServedAt(a)'
  BY <1>2, ServedWake
<1>3. ASSUME NEW b \in Agents, MailStep(b) PROVE ServedAt(a)'
  <2>1. PICK m \in Row :
           /\ mail' = mail \cup {m} /\ m.id = nextId
           /\ owed' = owed \cup {m} \/ (owed' = owed /\ m.via = "declined")
           /\ UNCHANGED <<read, slotVars, loopVars, stale, skipped>>
    BY <1>3, MailMoves
  <2>2. m \notin stale
    BY <2>1 DEF OldRows, TypeOK
  <2>3. Signalled(m)' /\ \A r : Signalled(r) => Signalled(r)'
    BY <2>1, <2>2 DEF Signalled
  <2>4. ServedAt(a)
    BY <2>1 DEF Served
  <2>. QED BY <1>a, <2>1, <2>3, <2>4, ServedKept
<1>4. ASSUME NEW b \in Agents, InlineStep(b) \/ Aside(b) PROVE ServedAt(a)'
  <2>1. /\ UNCHANGED <<live, reg, pc, permit, mail, owed, stale, skipped>>
        /\ read \subseteq read'
    BY <1>4, AsideMoves DEF InlineStep, InlinePeek, InlineSend, InlineEnds
  <2>2. ServedAt(a) /\ \A r : Signalled(r) => Signalled(r)'
    BY <2>1 DEF Served, Signalled
  <2>. QED BY <1>a, <2>1, <2>2, ServedKept
<1>5. ASSUME NEW b \in Agents, RemoveSlot(b) PROVE ServedAt(a)'
  <2>1. CASE b \in live /\ session = "up"
    <3>1. /\ a \in live \ skipped /\ a # b /\ reg[a] # 0 /\ reg'[a] = reg[a]
          /\ Abort({<<b, reg[b]>>} \cap Tasks) /\ UNCHANGED <<mailVars, owed, stale>>
      <4>1. live' = live \ {b} /\ reg' = [reg EXCEPT ![b] = 0] /\ skipped' = skipped
        BY <1>5, <2>1, RemoveMoves
      <4>2. a \in live \ skipped /\ a # b
        BY <4>1
      <4>3. reg[a] # 0 /\ reg'[a] = reg[a]
        BY <1>a, <4>1, <4>2 DEF OneLoop, TypeOK
      <4>. QED BY <1>5, <2>1, <4>2, <4>3, RemoveMoves
    <3>2. /\ pc'[<<a, reg[a]>>] = pc[<<a, reg[a]>>]
          /\ permit'[<<a, reg[a]>>] = permit[<<a, reg[a]>>]
      <4>1. <<a, reg[a]>> \in Tasks /\ <<a, reg[a]>> # <<b, reg[b]>>
        BY <1>a, <3>1 DEF Tasks, Loops, TypeOK
      <4>. QED BY <3>1, <4>1 DEF Abort, TypeOK
    <3>3. ServedAt(a) /\ \A r : Signalled(r) => Signalled(r)'
      BY <3>1 DEF Served, Signalled
    <3>. QED BY <1>a, <3>1, <3>2, <3>3, ServedKept
  <2>2. CASE ~(b \in live /\ session = "up")
    <3>1. UNCHANGED <<mailVars, live, reg, pc, permit, owed, stale, skipped>>
      BY <1>5, <2>2, RemoveNothing
    <3>2. ServedAt(a) /\ \A r : Signalled(r) => Signalled(r)'
      BY <3>1 DEF Served, Signalled
    <3>. QED BY <1>a, <3>1, <3>2, ServedKept
  <2>. QED BY <2>1, <2>2
<1>6. CASE EnsureReady
  <2>1. /\ a \in snapshot /\ reg'[a] = Free(a) /\ Free(a) \in Loops
    BY <1>a, <1>6, FreeLoop DEF EnsureReady
  <2>2. permit'[<<a, Free(a)>>]
    BY <1>a, <1>6, <2>1 DEF EnsureReady, Tasks
  <2>. QED BY <2>1, <2>2 DEF ServedAt, Comes, Loops
<1>7. CASE EnsureBegin
  BY <1>7 DEF EnsureBegin, OneLoop
<1>8. CASE StopSession \/ Crash
  BY <1>8 DEF StopSession, Crash, NoSession
<1>9. CASE UNCHANGED vars
  <2>1. ServedAt(a) /\ \A r : Signalled(r) => Signalled(r)'
    BY <1>9 DEF Served, Signalled
  <2>. QED BY <1>9, <2>1 DEF ServedAt, Comes, Unread
<1>. QED BY <1>1, <1>2, <1>3, <1>4, <1>5, <1>6, <1>7, <1>8, <1>9, FixedSteps

\* In a team whose slots are the founders', removed or not, no wake-up is
\* lost: whatever else is stopped, crashes or fails, a loop that waits without
\* a permit has no mail but what some writer is still to signal.
THEOREM NoWakeupLost == ASSUME Fixed PROVE Spec => []NoStrandedMail
<1>. DEFINE IInv == TypeOK /\ OneLoop /\ OldRows /\ Served
<1>1. Init => IInv
  BY TypeInit, OneLoopInit DEF Init, OldRows, Served
<1>2. IInv /\ [Next]_vars => IInv'
  BY TypeNext, OneLoopNext, OldRowsNext, ServedNext
<1>3. IInv => NoStrandedMail
  BY DEF NoStrandedMail, Parked, Served, ServedAt, Comes, Awake, Signalled, OneLoop
<1>. QED BY <1>1, <1>2, <1>3, PTL DEF Spec

-----------------------------------------------------------------------------
(* Working slots *)

Busy == {"row", "relay", "prompt", "mark", "finish", "error", "idle"}

\* A loop's step changes the status of its own slot only, and leaves it
\* Working only while the loop is busy.
LEMMA LoopStatus ==
  ASSUME TypeOK, OneLoop, NEW t \in Tasks, LoopStep(t)
  PROVE  /\ \A a \in Agents \ {t[1]} : status'[a] = status[a]
         /\ \/ pc'[t] \in Busy
            \/ status' = status /\ pc[t] \notin Busy
            \/ status'[t[1]] # "working"
            \/ t[1] \notin live
<1>0. t[1] \in Agents
  BY DEF Tasks
<1>1. CASE \/ TakePermit(t) \/ Exit(t) \/ Peek(t) \/ Park(t) \/ SkipBusy(t) \/ SkipWarmup(t)
           \/ Pass(t) \/ Note(t) \/ Check(t)
  BY <1>1 DEF TakePermit, Exit, Peek, Park, SkipBusy, SkipWarmup, GiveUp, Pass, Note, Check, Busy
<1>2. CASE TurnEnds(t) \/ Mark(t) \/ MarkFails(t) \/ FinishRow(t)
  BY <1>2 DEF TurnEnds, Mark, MarkFails, FinishRow, Busy, TypeOK
<1>3. CASE SetWorking(t) \/ ClaimRow(t) \/ Send(t) \/ SetError(t)
  BY <1>0, <1>3 DEF SetWorking, ClaimRow, Send, SetError, Busy, TypeOK
<1>4. CASE MarkIdle(t)
  BY <1>0, <1>4 DEF MarkIdle, Attached, OneLoop, TypeOK
<1>. QED BY <1>1, <1>2, <1>3, <1>4 DEF LoopStep

\* An inline send leaves the status of the slots there are alone.
LEMMA InlineStatus ==
  ASSUME TypeOK, InlineApart, NEW a \in Agents, InlineStep(a)
  PROVE  UNCHANGED status
<1>1. a \in live => inline[a].pc = "no" \/ inline[a].old
  BY DEF InlineApart
<1>. QED BY <1>1 DEF InlineStep, InlinePeek, InlineSend, InlineEnds

\* Every step leaves a working slot the turn that backs it.
LEMMA WorkingNext ==
  ASSUME Fixed, TypeOK, OneLoop, InlineApart, WorkingIsBacked, [Next]_vars
  PROVE  WorkingIsBacked'
<1>. SUFFICES ASSUME NEW a \in live', status'[a] = "working"
              PROVE  \E g \in Loops : pc'[<<a, g>>] \in Busy
  BY DEF WorkingIsBacked, Busy
<1>a. a \in Agents
  BY TypeNext DEF TypeOK
<1>b. a \in live /\ status[a] = "working" => \E g \in Loops : pc[<<a, g>>] \in Busy
  BY DEF WorkingIsBacked, Busy
<1>1. CASE UNCHANGED <<live, status, pc>>
  BY <1>b, <1>1
<1>2. ASSUME NEW t \in Tasks, LoopStep(t) PROVE \E g \in Loops : pc'[<<a, g>>] \in Busy
  <2>1. a \in live /\ t = <<t[1], t[2]>> /\ t[2] \in Loops
    BY <1>2, LoopMoves DEF Tasks
  <2>2. CASE t[1] = a
    <3>1. CASE pc'[t] \in Busy
      BY <2>1, <2>2, <3>1
    <3>2. CASE status' = status /\ pc[t] \notin Busy
      <4>1. PICK g \in Loops : pc[<<a, g>>] \in Busy
        BY <1>b, <2>1, <3>2
      <4>2. reg[a] = g /\ reg[a] = t[2]
        <5>1. <<a, g>> \in Tasks /\ pc[<<a, g>>] # "dead" /\ pc[t] # "dead"
          BY <1>a, <1>2, <4>1, LoopMoves DEF Tasks, Busy
        <5>. QED BY <2>2, <5>1 DEF OneLoop
      <4>. QED BY <2>1, <2>2, <3>2, <4>1, <4>2
    <3>. QED BY <1>2, <2>1, <2>2, <3>1, <3>2, LoopStatus
  <2>3. CASE t[1] # a
    <3>1. status[a] = "working"
      BY <1>a, <1>2, <2>3, LoopStatus
    <3>2. \A g \in Loops : pc'[<<a, g>>] = pc[<<a, g>>]
      BY <1>a, <1>2, <2>3, LoopMoves DEF Tasks
    <3>. QED BY <1>b, <2>1, <3>1, <3>2
  <2>. QED BY <2>2, <2>3
<1>3. ASSUME NEW b \in Agents, MailStep(b) \/ InlineStep(b) \/ Aside(b)
      PROVE  UNCHANGED <<live, status, pc>>
  <2>1. CASE InlineStep(b)
    BY <2>1, InlineStatus DEF InlineStep, InlinePeek, InlineSend, InlineEnds
  <2>. QED BY <1>3, <2>1, MailMoves, AsideMoves
<1>4. ASSUME NEW b \in Agents, RemoveSlot(b) PROVE \E g \in Loops : pc'[<<a, g>>] \in Busy
  <2>1. CASE b \in live /\ session = "up"
    <3>1. /\ live' = live \ {b} /\ status' = [status EXCEPT ![b] = "idle"]
          /\ Abort({<<b, reg[b]>>} \cap Tasks)
      BY <1>4, <2>1, RemoveMoves
    <3>2. a \in live /\ a # b /\ status[a] = "working"
      BY <1>a, <3>1 DEF TypeOK
    <3>3. \A g \in Loops : pc'[<<a, g>>] = pc[<<a, g>>]
      BY <1>a, <3>1, <3>2 DEF Abort, Tasks
    <3>. QED BY <1>b, <3>2, <3>3
  <2>2. CASE ~(b \in live /\ session = "up")
    BY <1>1, <1>4, <2>2, RemoveNothing
  <2>. QED BY <2>1, <2>2
<1>5. ASSUME \E m \in owed : Wake(m) PROVE UNCHANGED <<live, status, pc>>
  BY <1>5 DEF Wake
<1>6. CASE EnsureBegin \/ UNCHANGED vars
  BY <1>1, <1>6 DEF EnsureBegin
<1>7. CASE EnsureReady \/ StopSession \/ Crash
  BY <1>a, <1>7 DEF EnsureReady, StopSession, Crash, NoSession
<1>. QED BY <1>1, <1>2, <1>3, <1>4, <1>5, <1>6, <1>7, FixedSteps

\* In a team whose slots are the founders', a slot that says Working has its
\* loop between the claim and mark_idle.
THEOREM WorkingStaysBacked == ASSUME Fixed PROVE Spec => []WorkingIsBacked
<1>. DEFINE IInv == TypeOK /\ OneLoop /\ InlineApart /\ WorkingIsBacked
<1>1. Init => IInv
  BY TypeInit, OneLoopInit DEF Init, InlineApart, NoInline, WorkingIsBacked
<1>2. IInv /\ [Next]_vars => IInv'
  BY TypeNext, OneLoopNext, InlineApartNext, WorkingNext
<1>. QED BY <1>1, <1>2, PTL DEF Spec

-----------------------------------------------------------------------------
(* Rows carried twice *)

\* A step that adds to what is read and excused, and holds every batch or has
\* cut its loop off, keeps track of the rows.
LEMMA CarriedKept ==
  ASSUME Carried, read \subseteq read', excused \subseteq excused',
         \A m \in handed' : m \in handed \/ m \in excused',
         \A t \in Tasks : \/ batch'[t] = batch[t] /\ pc'[t] = pc[t]
                          \/ /\ batch'[t] = {}
                             /\ pc[t] \in {"prompt", "mark"} => batch[t] \subseteq excused'
  PROVE  Carried'
<1>1. ASSUME NEW t \in Tasks, NEW m \in batch'[t]
      PROVE  /\ m.to = t[1] /\ pc'[t] \in {"guard", "claim", "row", "relay", "prompt", "mark"}
             /\ pc'[t] \in {"guard", "claim", "row", "relay"} => m \notin handed' \/ m \in excused'
  BY <1>1 DEF Carried
<1>2. ASSUME NEW m \in handed', m \notin read', m \notin excused'
      PROVE  \E t \in Tasks : m \in batch'[t] /\ pc'[t] \in {"prompt", "mark"}
  <2>1. PICK t \in Tasks : m \in batch[t] /\ pc[t] \in {"prompt", "mark"}
    BY <1>2 DEF Carried
  <2>. QED BY <1>2, <2>1
<1>. QED BY <1>1, <1>2 DEF Carried

\* Two loops that run are of two slots.
LEMMA Apart ==
  ASSUME OneLoop, NEW t \in Tasks, NEW u \in Tasks, pc[t] # "dead", pc[u] # "dead", t[1] = u[1]
  PROVE  t = u
BY DEF OneLoop, Tasks

\* A step of a loop keeps the rows carried in the one loop's batch.
LEMMA CarriedLoop ==
  ASSUME TypeOK, OneLoop, Carried, RepeatsAreExcused, NEW t \in Tasks, LoopStep(t)
  PROVE  Carried' /\ RepeatsAreExcused'
<1>0. pc[t] # "dead" /\ \A u \in Tasks \ {t} : pc'[u] = pc[u] /\ batch'[u] = batch[u]
  BY LoopMoves
<1>1. CASE \/ TakePermit(t) \/ Exit(t) \/ Park(t) \/ Pass(t) \/ SetWorking(t) \/ ClaimRow(t)
           \/ TurnEnds(t) \/ FinishRow(t) \/ SetError(t) \/ MarkIdle(t) \/ Note(t) \/ Check(t)
  <2>1. UNCHANGED <<batch, read, history>>
    BY <1>1 DEF TakePermit, Exit, Park, Pass, SetWorking, ClaimRow, TurnEnds, FinishRow, SetError, MarkIdle, Note,
                Write, Check
  <2>2. \/ pc[t] = "guard" /\ pc'[t] = "claim"
        \/ pc[t] = "claim" /\ pc'[t] = "row"
        \/ pc[t] = "row" /\ pc'[t] = "relay"
        \/ pc[t] = "prompt" /\ pc'[t] = "mark"
        \/ pc[t] \notin {"guard", "claim", "row", "relay", "prompt", "mark"}
    BY <1>1 DEF TakePermit, Exit, Park, Pass, SetWorking, ClaimRow, TurnEnds, FinishRow, SetError, MarkIdle, Note,
                Check, TypeOK
  <2>3. pc[t] \notin {"guard", "claim", "row", "relay", "prompt", "mark"} => batch[t] = {}
    BY DEF Carried
  <2>. QED BY <1>0, <2>1, <2>2, <2>3 DEF Carried, RepeatsAreExcused
<1>2. CASE Peek(t)
  <2>1. /\ pc[t] = "peek" /\ UNCHANGED <<read, history>> /\ batch[t] = {}
        /\ \/ batch'[t] = {} /\ pc'[t] \in {"wait", "park"}
           \/ batch'[t] = Unread(t[1]) /\ pc'[t] = "guard"
    BY <1>2 DEF Peek, Carried, TypeOK
  <2>2. ASSUME NEW m \in Unread(t[1]), m \in handed, m \notin excused PROVE FALSE
    <3>1. m.to = t[1] /\ m \notin read
      BY <2>2 DEF Unread
    <3>2. PICK u \in Tasks : m \in batch[u] /\ pc[u] \in {"prompt", "mark"}
      BY <2>2, <3>1 DEF Carried
    <3>3. u[1] = t[1]
      BY <3>1, <3>2 DEF Carried
    <3>. QED BY <1>0, <2>1, <3>2, <3>3, Apart
  <2>3. \A m \in Unread(t[1]) : m.to = t[1]
    BY DEF Unread
  <2>. QED BY <1>0, <2>1, <2>2, <2>3 DEF Carried, RepeatsAreExcused
<1>3. CASE SkipBusy(t) \/ SkipWarmup(t)
  <2>1. /\ pc[t] = "guard" /\ batch'[t] = {} /\ UNCHANGED <<read, history>>
    BY <1>3 DEF SkipBusy, SkipWarmup, GiveUp, TypeOK
  <2>. QED BY <1>0, <2>1, CarriedKept DEF RepeatsAreExcused
<1>4. CASE Send(t)
  <2>1. /\ pc[t] = "relay" /\ pc'[t] = "prompt" /\ Hand(batch[t])
        /\ UNCHANGED <<batch, read, excused>>
    BY <1>4 DEF Send, TypeOK
  <2>2. RepeatsAreExcused'
    BY <2>1 DEF Hand, Carried, RepeatsAreExcused
  <2>3. ASSUME NEW u \in Tasks \ {t}, NEW m \in batch[u], m \in batch[t] PROVE FALSE
    BY <1>0, <2>3, Apart DEF Carried
  <2>. QED BY <1>0, <2>1, <2>2, <2>3 DEF Hand, Carried
<1>5. CASE Mark(t)
  <2>1. /\ pc[t] = "mark" /\ pc'[t] = "finish" /\ batch'[t] = {} /\ read' = read \cup batch[t]
        /\ UNCHANGED history
    BY <1>5 DEF Mark, TypeOK
  <2>. QED BY <1>0, <2>1 DEF Carried, RepeatsAreExcused
<1>6. CASE MarkFails(t)
  <2>1. /\ batch'[t] = {} /\ excused' = excused \cup batch[t]
        /\ UNCHANGED <<read, handed, repeated>>
    BY <1>6 DEF MarkFails, TypeOK
  <2>. QED BY <1>0, <2>1, CarriedKept DEF RepeatsAreExcused
<1>. QED BY <1>1, <1>2, <1>3, <1>4, <1>5, <1>6 DEF LoopStep

\* Loops that are aborted have their turns' rows excused.
LEMMA CarriedAborted ==
  ASSUME TypeOK, Carried, RepeatsAreExcused, NEW S \in SUBSET Tasks, Abort(S),
         excused' = excused \cup CutOff(S), UNCHANGED <<read, handed, repeated>>
  PROVE  Carried' /\ RepeatsAreExcused'
<1>1. ASSUME NEW t \in Tasks
      PROVE  \/ batch'[t] = batch[t] /\ pc'[t] = pc[t]
             \/ /\ batch'[t] = {}
                /\ pc[t] \in {"prompt", "mark"} => batch[t] \subseteq excused'
  BY <1>1 DEF Abort, CutOff
<1>. QED BY <1>1, CarriedKept DEF RepeatsAreExcused

\* Every step keeps them there.
LEMMA CarriedNext ==
  ASSUME Fixed, TypeOK, OneLoop, Carried, RepeatsAreExcused, [Next]_vars
  PROVE  Carried' /\ RepeatsAreExcused'
<1>1. CASE UNCHANGED <<pc, batch, read, history>>
  BY <1>1 DEF Carried, RepeatsAreExcused
<1>2. ASSUME NEW t \in Tasks, LoopStep(t) PROVE Carried' /\ RepeatsAreExcused'
  BY <1>2, CarriedLoop
<1>3. ASSUME NEW a \in Agents, MailStep(a) \/ Aside(a) PROVE UNCHANGED <<pc, batch, read, history>>
  BY <1>3, MailMoves, AsideMoves
<1>4. ASSUME NEW a \in Agents, InlineStep(a) PROVE Carried' /\ RepeatsAreExcused'
  <2>1. /\ UNCHANGED <<pc, batch>> /\ read \subseteq read'
        /\ \/ UNCHANGED history
           \/ Hand(inline[a].batch) /\ excused' = excused \cup inline[a].batch
    BY <1>4 DEF InlineStep, InlinePeek, InlineSend, InlineEnds
  <2>. QED BY <2>1, CarriedKept DEF Hand, RepeatsAreExcused
<1>5. ASSUME NEW a \in Agents, RemoveSlot(a) PROVE Carried' /\ RepeatsAreExcused'
  <2>1. CASE a \in live /\ session = "up"
    <3>1. /\ Abort({<<a, reg[a]>>} \cap Tasks)
          /\ excused' = excused \cup CutOff({<<a, reg[a]>>} \cap Tasks)
          /\ UNCHANGED <<read, handed, repeated>>
      BY <1>5, <2>1, RemoveMoves
    <3>. QED BY <3>1, CarriedAborted
  <2>2. CASE ~(a \in live /\ session = "up")
    BY <1>1, <1>5, <2>2, RemoveNothing
  <2>. QED BY <2>1, <2>2
<1>6. ASSUME (\E m \in owed : Wake(m)) \/ EnsureBegin \/ UNCHANGED vars
      PROVE  UNCHANGED <<pc, batch, read, history>>
  BY <1>6 DEF Wake, EnsureBegin
<1>7. CASE EnsureReady
  <2>1. \A t \in Tasks : pc[t] = "dead" /\ t[1] \in Agents
    BY <1>7 DEF EnsureReady, OneLoop, Tasks, Loops
  <2>2. \A t \in Tasks : batch[t] = {} /\ pc'[t] \in {"dead", "wait"}
    BY <1>7, <2>1 DEF EnsureReady, Carried
  <2>. QED BY <1>7, <2>1, <2>2 DEF EnsureReady, Carried, RepeatsAreExcused
<1>8. CASE StopSession \/ Crash
  <2>1. \E S \in SUBSET Tasks : Abort(S) /\ excused' = excused \cup CutOff(S)
    BY <1>8 DEF StopSession, Crash
  <2>2. UNCHANGED <<read, handed, repeated>>
    BY <1>8 DEF StopSession, Crash
  <2>. QED BY <2>1, <2>2, CarriedAborted
<1>. QED BY <1>1, <1>2, <1>3, <1>4, <1>5, <1>6, <1>7, <1>8, FixedSteps

\* In a team whose slots are the founders', no turn carries a row a second
\* time but for a turn cut off, a mark that failed, or the inline fallback.
THEOREM RepeatsStayExcused == ASSUME Fixed PROVE Spec => []RepeatsAreExcused
<1>. DEFINE IInv == TypeOK /\ OneLoop /\ Carried /\ RepeatsAreExcused
<1>1. Init => IInv
  BY TypeInit, OneLoopInit DEF Init, Carried, RepeatsAreExcused
<1>2. IInv /\ [Next]_vars => IInv'
  BY TypeNext, OneLoopNext, CarriedNext
<1>. QED BY <1>1, <1>2, PTL DEF Spec

-----------------------------------------------------------------------------
(* The leader hears when all have settled *)

\* A teammate's step on its way from Working to the check.
LEMMA TeammateSettles ==
  ASSUME TypeOK, OneLoop, NEW t \in Tasks, LoopStep(t), t[1] \in live, t[1] # Lead
  PROVE  \/ pc'[t] \in Settling
         \/ Check(t)
         \/ /\ pc[t] \notin Settling /\ mail' = mail
            /\ status' = status \/ status' = [status EXCEPT ![t[1]] = "working"]
<1>. USE DEF Settling
<1>1. CASE \/ TakePermit(t) \/ Exit(t) \/ Peek(t) \/ Park(t) \/ SkipBusy(t) \/ SkipWarmup(t)
           \/ Pass(t)
  BY <1>1 DEF TakePermit, Exit, Peek, Park, SkipBusy, SkipWarmup, GiveUp, Pass
<1>2. CASE \/ SetWorking(t) \/ ClaimRow(t) \/ Send(t) \/ TurnEnds(t) \/ Mark(t) \/ MarkFails(t)
           \/ FinishRow(t)
  BY <1>2 DEF SetWorking, ClaimRow, Send, TurnEnds, Mark, MarkFails, FinishRow
<1>3. CASE SetError(t) \/ MarkIdle(t) \/ Note(t)
  BY <1>3 DEF SetError, MarkIdle, Note, TypeOK
<1>4. CASE Check(t)
  BY <1>4
<1>. QED BY <1>1, <1>2, <1>3, <1>4 DEF LoopStep

\* After a step of a loop the leader is still awaited.
LEMMA AwaitedLoop ==
  ASSUME TypeOK, OneLoop, Awaited, NEW t \in Tasks, LoopStep(t), Lead \in live' \ skipped'
  PROVE  Comes(Lead)' \/ Pending'
<1>0. /\ Lead \in live /\ Lead \in Agents /\ reg[Lead] # 0 /\ UNCHANGED <<reg, live>>
      /\ <<Lead, reg[Lead]>> \in Tasks /\ t[1] \in Agents /\ pc[t] # "dead"
  <2>1. Lead \in live /\ Lead \in Agents /\ UNCHANGED <<reg, live>> /\ pc[t] # "dead"
    BY LoopMoves, TeamAssumption
  <2>2. reg[Lead] # 0 /\ reg[Lead] \in 0 .. MaxLoops
    BY <2>1 DEF OneLoop, TypeOK
  <2>. QED BY <2>1, <2>2, BoundAssumption DEF Tasks, Loops
<1>1. CASE t[1] = Lead
  <2>1. t = <<Lead, reg[Lead]>>
    BY <1>0, <1>1 DEF OneLoop, Tasks
  <2>2. CASE pc'[t] \in Awake
    BY <1>0, <2>1, <2>2 DEF Comes
  <2>3. CASE Unread(Lead)' = {}
    BY <2>3 DEF Pending
  <2>4. CASE UNCHANGED <<mailVars, permit, skipped>> /\ pc[t] = "park"
    <3>1. UNCHANGED status
      BY <2>4 DEF LoopStep, TakePermit, Exit, Peek, Park, SkipBusy, SkipWarmup, GiveUp, Pass,
                  SetWorking, ClaimRow, Send, TurnEnds, Mark, MarkFails, FinishRow, SetError, MarkIdle, Note, Check
    <3>2. Comes(Lead) => Comes(Lead)'
      BY <1>0, <2>1, <2>4 DEF Comes, Awake
    <3>3. \A u \in Tasks : pc[u] \in Settling => pc'[u] \in Settling
      BY <2>4, LoopMoves DEF Settling
    <3>. QED BY <1>0, <2>4, <3>1, <3>2, <3>3 DEF Awaited, Pending, Unread, AllSettled, Settled, Settling
  <2>. QED BY <1>0, <1>1, <2>2, <2>3, <2>4, LoopLeaves
<1>2. CASE t[1] # Lead
  <2>0. t[1] \in live /\ Lead \notin skipped
    BY <1>0, <1>2, LoopMail DEF OneLoop, Tasks, Loops
  <2>1. Comes(Lead) => Comes(Lead)'
    BY <1>0, <1>2, LoopMoves, LoopMail DEF Comes
  <2>2. status'[Lead] = status[Lead]
    BY <1>0, <1>2, LoopStatus
  <2>3. CASE pc'[t] \in Settling
    BY <2>3 DEF Pending
  <2>4. CASE Check(t)
    <3>1. CASE status[Lead] = "idle" /\ AllSettled
      <4>1. permit' = Notified(Lead)
        BY <1>0, <2>4, <3>1 DEF Check, OneLoop
      <4>2. permit'[<<Lead, reg[Lead]>>]
        BY <1>0, <4>1 DEF Notified, TypeOK
      <4>. QED BY <1>0, <4>2 DEF Comes
    <3>2. CASE ~(status[Lead] = "idle" /\ AllSettled)
      <4>1. UNCHANGED <<status, live>>
        BY <2>4 DEF Check
      <4>. QED BY <3>2, <4>1 DEF Pending, AllSettled, Settled
    <3>. QED BY <3>1, <3>2
  <2>5. CASE /\ pc[t] \notin Settling /\ mail' = mail
             /\ status' = status \/ status' = [status EXCEPT ![t[1]] = "working"]
    <3>1. Comes(Lead) \/ Pending
      BY <1>0, <2>0 DEF Awaited, Pending, Settling
    <3>2. Unread(Lead)' \subseteq Unread(Lead)
      BY <2>5, LoopMail DEF Unread
    <3>3. ~AllSettled => ~AllSettled'
      <4>1. \A a \in Agents : ~Settled(a) => ~Settled(a)'
        BY <1>0, <2>5 DEF Settled, TypeOK
      <4>. QED BY <1>0, <4>1 DEF AllSettled, TypeOK
    <3>4. \A u \in Tasks : pc[u] \in Settling => pc'[u] \in Settling
      BY <2>5, LoopMoves
    <3>. QED BY <2>1, <2>2, <3>1, <3>2, <3>3, <3>4 DEF Pending
  <2>. QED BY <1>2, <2>0, <2>3, <2>4, <2>5, TeammateSettles
<1>. QED BY <1>1, <1>2

\* What leaves the leader's loop, the statuses and the loops that settle as
\* they are, and brings no idle notification, leaves the leader awaited.
LEMMA AwaitedKept ==
  ASSUME Awaited, UNCHANGED <<live, status, reg, pc, skipped>>,
         permit[<<Lead, reg[Lead]>>] => permit'[<<Lead, reg[Lead]>>],
         read \subseteq read', \A m \in mail' : m \in mail \/ m.via # "idle"
  PROVE  Awaited'
BY DEF Awaited, Pending, Comes, Unread, AllSettled, Settled

\* After every step he is, and nobody is leaving.
LEMMA AwaitedNext ==
  ASSUME Fixed, Removable = {}, TypeOK, OneLoop, InlineApart, leaving = {}, Awaited, [Next]_vars
  PROVE  Awaited' /\ leaving' = {}
<1>1. ASSUME NEW t \in Tasks, LoopStep(t) PROVE Awaited' /\ leaving' = {}
  BY <1>1, AwaitedLoop, LoopMoves DEF Awaited, Pending, Settling
<1>2. ASSUME NEW a \in Agents, MailStep(a) PROVE Awaited' /\ leaving' = {}
  <2>1. /\ UNCHANGED <<live, status, reg, pc, skipped, permit, read, leaving>>
        /\ \A m \in mail' : m \in mail \/ m.via # "idle"
    BY <1>2, MailMoves
  <2>. QED BY <2>1, AwaitedKept
<1>3. ASSUME NEW a \in Agents, InlineStep(a) PROVE Awaited' /\ leaving' = {}
  <2>1. /\ UNCHANGED <<live, status, reg, pc, skipped, permit, mail, leaving>>
        /\ read \subseteq read'
    BY <1>3, InlineStatus DEF InlineStep, InlinePeek, InlineSend, InlineEnds
  <2>. QED BY <2>1, AwaitedKept
<1>4. ASSUME NEW a \in Agents, Aside(a) PROVE Awaited' /\ leaving' = {}
  <2>1. UNCHANGED <<live, status, reg, pc, skipped, permit, mailVars>>
    BY <1>4, AsideMoves
  <2>2. UNCHANGED leaving
    BY <1>4 DEF Aside, DirectCheck, DirectDropped, DirectStep, DirectStart, DirectEnds, DirectDone, RelayDone,
                StreamCloses, RemovePersist
  <2>. QED BY <2>1, <2>2, AwaitedKept
<1>5. ASSUME NEW a \in Agents, RemoveSlot(a) PROVE FALSE
  BY <1>5 DEF RemoveSlot
<1>6. ASSUME NEW m \in owed, Wake(m) PROVE Awaited' /\ leaving' = {}
  <2>1. /\ UNCHANGED <<live, status, reg, pc, skipped, mailVars, leaving>>
        /\ permit' = permit \/ permit' = Notified(m.to)
    BY <1>6 DEF Wake
  <2>2. permit[<<Lead, reg[Lead]>>] => permit'[<<Lead, reg[Lead]>>]
    <3>1. m.to \in Agents /\ Lead \in Agents
      BY TeamAssumption DEF TypeOK, Row
    <3>2. ASSUME permit[<<Lead, reg[Lead]>>], permit' = Notified(m.to), reg[m.to] # 0
          PROVE  permit'[<<Lead, reg[Lead]>>]
      <4>1. permit' = [permit EXCEPT ![<<m.to, reg[m.to]>>] = TRUE]
        BY <3>2 DEF Notified
      <4>. QED BY <3>2, <4>1 DEF TypeOK
    <3>. QED BY <2>1, <3>2 DEF Notified
  <2>. QED BY <2>1, <2>2, AwaitedKept
<1>7. CASE EnsureBegin \/ UNCHANGED vars
  BY <1>7, AwaitedKept DEF EnsureBegin
<1>8. CASE EnsureReady
  <2>1. ASSUME Lead \in live' PROVE Comes(Lead)'
    <3>1. Lead \in snapshot /\ Lead \in Agents
      BY <1>8, <2>1, TeamAssumption DEF EnsureReady
    <3>2. reg'[Lead] = Free(Lead) /\ Free(Lead) \in Loops
      BY <1>8, <3>1, FreeLoop DEF EnsureReady
    <3>3. permit'[<<Lead, Free(Lead)>>]
      BY <1>8, <3>1, <3>2 DEF EnsureReady, Tasks
    <3>. QED BY <3>2, <3>3 DEF Comes, Loops
  <2>. QED BY <1>8, <2>1 DEF EnsureReady, Awaited
<1>9. CASE StopSession \/ Crash
  BY <1>9 DEF StopSession, Crash, NoSession, Awaited
<1>. QED BY <1>1, <1>2, <1>3, <1>4, <1>5, <1>6, <1>7, <1>8, <1>9, FixedSteps

\* In a team that keeps its founders the leader is not forgotten: if it waits
\* with an idle notification unread and all have settled, some teammate is
\* still on its way to signal it.
THEOREM LeaderIsHeard == ASSUME Fixed, Removable = {} PROVE Spec => []LeaderNotForgotten
<1>. DEFINE IInv == TypeOK /\ OneLoop /\ InlineApart /\ leaving = {} /\ Awaited
<1>1. Init => IInv
  BY TypeInit, OneLoopInit DEF Init, InlineApart, NoInline, Awaited
<1>2. IInv /\ [Next]_vars => IInv'
  BY TypeNext, OneLoopNext, InlineApartNext, AwaitedNext
<1>3. IInv => LeaderNotForgotten
  BY TeamAssumption DEF LeaderNotForgotten, Parked, Awaited, Pending, Settling, Comes, Awake, OneLoop
<1>. QED BY <1>1, <1>2, <1>3, PTL DEF Spec

=============================================================================
