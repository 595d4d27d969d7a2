-------------------------- MODULE AgentTurnProofs --------------------------
(***************************************************************************)
(* What holds of AgentTurn for any calls, any number of continuations, any *)
(* number of task slots and any budgets.                                   *)
(***************************************************************************)
EXTENDS AgentTurn, TLAPS

PC == {"idle", "checked", "stored", "held", "building", "ready", "loop",
       "listen", "heard", "closing", "over"}

\* A budget spent is still a number.
LEMMA SpendType ==
  ASSUME TypeOK, NEW kind \in Kinds, Spend(kind)
  PROVE  used' \in [Kinds -> Nat]
BY DEF TypeOK, Spend

\* An event moves the calls that hear it and the status within their types.
LEMMA EmitType ==
  ASSUME TypeOK, NEW s \in Slots, Emit(s) \/ EmitOnce(s)
  PROVE  pc' \in [Calls -> PC] /\ status' \in [Slots -> {"none", "running", "finished"}]
<1>1. pc \in [Calls -> PC] /\ Heard(s) \in [Calls -> PC]
  BY DEF TypeOK, Heard, PC
<1>. QED BY <1>1 DEF TypeOK, Emit, EmitOnce

-----------------------------------------------------------------------------
(* Types, and where a call and its prompts are: a call holds a slot from    *)
(* GetSlot on, and every prompt was sent to the slot its call holds.        *)

Waiting == {"idle", "checked", "stored"}
Holding == {"held", "building", "ready", "loop", "listen", "heard", "closing"}

Placed ==
  /\ \A c \in Calls : pc[c] \in Waiting => at[c] = 0
  /\ \A c \in Calls : pc[c] \in Holding => at[c] \in Slots
  /\ \A p \in Prompts : prompt[p] # "no" => at[p[1]] \in Slots
  /\ \A c \in Calls : pc[c] = "listen" => round[c] \in Rounds

TInv == TypeOK /\ Placed

\* The typed invariant holds at the start.
LEMMA TInit == Init => TInv
<1>. SUFFICES ASSUME Init PROVE TInv
  OBVIOUS
<1>0. 0 \in 0 .. MaxSlots /\ 0 \in 0 .. MaxRounds
  BY TurnAssumption
<1>1. TypeOK
  BY <1>0 DEF Init, TypeOK
<1>2. Placed
  BY DEF Init, Placed, Waiting, Holding
<1>. QED BY <1>1, <1>2 DEF TInv

\* A step of a call keeps the typed invariant.
LEMMA TCall == ASSUME TInv, NEW c \in Calls, Check(c) \/ Warm(c) \/ CallStep(c) PROVE TInv'
<1>. USE DEF To
<1>1. CASE Check(c)
  <2>1. used' \in [Kinds -> Nat]
    BY <1>1, SpendType DEF Check, TInv, Kinds
  <2>. QED BY <1>1, <2>1 DEF Check, TInv, TypeOK, Placed, Waiting, Holding, taskVars
<1>2. CASE Store(c)
  BY <1>2 DEF Store, TInv, TypeOK, Placed, Waiting, Holding, taskVars
<1>3. CASE Warm(c)
  <2>1. used' \in [Kinds -> Nat]
    BY <1>3, SpendType DEF Warm, TInv, Kinds
  <2>. QED BY <1>3, <2>1 DEF Warm, TInv, TypeOK, Placed, Waiting, Holding, taskVars
<1>4. CASE GetSlot(c)
  <2>1. slot' \in Slots /\ made' \in 0 .. MaxSlots /\ slot' \in 0 .. MaxSlots
    BY <1>4, TurnAssumption DEF GetSlot, TInv, TypeOK, Slots
  <2>2. TypeOK'
    BY <1>4, <2>1 DEF GetSlot, TInv, TypeOK
  <2>3. Placed'
    BY <1>4, <2>1 DEF GetSlot, TInv, TypeOK, Placed, Waiting, Holding, Prompts
  <2>. QED BY <2>2, <2>3 DEF TInv
<1>5. CASE Enter(c)
  BY <1>5 DEF Enter, TInv, TypeOK, Placed, Waiting, Holding
<1>6. CASE Built(c)
  <2>1. used' \in [Kinds -> Nat]
    <3>1. UNCHANGED used \/ Spend("fail")
      BY <1>6 DEF Built
    <3>. QED BY <3>1, SpendType DEF TInv, TypeOK, Kinds
  <2>. QED BY <1>6, <2>1 DEF Built, TInv, TypeOK, Placed, Waiting, Holding
<1>7. CASE Claim(c)
  <2>1. CASE pc' = [pc EXCEPT ![c] = "over"] /\ UNCHANGED <<row, raced>>
    BY <1>7, <2>1 DEF Claim, TInv, TypeOK, Placed, Waiting, Holding, taskVars
  <2>2. CASE pc' = [pc EXCEPT ![c] = "loop"] /\ row' = "running" /\ raced' = (raced \/ row = "running")
    BY <1>7, <2>2 DEF Claim, TInv, TypeOK, Placed, Waiting, Holding, taskVars
  <2>. QED BY <1>7, <2>1, <2>2 DEF Claim
<1>8. CASE Subscribe(c)
  <2>1. TypeOK'
    BY <1>8, TurnAssumption DEF Subscribe, TInv, TypeOK, taskVars
  <2>2. Placed'
    <3>1. CASE round[c] < MaxRounds
      <4>1. round' = [round EXCEPT ![c] = @ + 1] /\ round[c] + 1 \in Rounds
        BY <1>8, <3>1, TurnAssumption DEF Subscribe, TInv, TypeOK, Rounds
      <4>. QED BY <1>8, <3>1, <4>1 DEF Subscribe, TInv, TypeOK, Placed, Waiting, Holding,
                                       taskVars, Prompts
    <3>2. CASE ~(round[c] < MaxRounds)
      BY <1>8, <3>2 DEF Subscribe, TInv, TypeOK, Placed, Waiting, Holding, taskVars
    <3>. QED BY <3>1, <3>2
  <2>. QED BY <2>1, <2>2 DEF TInv
<1>9. CASE RelayEnds(c)
  BY <1>9 DEF RelayEnds, TInv, TypeOK, Placed, Waiting, Holding, taskVars
<1>10. CASE Complete(c)
  BY <1>10 DEF Complete, TInv, TypeOK, Placed, Waiting, Holding, taskVars
<1>. QED BY <1>1, <1>2, <1>3, <1>4, <1>5, <1>6, <1>7, <1>8, <1>9, <1>10 DEF CallStep

\* A terminal event moves a call only from listening to heard.
LEMMA HeardPlaced ==
  ASSUME TInv, NEW s \in Slots, Emit(s) \/ EmitOnce(s), UNCHANGED <<at, round>>,
         \A p \in Prompts : prompt'[p] # "no" => prompt[p] # "no"
  PROVE  Placed'
<1>1. \A c \in Calls : pc'[c] = pc[c] \/ (pc[c] = "listen" /\ pc'[c] = "heard")
  BY DEF Emit, EmitOnce, Heard, TInv, TypeOK
<1>. QED BY <1>1 DEF TInv, Placed, Waiting, Holding

\* A step of a prompt keeps it.
LEMMA TPrompt == ASSUME TInv, NEW p \in Prompts, PromptStep(p) PROVE TInv'
<1>. DEFINE s == at[p[1]]
<1>0. prompt[p] # "no" => s \in Slots
  BY DEF TInv, Placed
<1>1. CASE Open(p)
  BY <1>0, <1>1 DEF Open, Becomes, PromptUnchanged, TInv, TypeOK, Placed
<1>2. CASE Lock(p)
  BY <1>2 DEF Lock, Becomes, PromptUnchanged, TInv, TypeOK, Placed
<1>3. CASE Answer(p)
  <2>1. s \in Slots /\ (Emit(s) \/ EmitOnce(s))
    BY <1>0, <1>3 DEF Answer
  <2>2. TypeOK'
    BY <1>3, <2>1, EmitType DEF Answer, Becomes, PromptUnchanged, TInv, TypeOK, PC
  <2>3. Placed'
    BY <1>3, <2>1, HeardPlaced DEF Answer, Becomes, PromptUnchanged, TInv, TypeOK
  <2>. QED BY <2>2, <2>3 DEF TInv
<1>4. CASE Fail(p)
  <2>1. s \in Slots /\ EmitOnce(s)
    BY <1>0, <1>4 DEF Fail
  <2>2. used' \in [Kinds -> Nat]
    <3>1. UNCHANGED used \/ Spend("fail")
      BY <1>4 DEF Fail
    <3>. QED BY <3>1, SpendType DEF TInv, TypeOK, Kinds
  <2>3. TypeOK'
    BY <1>4, <2>1, <2>2, EmitType DEF Fail, Becomes, PromptUnchanged, TInv, TypeOK, PC
  <2>4. Placed'
    BY <1>4, <2>1, HeardPlaced DEF Fail, Becomes, PromptUnchanged, TInv, TypeOK
  <2>. QED BY <2>3, <2>4 DEF TInv
<1>. QED BY <1>1, <1>2, <1>3, <1>4 DEF PromptStep

\* A kill takes the slot out of the map and leaves every call well placed.
LEMMA TKill == ASSUME TInv, KillTask PROVE
  /\ Placed' /\ slot' \in 0 .. MaxSlots /\ dead' \subseteq Slots
  /\ pc' \in [Calls -> PC] /\ status' \in [Slots -> {"none", "running", "finished"}]
<1>1. CASE slot # 0 /\ cell[slot] = "full" /\ type = "acp"
  <2>1. slot \in Slots /\ EmitOnce(slot)
    BY <1>1 DEF KillTask, TInv, TypeOK, Slots
  <2>2. Placed'
    BY <2>1, HeardPlaced DEF KillTask
  <2>3. pc' \in [Calls -> PC] /\ status' \in [Slots -> {"none", "running", "finished"}]
    BY <2>1, EmitType DEF TInv
  <2>4. slot' \in 0 .. MaxSlots
    BY TurnAssumption DEF KillTask
  <2>5. dead' \subseteq Slots
    BY <1>1, <2>1 DEF KillTask, TInv, TypeOK
  <2>. QED BY <2>2, <2>3, <2>4, <2>5
<1>2. CASE ~(slot # 0 /\ cell[slot] = "full" /\ type = "acp")
  BY <1>2, TurnAssumption DEF KillTask, TInv, TypeOK, Placed, PC
<1>. QED BY <1>1, <1>2

\* What users, the scanner and a crash do keeps the typed invariant.
LEMMA TOutside ==
  ASSUME TInv, Cancel \/ Kill \/ IdleKill \/ DeleteRow \/ DeleteHook \/ Reset \/ Crash
  PROVE  TInv'
<1>0. used' \in [Kinds -> Nat]
  <2>1. UNCHANGED used \/ \E kind \in Kinds : Spend(kind)
    BY DEF Cancel, Kill, IdleKill, DeleteRow, DeleteHook, Reset, Crash, Kinds
  <2>. QED BY <2>1, SpendType DEF TInv, TypeOK
<1>1. CASE Cancel
  <2>1. slot \in Slots /\ (Emit(slot) \/ EmitOnce(slot))
    BY <1>1 DEF Cancel, TInv, TypeOK, Slots
  <2>2. /\ prompt' \in [Prompts -> {"no", "spawned", "queued", "running", "done"}]
        /\ \A p \in Prompts : prompt'[p] # "no" => prompt[p] # "no"
    BY <1>1 DEF Cancel, Outstanding, TInv, TypeOK
  <2>3. TypeOK'
    BY <1>0, <1>1, <2>1, <2>2, EmitType DEF Cancel, PromptUnchanged, TInv, TypeOK, PC
  <2>4. Placed'
    BY <1>1, <2>1, <2>2, HeardPlaced DEF Cancel, PromptUnchanged
  <2>. QED BY <2>3, <2>4 DEF TInv
<1>2. CASE Kill
  BY <1>0, <1>2, TKill DEF Kill, KillTask, TInv, TypeOK, PC
<1>3. CASE IdleKill
  BY <1>0, <1>3, TKill DEF IdleKill, KillTask, TInv, TypeOK, PC
<1>4. CASE DeleteRow
  BY <1>0, <1>4 DEF DeleteRow, taskVars, callVars, TInv, TypeOK, Placed
<1>5. CASE DeleteHook
  BY <1>0, <1>5, TKill DEF DeleteHook, KillTask, TInv, TypeOK, PC
<1>6. CASE Reset
  BY <1>0, <1>6 DEF Reset, taskVars, callVars, TInv, TypeOK, Placed
<1>7. CASE Crash
  <2>0. slot' \in 0 .. MaxSlots
    BY <1>7, TurnAssumption DEF Crash
  <2>1. TypeOK'
    BY <1>0, <1>7, <2>0 DEF Crash, TInv, TypeOK
  <2>2. Placed'
    BY <1>7 DEF Crash, TInv, TypeOK, Placed, Waiting, Holding
  <2>. QED BY <2>1, <2>2 DEF TInv
<1>. QED BY <1>1, <1>2, <1>3, <1>4, <1>5, <1>6, <1>7

\* Every step keeps the typed invariant.
LEMMA TStep == TInv /\ [Next]_vars => TInv'
<1>. SUFFICES ASSUME TInv, [Next]_vars PROVE TInv'
  OBVIOUS
<1>1. CASE \E c \in Calls : Check(c) \/ Warm(c) \/ CallStep(c)
  BY <1>1, TCall
<1>2. CASE \E p \in Prompts : PromptStep(p)
  BY <1>2, TPrompt
<1>3. CASE Cancel \/ Kill \/ IdleKill \/ DeleteRow \/ DeleteHook \/ Reset \/ Crash
  BY <1>3, TOutside
<1>4. CASE UNCHANGED vars
  BY <1>4 DEF vars, callVars, taskVars, TInv, TypeOK, Placed
<1>. QED BY <1>1, <1>2, <1>3, <1>4 DEF Next

\* Every variable keeps its type, and nobody holds a slot that was not made.
THEOREM TurnTypeCorrect == Spec => []TypeOK
<1>1. TInv => TypeOK
  BY DEF TInv
<1>. QED BY <1>1, TInit, TStep, PTL DEF Spec

-----------------------------------------------------------------------------
(* Which calls are in their relay loop, and what the row says of them. *)

\* Budgets are spent and never given back.
LEMMA UsedGrows ==
  ASSUME TInv, [Next]_vars, NEW k \in Kinds
  PROVE  used[k] \in Nat /\ used'[k] \in Nat /\ used[k] <= used'[k]
<1>1. UNCHANGED used \/ \E kind \in Kinds : Spend(kind)
  <2>1. CASE \E c \in Calls : Check(c) \/ Warm(c) \/ CallStep(c)
    BY <2>1 DEF Check, Warm, CallStep, Store, GetSlot, Enter, Built, Claim, Subscribe,
                RelayEnds, Complete, Kinds
  <2>2. CASE \E p \in Prompts : PromptStep(p)
    BY <2>2 DEF PromptStep, Open, Lock, Answer, Fail, Kinds
  <2>3. CASE Cancel \/ Kill \/ IdleKill \/ DeleteRow \/ DeleteHook \/ Reset \/ Crash
    BY <2>3 DEF Cancel, Kill, IdleKill, DeleteRow, DeleteHook, Reset, Crash, Kinds
  <2>4. CASE UNCHANGED vars
    BY <2>4 DEF vars
  <2>. QED BY <2>1, <2>2, <2>3, <2>4 DEF Next
<1>2. CASE UNCHANGED used
  BY <1>2 DEF TInv, TypeOK
<1>3. ASSUME NEW kind \in Kinds, Spend(kind)
      PROVE  used[k] \in Nat /\ used'[k] \in Nat /\ used[k] <= used'[k]
  <2>1. used \in [Kinds -> Nat] /\ used' = [used EXCEPT ![kind] = @ + 1]
    BY <1>3 DEF TInv, TypeOK, Spend
  <2>. QED BY <2>1
<1>. QED BY <1>1, <1>2, <1>3

\* A terminal event takes no call into its loop or out of it.
LEMMA HeardActive ==
  ASSUME TInv, NEW s, Emit(s) \/ EmitOnce(s), NEW c \in Calls
  PROVE  Active(c)' <=> Active(c)
BY DEF Emit, EmitOnce, Heard, TInv, TypeOK, Active

\* How a call becomes active, and ceases to be.
LEMMA ActiveStep ==
  ASSUME TInv, [Next]_vars, NEW c \in Calls
  PROVE  \/ Active(c)' <=> Active(c)
         \/ Claim(c) /\ Active(c)' /\ row' = "running"
         \/ Complete(c) /\ Active(c) /\ ~Active(c)'
         \/ Crash
<1>1. ASSUME NEW d \in Calls, Check(d) \/ Warm(d) \/ CallStep(d) PROVE
         \/ Active(c)' <=> Active(c)
         \/ Claim(c) /\ Active(c)' /\ row' = "running"
         \/ Complete(c) /\ Active(c) /\ ~Active(c)'
  <2>. USE DEF To, TInv, TypeOK, Active
  <2>1. CASE Check(d) \/ Warm(d) \/ Store(d) \/ GetSlot(d)
    BY <2>1 DEF Check, Warm, Store, GetSlot
  <2>2. CASE Enter(d) \/ Built(d)
    BY <2>2 DEF Enter, Built
  <2>3. CASE Claim(d)
    BY <2>3 DEF Claim
  <2>4. CASE Subscribe(d) \/ RelayEnds(d)
    BY <2>4 DEF Subscribe, RelayEnds
  <2>5. CASE Complete(d)
    BY <2>5 DEF Complete
  <2>. QED BY <1>1, <2>1, <2>2, <2>3, <2>4, <2>5 DEF CallStep
<1>2. CASE \E p \in Prompts : PromptStep(p)
  <2>1. pc' = pc \/ \E s \in 0 .. MaxSlots : Emit(s) \/ EmitOnce(s)
    BY <1>2 DEF PromptStep, Open, Lock, Answer, Fail, Prompts, TInv, TypeOK
  <2>. QED BY <2>1, HeardActive DEF Active
<1>3. CASE Cancel \/ Kill \/ IdleKill \/ DeleteRow \/ DeleteHook \/ Reset
  <2>1. pc' = pc \/ \E s \in 0 .. MaxSlots : Emit(s) \/ EmitOnce(s)
    BY <1>3 DEF Cancel, Kill, IdleKill, DeleteRow, DeleteHook, Reset, KillTask, callVars,
                TInv, TypeOK
  <2>. QED BY <2>1, HeardActive DEF Active
<1>4. CASE UNCHANGED vars
  BY <1>4 DEF vars, callVars, Active
<1>. QED BY <1>1, <1>2, <1>3, <1>4 DEF Next

\* Who changes the row, and how.
LEMMA RowStep ==
  ASSUME TInv, [Next]_vars
  PROVE  \/ row' = row
         \/ \E c \in Calls : Claim(c) /\ row' = "running" /\ Active(c)'
         \/ \E c \in Calls : Complete(c) /\ Active(c) /\ row' = "finished"
         \/ row' = "deleted"
         \/ Reset
<1>1. ASSUME NEW c \in Calls, Check(c) \/ Warm(c) \/ CallStep(c) PROVE
         \/ row' = row
         \/ Claim(c) /\ row' = "running" /\ Active(c)'
         \/ Complete(c) /\ Active(c) /\ row' = "finished"
  BY <1>1 DEF CallStep, Check, Warm, Store, GetSlot, Enter, Built, Claim, Subscribe, RelayEnds,
              Complete, To, Active, TInv, TypeOK
<1>2. CASE \E p \in Prompts : PromptStep(p)
  BY <1>2 DEF PromptStep, Open, Lock, Answer, Fail, PromptUnchanged
<1>3. CASE Cancel \/ Kill \/ IdleKill \/ DeleteRow \/ DeleteHook \/ Crash
  BY <1>3 DEF Cancel, Kill, IdleKill, DeleteRow, DeleteHook, Crash, PromptUnchanged
<1>4. CASE UNCHANGED vars
  BY <1>4 DEF vars
<1>. QED BY <1>1, <1>2, <1>3, <1>4 DEF Next

\* A running conversation has a call that will complete it: only a crash
\* takes the call and leaves the row.
THEOREM RunningStaysBacked == Spec => []RunningIsBacked
<1>1. Init => RunningIsBacked
  BY DEF Init, RunningIsBacked
<1>2. TInv /\ RunningIsBacked /\ [Next]_vars => RunningIsBacked'
  <2>. SUFFICES ASSUME TInv, RunningIsBacked, [Next]_vars, row' = "running",
                       used'["crash"] = 0
                PROVE  \E c \in Calls : Active(c)'
    BY DEF RunningIsBacked
  <2>1. used["crash"] = 0 /\ ~Crash
    <3>1. used["crash"] = 0
      BY UsedGrows DEF Kinds
    <3>2. ASSUME Crash PROVE FALSE
      BY <3>1, <3>2 DEF Crash, Spend, TInv, TypeOK, Kinds
    <3>. QED BY <3>1, <3>2
  <2>2. CASE row = "running"
    <3>1. PICK c \in Calls : Active(c)
      BY <2>1, <2>2 DEF RunningIsBacked
    <3>2. ~Complete(c)
      BY <2>2 DEF Complete
    <3>. QED BY <2>1, <3>1, <3>2, ActiveStep
  <2>3. CASE row # "running"
    BY <2>3, RowStep DEF Reset
  <2>. QED BY <2>2, <2>3
<1>. QED BY <1>1, <1>2, TInit, TStep, PTL DEF Spec

\* Without a race through the check and without a reset, a single call is in
\* its relay loop: this is what keeps its claim from being completed away.
OneActive ==
  ~raced /\ used["reset"] = 0 =>
    \A c, d \in Calls : Active(c) /\ Active(d) => c = d

\* The claim of a call lasts as long as its relay loop.
THEOREM ClaimStaysHeld == Spec => []ClaimIsHeld
<1>. DEFINE IInv == ClaimIsHeld /\ OneActive
<1>1. Init => IInv
  BY DEF Init, ClaimIsHeld, OneActive, Active
<1>2. TInv /\ IInv /\ [Next]_vars => IInv'
  <2>. SUFFICES ASSUME TInv, IInv, [Next]_vars, ~raced', used'["reset"] = 0
                PROVE  /\ \A c \in Calls : Active(c)' => row' \in {"running", "deleted"}
                       /\ \A c, d \in Calls : Active(c)' /\ Active(d)' => c = d
    BY DEF ClaimIsHeld, OneActive
  <2>1. used["reset"] = 0 /\ ~Reset
    <3>1. used["reset"] = 0
      BY UsedGrows DEF Kinds
    <3>2. ASSUME Reset PROVE FALSE
      BY <3>1, <3>2 DEF Reset, Spend, TInv, TypeOK, Kinds
    <3>. QED BY <3>1, <3>2
  <2>2. ~raced
    <3>1. raced' = raced \/ \E c \in Calls : Claim(c)
      BY DEF Next, CallStep, Check, Warm, Store, GetSlot, Enter, Built, Subscribe, RelayEnds,
             Complete, PromptStep, Open, Lock, Answer, Fail, PromptUnchanged, Cancel, Kill,
             IdleKill, DeleteRow, DeleteHook, Crash, Reset, KillTask, vars
    <3>2. \A c \in Calls : Claim(c) => raced' = raced \/ raced' = (raced \/ row = "running")
      BY DEF Claim
    <3>. QED BY <3>1, <3>2 DEF TInv, TypeOK
  <2>3. /\ \A c \in Calls : Active(c) => row \in {"running", "deleted"}
        /\ \A c, d \in Calls : Active(c) /\ Active(d) => c = d
    BY <2>1, <2>2 DEF ClaimIsHeld, OneActive
  <2>4. CASE Crash
    BY <2>4 DEF Crash, Active, TInv, TypeOK
  <2>5. ASSUME NEW c \in Calls, Claim(c), Active(c)', row' = "running", ~Crash
        PROVE  \A d \in Calls : ~Active(d)
    BY <2>2, <2>3, <2>5 DEF Claim, To, Active, TInv, TypeOK
  <2>6. CASE ~Crash
    <3>1. ASSUME NEW c \in Calls, Active(c)' PROVE row' \in {"running", "deleted"}
      <4>1. CASE Active(c)
        <5>1. row \in {"running", "deleted"}
          BY <2>3, <4>1
        <5>2. ASSUME NEW d \in Calls, Complete(d), Active(d) PROVE FALSE
          <6>1. d = c
            BY <2>3, <4>1, <5>2
          <6>. QED BY <3>1, <5>2, <6>1 DEF Complete, To, Active, TInv, TypeOK
        <5>. QED BY <2>1, <5>1, <5>2, RowStep
      <4>2. CASE ~Active(c)
        BY <2>6, <3>1, <4>2, ActiveStep
      <4>. QED BY <4>1, <4>2
    <3>2. ASSUME NEW c \in Calls, NEW d \in Calls, Active(c)', Active(d)', c # d PROVE FALSE
      <4>1. ~Active(c) \/ ~Active(d)
        BY <2>3, <3>2
      <4>2. ASSUME NEW a \in Calls, NEW b \in Calls, a # b, ~Active(a), Active(a)', Active(b)'
            PROVE  FALSE
        <5>1. Claim(a) /\ row' = "running"
          BY <2>6, <4>2, ActiveStep
        <5>2. ~Active(b)
          BY <2>5, <2>6, <4>2, <5>1
        <5>. QED BY <4>2, <5>1, <5>2 DEF Claim, To, Active, TInv, TypeOK
      <4>. QED BY <3>2, <4>1, <4>2
    <3>. QED BY <3>1, <3>2
  <2>. QED BY <2>4, <2>6
<1>3. IInv => ClaimIsHeld
  OBVIOUS
<1>. QED BY <1>1, <1>2, <1>3, TInit, TStep, PTL DEF Spec

-----------------------------------------------------------------------------
(* Relays of an aionrs agent *)

\* What RelayIsOwed says of one call.
Owed(c) ==
  pc[c] = "listen" =>
    \/ prompt[<<c, round[c]>>] = "spawned"
    \/ status[at[c]] = "running" /\ Outstanding(at[c]) # {}

\* A terminal event from slot s leaves no relay of s listening, if the status
\* was not Finished, and none of its relays without a spawned prompt, if it was.
LEMMA EmitOwed ==
  ASSUME TInv, NEW s \in Slots, Emit(s) \/ EmitOnce(s), UNCHANGED <<at, round>>,
         NEW c \in Calls, Owed(c), pc'[c] = "listen",
         NEW P \in SUBSET Prompts,
         \A p \in P : at[p[1]] = s /\ prompt[p] = "running",
         \A p \in Prompts \ P : prompt'[p] = prompt[p]
  PROVE  Owed(c)'
<1>1. pc[c] = "listen"
  BY DEF Emit, EmitOnce, Heard, TInv, TypeOK
<1>2. CASE prompt[<<c, round[c]>>] = "spawned"
  <2>1. <<c, round[c]>> \in Prompts \ P
    BY <1>1, <1>2 DEF TInv, Placed, Prompts
  <2>2. prompt'[<<c, round[c]>>] = "spawned"
    BY <1>2, <2>1
  <2>. QED BY <2>2 DEF Owed
<1>3. CASE status[at[c]] = "running" /\ Outstanding(at[c]) # {}
  <2>1. at[c] # s
    BY <1>1, <1>3 DEF Emit, EmitOnce, Heard, TInv, TypeOK
  <2>2. Outstanding(at[c])' = Outstanding(at[c])
    BY <2>1 DEF Outstanding
  <2>3. status'[at[c]] = "running"
    <3>1. at[c] \in Slots
      BY <1>1 DEF TInv, Placed, Holding
    <3>2. status' = [status EXCEPT ![s] = "finished"]
      BY DEF Emit, EmitOnce
    <3>. QED BY <1>3, <2>1, <3>1, <3>2 DEF TInv, TypeOK
  <2>4. Outstanding(at[c])' # {}
    BY <1>3, <2>2
  <2>. QED BY <2>3, <2>4 DEF Owed
<1>. QED BY <1>1, <1>2, <1>3 DEF Owed

\* After a step of a call each relay that listens is owed its end.
LEMMA OwedCall ==
  ASSUME TInv, NEW d \in Calls, Check(d) \/ Warm(d) \/ CallStep(d),
         NEW c \in Calls, Owed(c), pc'[c] = "listen"
  PROVE  Owed(c)'
<1>. USE DEF To
<1>1. CASE Subscribe(d)
  <2>1. CASE c = d
    <3>1. round[c] < MaxRounds /\ pc[c] = "loop"
      BY <1>1, <2>1 DEF Subscribe, TInv, TypeOK
    <3>2. <<c, round[c] + 1>> \in Prompts
      BY <3>1, TurnAssumption DEF Prompts, Rounds, TInv, TypeOK
    <3>. QED BY <1>1, <2>1, <3>1, <3>2 DEF Subscribe, Owed, TInv, TypeOK
  <2>2. CASE c # d
    <3>1. pc[c] = "listen" /\ round'[c] = round[c] /\ at' = at /\ status' = status
      BY <1>1, <2>2 DEF Subscribe, taskVars, TInv, TypeOK
    <3>2. \A p \in Prompts : prompt'[p] = prompt[p] \/ prompt'[p] = "spawned"
      BY <1>1 DEF Subscribe, TInv, TypeOK
    <3>3. Outstanding(at[c]) \subseteq Outstanding(at[c])'
      BY <3>1, <3>2 DEF Outstanding
    <3>4. <<c, round[c]>> \in Prompts
      BY <3>1 DEF Prompts, TInv, Placed
    <3>. QED BY <3>1, <3>2, <3>3, <3>4 DEF Owed
  <2>. QED BY <2>1, <2>2
<1>2. CASE GetSlot(d)
  <2>1. c # d /\ pc[c] = "listen" /\ at'[c] = at[c] /\ at[c] # 0
    BY <1>2 DEF GetSlot, TInv, TypeOK, Placed, Holding, Slots
  <2>2. at[d] = 0
    BY <1>2 DEF GetSlot, TInv, Placed, Waiting
  <2>3. Outstanding(at[c]) \subseteq Outstanding(at[c])'
    BY <1>2, <2>1, <2>2 DEF Outstanding, GetSlot, TInv, TypeOK, Prompts
  <2>. QED BY <1>2, <2>1, <2>3 DEF Owed, GetSlot
<1>3. CASE ~Subscribe(d) /\ ~GetSlot(d)
  <2>1. pc[c] = "listen" /\ UNCHANGED <<round, at, prompt, status>>
    BY <1>3 DEF CallStep, Check, Warm, Store, Enter, Built, Claim, RelayEnds, Complete,
                taskVars, TInv, TypeOK
  <2>. QED BY <2>1 DEF Owed, Outstanding
<1>. QED BY <1>1, <1>2, <1>3

\* After a step of a prompt of aionrs a relay that listens still is.
LEMMA OwedPrompt ==
  ASSUME TInv, type = "aionrs", NEW p \in Prompts, PromptStep(p),
         NEW c \in Calls, Owed(c), pc'[c] = "listen"
  PROVE  Owed(c)'
<1>. DEFINE s == at[p[1]]
<1>. USE DEF Becomes, PromptUnchanged
<1>0. prompt[p] # "no" => s \in Slots
  BY DEF TInv, Placed
<1>1. CASE Open(p)
  <2>1. /\ pc[c] = "listen" /\ UNCHANGED <<round, at>> /\ s \in Slots
        /\ prompt[p] = "spawned" /\ prompt' = [prompt EXCEPT ![p] = "queued"]
        /\ status' = [status EXCEPT ![s] = "running"]
    BY <1>0, <1>1 DEF Open
  <2>2. \A t \in Slots : Outstanding(t)' = Outstanding(t)
    BY <2>1 DEF Outstanding, TInv, TypeOK
  <2>3. at[c] \in Slots
    BY <2>1 DEF TInv, Placed, Holding
  <2>4. CASE p = <<c, round[c]>>
    <3>1. p[1] = c /\ p \in Outstanding(at[c])
      BY <2>1, <2>4 DEF Outstanding
    <3>2. status'[at[c]] = "running"
      BY <2>1, <3>1 DEF TInv, TypeOK
    <3>. QED BY <2>1, <2>2, <2>3, <3>1, <3>2 DEF Owed
  <2>5. CASE p # <<c, round[c]>>
    <3>1. prompt'[<<c, round[c]>>] = prompt[<<c, round[c]>>]
      BY <2>1, <2>5 DEF TInv, TypeOK, Placed, Prompts
    <3>2. status[at[c]] = "running" => status'[at[c]] = "running"
      BY <2>1, <2>3 DEF TInv, TypeOK
    <3>. QED BY <2>1, <2>2, <2>3, <3>1, <3>2 DEF Owed
  <2>. QED BY <2>4, <2>5
<1>2. CASE Lock(p)
  <2>1. /\ pc[c] = "listen" /\ UNCHANGED <<round, at, status>>
        /\ prompt[p] = "queued" /\ prompt' = [prompt EXCEPT ![p] = "running"]
    BY <1>2 DEF Lock
  <2>2. Outstanding(at[c])' = Outstanding(at[c])
    BY <2>1 DEF Outstanding, TInv, TypeOK
  <2>3. prompt[<<c, round[c]>>] = "spawned" => prompt'[<<c, round[c]>>] = "spawned"
    BY <2>1 DEF TInv, TypeOK
  <2>. QED BY <2>1, <2>2, <2>3 DEF Owed
<1>3. CASE Answer(p) \/ Fail(p)
  <2>1. /\ prompt[p] = "running" /\ prompt' = [prompt EXCEPT ![p] = "done"]
        /\ EmitOnce(s) /\ UNCHANGED <<at, round>>
    BY <1>3 DEF Answer, Fail
  <2>2. /\ {p} \in SUBSET Prompts
        /\ \A q \in {p} : at[q[1]] = s /\ prompt[q] = "running"
        /\ \A q \in Prompts \ {p} : prompt'[q] = prompt[q]
    BY <2>1 DEF TInv, TypeOK
  <2>. QED BY <1>0, <2>1, <2>2, EmitOwed
<1>. QED BY <1>1, <1>2, <1>3 DEF PromptStep

\* And after what comes from outside.
LEMMA OwedOutside ==
  ASSUME TInv, type = "aionrs",
         Cancel \/ Kill \/ IdleKill \/ DeleteRow \/ DeleteHook \/ Reset \/ Crash,
         NEW c \in Calls, Owed(c), pc'[c] = "listen"
  PROVE  Owed(c)'
<1>1. CASE Cancel
  <2>. DEFINE P == {p \in Outstanding(slot) : prompt[p] = "running"}
  <2>1. slot \in Slots /\ Emit(slot) /\ UNCHANGED <<at, round>>
    BY <1>1 DEF Cancel, PromptUnchanged, TInv, TypeOK, Slots
  <2>2. /\ P \in SUBSET Prompts
        /\ \A p \in P : at[p[1]] = slot /\ prompt[p] = "running"
        /\ \A p \in Prompts \ P : prompt'[p] = prompt[p]
    BY <1>1 DEF Cancel, Outstanding, TInv, TypeOK
  <2>. QED BY <2>1, <2>2, EmitOwed
<1>2. CASE Kill \/ IdleKill \/ DeleteRow \/ DeleteHook \/ Reset
  <2>1. UNCHANGED <<pc, round, at, prompt, status>>
    BY <1>2 DEF Kill, IdleKill, DeleteRow, DeleteHook, Reset, KillTask, callVars, taskVars
  <2>. QED BY <2>1 DEF Owed, Outstanding
<1>3. CASE Crash
  BY <1>3 DEF Crash, TInv, TypeOK
<1>. QED BY <1>1, <1>2, <1>3

\* A relay that waits on an aionrs agent will be told of an outcome: whatever
\* calls, stops, kills and resets happen, in any number.
THEOREM RelayStaysOwed == Spec => []RelayIsOwed
<1>1. Init => RelayIsOwed
  BY DEF Init, RelayIsOwed
<1>2. TInv /\ RelayIsOwed /\ [Next]_vars => RelayIsOwed'
  <2>. SUFFICES ASSUME TInv, RelayIsOwed, [Next]_vars, type' = "aionrs",
                       NEW c \in Calls, pc'[c] = "listen"
                PROVE  Owed(c)'
    BY DEF RelayIsOwed, Owed
  <2>1. type = "aionrs"
    BY DEF Next, CallStep, Check, Warm, Store, GetSlot, Enter, Built, Claim, Subscribe, RelayEnds,
           Complete, PromptStep, Open, Lock, Answer, Fail, PromptUnchanged, Cancel, Kill,
           IdleKill, DeleteRow, DeleteHook, Crash, Reset, KillTask, vars
  <2>2. Owed(c)
    BY <2>1 DEF RelayIsOwed, Owed
  <2>3. CASE UNCHANGED vars
    BY <2>2, <2>3 DEF vars, callVars, taskVars, Owed, Outstanding
  <2>. QED BY <2>1, <2>2, <2>3, OwedCall, OwedPrompt, OwedOutside DEF Next
<1>. QED BY <1>1, <1>2, TInit, TStep, PTL DEF Spec

-----------------------------------------------------------------------------
(* What a delete leaves *)

\* Calls past the check that have no agent yet.
OnTheWay == {"stored", "held", "building"}

\* If nobody was on the way when the row went, nobody is later: the check,
\* the message's foreign key and the warmup all need the row.
NobodyComes ==
  row = "deleted" /\ late = {} => \A c \in Calls : pc[c] \notin OnTheWay

\* Once the row is deleted nobody else is late.
LEMMA LateStays == ASSUME [Next]_vars, row = "deleted" PROVE late' = late
BY DEF Next, CallStep, Check, Warm, Store, GetSlot, Enter, Built, Claim, Subscribe, RelayEnds,
   Complete, PromptStep, Open, Lock, Answer, Fail, PromptUnchanged, Cancel, Kill, IdleKill,
   DeleteRow, DeleteHook, Crash, Reset, vars

\* A step that finds the row deleted takes nobody on the way and makes no slot
\* for nobody; the hook and a crash are what ends the deletion.
LEMMA AfterDelete ==
  ASSUME TInv, [Next]_vars, row = "deleted", \A c \in Calls : pc[c] \notin OnTheWay
  PROVE  /\ row' = "deleted" /\ late' = late
         /\ \A c \in Calls : pc'[c] \notin OnTheWay
         /\ slot' = 0 \/ (slot' = slot /\ deleting' = deleting)
<1>. USE DEF OnTheWay, TInv, TypeOK
<1>1. ASSUME NEW d \in Calls, Check(d) \/ Warm(d) \/ CallStep(d) PROVE
         /\ row' = "deleted" /\ late' = late
         /\ \A c \in Calls : pc'[c] \notin OnTheWay
         /\ slot' = slot /\ deleting' = deleting
  BY <1>1 DEF CallStep, Check, Warm, Store, GetSlot, Enter, Built, Claim, Subscribe, RelayEnds,
              Complete, To, taskVars
<1>2. ASSUME NEW s \in 0 .. MaxSlots, Emit(s) \/ EmitOnce(s), NEW c \in Calls
      PROVE  pc'[c] \notin OnTheWay
  BY <1>2 DEF Emit, EmitOnce, Heard
<1>3. CASE \E p \in Prompts : PromptStep(p)
  <2>1. /\ row' = row /\ late' = late /\ slot' = slot /\ deleting' = deleting
        /\ pc' = pc \/ \E s \in 0 .. MaxSlots : Emit(s) \/ EmitOnce(s)
    BY <1>3 DEF PromptStep, Open, Lock, Answer, Fail, PromptUnchanged, Prompts
  <2>. QED BY <1>2, <2>1
<1>4. CASE Cancel
  BY <1>2, <1>4 DEF Cancel, PromptUnchanged
<1>5. CASE Kill \/ IdleKill \/ DeleteHook
  <2>1. /\ row' = row /\ late' = late /\ slot' = 0
        /\ pc' = pc \/ \E s \in 0 .. MaxSlots : EmitOnce(s)
    BY <1>5 DEF Kill, IdleKill, DeleteHook, KillTask
  <2>. QED BY <1>2, <2>1
<1>6. CASE DeleteRow \/ Reset \/ Crash
  BY <1>6 DEF DeleteRow, Reset, Crash
<1>7. CASE UNCHANGED vars
  BY <1>7 DEF vars, callVars, taskVars
<1>. QED BY <1>1, <1>3, <1>4, <1>5, <1>6, <1>7 DEF Next

\* The row goes in one step, which says who was on the way.
LEMMA RowGoes ==
  ASSUME TInv, [Next]_vars, row # "deleted", row' = "deleted"
  PROVE  /\ late' = {c \in Calls : pc[c] \in OnTheWay}
         /\ pc' = pc /\ deleting'
<1>1. DeleteRow
  BY RowStep DEF Next, CallStep, Check, Warm, Store, GetSlot, Enter, Built, Claim, Subscribe,
     RelayEnds, Complete, PromptStep, Open, Lock, Answer, Fail, PromptUnchanged, Cancel, Kill,
     IdleKill, DeleteHook, Crash, Reset, KillTask, vars
<1>. QED BY <1>1 DEF DeleteRow, OnTheWay, callVars

\* A delete tears the conversation's slot down for good, whatever calls, kills
\* and crashes come between the row and the hooks, unless a call was on its
\* way to an agent when the row went.
THEOREM DeleteLeavesNoSlot == Spec => []DeleteTearsDown
<1>. DEFINE IInv == NobodyComes /\ DeleteTearsDown
<1>1. Init => IInv
  BY DEF Init, NobodyComes, DeleteTearsDown
<1>2. TInv /\ IInv /\ [Next]_vars => IInv'
  <2>. SUFFICES ASSUME TInv, IInv, [Next]_vars, row' = "deleted", late' = {}
                PROVE  /\ \A c \in Calls : pc'[c] \notin OnTheWay
                       /\ ~deleting' => slot' = 0
    BY DEF NobodyComes, DeleteTearsDown
  <2>1. CASE row = "deleted"
    <3>1. \A c \in Calls : pc[c] \notin OnTheWay
      <4>1. late = {}
        BY <2>1, LateStays
      <4>. QED BY <2>1, <4>1 DEF NobodyComes
    <3>2. /\ late' = late
          /\ \A c \in Calls : pc'[c] \notin OnTheWay
          /\ slot' = 0 \/ (slot' = slot /\ deleting' = deleting)
      BY <2>1, <3>1, AfterDelete
    <3>. QED BY <2>1, <3>2 DEF DeleteTearsDown
  <2>2. CASE row # "deleted"
    BY <2>2, RowGoes
  <2>. QED BY <2>1, <2>2
<1>3. IInv => DeleteTearsDown
  OBVIOUS
<1>. QED BY <1>1, <1>2, <1>3, TInit, TStep, PTL DEF Spec

=============================================================================
