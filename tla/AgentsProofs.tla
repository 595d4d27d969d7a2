---------------------------- MODULE AgentsProofs ----------------------------
(***************************************************************************)
(* Proofs about Agents, one service after the other; each ends in theorems *)
(* on the whole group, which implements each of its services.              *)
(*                                                                         *)
(* Permissions: a question that waits is in the hands of somebody: in the  *)
(* channel, with the router, or announced to a reader or missed by it; and *)
(* behind the end of a turn in the channel of events there is nothing that *)
(* was not counted as missed.                                              *)
(* Sessions: the row, once the events in the channel and what the consumer *)
(* has in hand are written, says what was observed last; and what is taken *)
(* for observed is where the command-line agent is once its announcements  *)
(* and the one answered request have come in.                              *)
(* Gateway: each message is sent once and starts one run, whose end is in  *)
(* one place, on the wire, in the channel or in the hands of the relay,    *)
(* until it is told.  A second turn meets an agent that has finished, so   *)
(* failures and stops end the first turn only; and while no frame was      *)
(* taken without a key, only frames of the own session pass.               *)
(***************************************************************************)
EXTENDS Agents, Integers, SequenceTheorems, FiniteSetTheorems, WellFoundedInduction, TLAPS

-----------------------------------------------------------------------------
(* The questions for permission: AcpPermissions.                           *)

\* What waits behind an end of the event channel is lost to its reader, and
\* counted as missed.
EndsCut ==
  reader = "reads" =>
    \A i, j \in 1 .. Len(announced) : i < j /\ announced[i] = Permission!End
      /\ announced[j] # Permission!End => announced[j] \in missed

\* The router tells of a request there is; no more prompts than turns.
Telling == router[1] # "recv" => router[2] \in Permission!Asks
Prompted == prompts <= turns

PermissionIInv == Permission!TypeOK /\ EndsCut /\ Telling /\ Prompted /\ Permission!AskIsHeard

AskState == [call : Pair, team : BOOLEAN, state : Permission!States]

-----------------------------------------------------------------------------

\* A receiver's channel keeps the newest.
LEMMA KeepFacts ==
  ASSUME Permission!PermissionAssumption, NEW S, NEW q \in Seq(S)
  PROVE  /\ Permission!Keep(q) \in Seq(S) /\ Len(Permission!Keep(q)) <= AskCapacity
         /\ \E k \in 0 .. Len(q) :
              /\ Len(Permission!Keep(q)) = Len(q) - k
              /\ \A i \in 1 .. Len(Permission!Keep(q)) : Permission!Keep(q)[i] = q[i + k]
              /\ k < Len(q) \/ Len(q) = 0
<1>1. Len(q) \in Nat /\ AskCapacity \in Nat \ {0} BY DEF Permission!PermissionAssumption
<1>2. CASE Len(q) > AskCapacity
  <2> DEFINE k == Len(q) - AskCapacity
  <2>1. k + 1 \in 1 .. Len(q) + 1 /\ k \in 0 .. Len(q) /\ k < Len(q) BY <1>1, <1>2
  <2>2. Permission!Keep(q) = SubSeq(q, k + 1, Len(q)) BY <1>2 DEF Permission!Keep
  <2>3. /\ SubSeq(q, k + 1, Len(q)) \in Seq(S)
        /\ Len(SubSeq(q, k + 1, Len(q))) = Len(q) - k
        /\ \A i \in 1 .. Len(q) - k : SubSeq(q, k + 1, Len(q))[i] = q[k + 1 + i - 1]
    BY <1>1, <2>1, SubSeqProperties
  <2>4. \A i \in 1 .. Len(q) - k : k + 1 + i - 1 = i + k BY <1>1, <2>1
  <2>5. Len(q) - k <= AskCapacity BY <1>1
  <2>6. \A i \in 1 .. Len(q) - k : Permission!Keep(q)[i] = q[i + k] BY <2>2, <2>3, <2>4
  <2> QED BY <2>1, <2>2, <2>3, <2>5, <2>6
<1>3. CASE ~(Len(q) > AskCapacity)
  <2>1. Permission!Keep(q) = q BY <1>3 DEF Permission!Keep
  <2>2. \A i \in 1 .. Len(q) : i + 0 = i OBVIOUS
  <2> QED BY <1>1, <1>3, <2>1, <2>2
<1> QED BY <1>2, <1>3

\* What is in a sequence is at some place of it.
LEMMA InSeq ==
  ASSUME NEW S, NEW q \in Seq(S), NEW e
  PROVE  (e \in Permission!ToSet(q)) <=> (\E i \in 1 .. Len(q) : q[i] = e)
BY LenProperties DEF Permission!ToSet

\* Sending to the reader: what it does not get is missed, and so is what
\* comes behind an end.
LEMMA EmitFacts ==
  ASSUME Permission!PermissionAssumption, Permission!TypeOK, EndsCut,
           NEW s \in Seq(0 .. Len(ask)), Permission!Emit(s), Permission!Asks' = Permission!Asks,
         reader' = reader
  PROVE  /\ announced' \in Seq(0 .. Len(ask)) /\ Len(announced') <= AskCapacity
         /\ missed' \subseteq Permission!Asks /\ missed \subseteq missed'
         /\ reader # "none" =>
              \A n \in Permission!Asks : n \in Permission!ToSet(announced)
                \/ n \in Permission!ToSet(s) => n \in Permission!ToSet(announced') \cup missed'
         /\ reader = "ended" => \A n \in Permission!Asks : n \in Permission!ToSet(s) => n \in missed'
         /\ EndsCut' \/ \E i, j \in 1 .. Len(s) : i < j /\ s[i] = Permission!End
              /\ s[j] # Permission!End
<1> USE DEF Permission!Asks, Permission!End
<1> DEFINE all == announced \o s
<1>0. Len(announced) \in Nat /\ Len(s) \in Nat /\ Len(ask) \in Nat /\ announced \in Seq(0 .. Len(ask))
  BY DEF Permission!TypeOK
<1>1. /\ all \in Seq(0 .. Len(ask)) /\ Len(all) = Len(announced) + Len(s)
      /\ \A i \in 1 .. Len(announced) : all[i] = announced[i]
      /\ \A i \in 1 .. Len(s) : all[Len(announced) + i] = s[i]
  BY <1>0, ConcatProperties
<1> HIDE DEF all
<1>1a. \A i \in Len(announced) + 1 .. Len(all) : i - Len(announced) \in 1 .. Len(s)
         /\ all[i] = s[i - Len(announced)]
  <2> TAKE i \in Len(announced) + 1 .. Len(all)
  <2>1. i - Len(announced) \in 1 .. Len(s) /\ Len(announced) + (i - Len(announced)) = i BY <1>0, <1>1
  <2> QED BY <1>1, <2>1
<1>2. CASE reader = "none"
  <2>1. announced' = announced /\ missed' = missed BY <1>2 DEF Permission!Emit
  <2> QED BY <1>0, <1>2, <2>1 DEF Permission!TypeOK, EndsCut
<1>3. CASE reader # "none"
  <2>1. announced' = Permission!Keep(all) BY <1>3 DEF Permission!Emit, all
  <2>2. missed' = missed \cup (Permission!ToSet(all) \ (Permission!ToSet(announced') \cup {0}))
                         \cup (IF reader = "ended"
                           \/ 0 \in Permission!ToSet(announced) THEN Permission!ToSet(s) \ {0} ELSE {})
    BY <1>3 DEF Permission!Emit, all
  <2>3. announced' \in Seq(0 .. Len(ask)) /\ Len(announced') <= AskCapacity BY <1>1, <2>1, KeepFacts
  <2>3a. PICK k \in 0 .. Len(all) :
              /\ Len(announced') = Len(all) - k
              /\ \A i \in 1 .. Len(announced') : announced'[i] = all[i + k]
    BY <1>1, <2>1, KeepFacts
  <2>4. Permission!ToSet(all) \subseteq 0 .. Len(ask) /\ Permission!ToSet(s) \subseteq 0 .. Len(ask)
        /\ Permission!ToSet(announced) \subseteq Permission!ToSet(all)
             /\ Permission!ToSet(s) \subseteq Permission!ToSet(all)
    <3>1. Permission!ToSet(all) \subseteq 0 .. Len(ask) BY <1>1, InSeq, ElementOfSeq
    <3>2. Permission!ToSet(s) \subseteq 0 .. Len(ask) BY InSeq, ElementOfSeq
    <3>3. \A i \in 1 .. Len(announced) : i \in 1 .. Len(all) BY <1>0, <1>1
    <3>4. \A i \in 1 .. Len(s) : Len(announced) + i \in 1 .. Len(all) BY <1>0, <1>1
    <3>5. ASSUME NEW e \in Permission!ToSet(announced) PROVE e \in Permission!ToSet(all)
      <4>1. PICK i \in 1 .. Len(announced) : announced[i] = e BY <1>0, <3>5, InSeq
      <4>2. all[i] = e /\ i \in 1 .. Len(all) BY <4>1, <1>1, <3>3
      <4> QED BY <4>2, <1>1, InSeq
    <3>6. ASSUME NEW e \in Permission!ToSet(s) PROVE e \in Permission!ToSet(all)
      <4>1. PICK i \in 1 .. Len(s) : s[i] = e BY <3>6, InSeq
      <4>2. all[Len(announced) + i] = e /\ Len(announced) + i \in 1 .. Len(all) BY <4>1, <1>1, <3>4
      <4> QED BY <4>2, <1>1, InSeq
    <3> QED BY <3>1, <3>2, <3>5, <3>6
  <2>5. missed' \subseteq Permission!Asks /\ missed \subseteq missed'
    <3>1. missed \subseteq 1 .. Len(ask) BY DEF Permission!TypeOK
    <3>2. \A e \in 0 .. Len(ask) : e # 0 => e \in 1 .. Len(ask) BY <1>0
    <3>3. Permission!ToSet(all) \ (Permission!ToSet(announced') \cup {0}) \subseteq 1 .. Len(ask)
      BY <2>4, <3>2
    <3>4. Permission!ToSet(s) \ {0} \subseteq 1 .. Len(ask) BY <2>4, <3>2
    <3> QED BY <2>2, <3>1, <3>3, <3>4
  <2>6. \A n \in Permission!Asks : n \in Permission!ToSet(announced) \/ n \in Permission!ToSet(s)
          => n \in Permission!ToSet(announced') \cup missed'
    BY <1>0, <2>2, <2>4
  <2>7. reader = "ended" => \A n \in Permission!Asks : n \in Permission!ToSet(s) => n \in missed'
    BY <1>0, <2>2
  <2>8. ASSUME ~(\E i, j \in 1 .. Len(s) : i < j /\ s[i] = 0 /\ s[j] # 0) PROVE EndsCut'
    <3> SUFFICES ASSUME reader = "reads", NEW i \in 1 .. Len(announced'),
          NEW j \in 1 .. Len(announced'),
                        i < j, announced'[i] = 0, announced'[j] # 0
                 PROVE  announced'[j] \in missed'
      BY DEF EndsCut
    <3>0. /\ Len(all) \in Nat /\ Len(announced') = Len(all) - k
          /\ i \in 1 .. Len(all) - k /\ j \in 1 .. Len(all) - k
      BY <1>1, <2>3a
    <3>0a. i + k \in 1 .. Len(all) /\ j + k \in 1 .. Len(all) /\ i + k < j + k BY <3>0
    <3>0b. all[i + k] = 0 /\ all[j + k] # 0 /\ announced'[j] = all[j + k] BY <2>3a
    <3>1. /\ i + k \in 1 .. Len(all) /\ j + k \in 1 .. Len(all) /\ i + k < j + k
          /\ all[i + k] = 0 /\ all[j + k] # 0 /\ announced'[j] = all[j + k]
      BY <3>0a, <3>0b
    <3>2. CASE j + k <= Len(announced)
      <4>1. i + k \in 1 .. Len(announced) /\ j + k \in 1 .. Len(announced) BY <1>0, <1>1, <3>1, <3>2
      <4>2. announced[i + k] = 0 /\ announced[j + k] # 0 /\ announced'[j] = announced[j + k]
        BY <1>1, <3>1, <4>1
      <4>3. announced[j + k] \in missed BY <3>1, <4>1, <4>2 DEF EndsCut
      <4> QED BY <2>5, <4>2, <4>3
    <3>3. CASE ~(j + k <= Len(announced))
      <4>1. j + k \in Len(announced) + 1 .. Len(all) BY <1>0, <1>1, <3>1, <3>3
      <4>2. j + k - Len(announced) \in 1 .. Len(s) /\ announced'[j] = s[j + k - Len(announced)]
        BY <1>1a, <3>1, <4>1
      <4>3. announced'[j] \in Permission!ToSet(s) BY <4>2, InSeq
      <4>4. 0 \in Permission!ToSet(announced)
        <5>1. CASE i + k <= Len(announced)
          <6>1. i + k \in 1 .. Len(announced) BY <1>0, <1>1, <3>1, <5>1
          <6>2. announced[i + k] = 0 BY <1>1, <3>1, <6>1
          <6> QED BY <1>0, <6>1, <6>2, InSeq
        <5>2. CASE ~(i + k <= Len(announced))
          <6>1. i + k \in Len(announced) + 1 .. Len(all) BY <1>0, <1>1, <3>1, <5>2
          <6> DEFINE p == i + k
          <6>1a. p \in Len(announced) + 1 .. Len(all) /\ all[p] = 0 BY <3>1, <6>1
          <6> HIDE DEF p
          <6>1b. p - Len(announced) \in 1 .. Len(s) /\ s[p - Len(announced)] = 0 BY <1>1a, <6>1a
          <6> USE DEF p
          <6>2. i + k - Len(announced) \in 1 .. Len(s) /\ s[i + k - Len(announced)] = 0 BY <6>1b
          <6>3. i + k - Len(announced) < j + k - Len(announced) BY <1>0, <1>1, <3>1
          <6> QED BY <2>8, <6>2, <6>3, <4>2, <3>1
        <5> QED BY <5>1, <5>2
      <4> QED BY <2>2, <4>3, <4>4
    <3> QED BY <3>2, <3>3, <1>0, <1>1, <3>1
  <2> QED BY <2>3, <2>5, <2>6, <2>7, <2>8, <1>3
<1> QED BY <1>2, <1>3

-----------------------------------------------------------------------------
\* What using responders does.
LEMMA SettleFacts ==
  ASSUME Permission!TypeOK, NEW used,
           NEW state \in {"answered", "cancelled"}, Permission!Settle(used, state)
  PROVE  /\ ask' \in Seq(AskState) /\ Len(ask') = Len(ask) /\ Permission!Asks' = Permission!Asks
         /\ \A n \in Permission!Asks : /\ ask'[n].call = ask[n].call
                                       /\ ask'[n].state = "waiting"
                                            => ask[n].state = "waiting" /\ n \notin used
<1> USE DEF Permission!Asks, AskState
<1>0. ask \in Seq(AskState) BY DEF Permission!TypeOK
<1>1. Len(ask) \in Nat /\ ask \in [1 .. Len(ask) -> AskState] /\ ask \in Seq(AskState)
  BY <1>0, LenProperties
<1>2. \A n \in 1 .. Len(ask) : ask[n] \in AskState BY <1>1
<1>3. ask' = [n \in 1 .. Len(ask) |-> IF n \in used /\ ask[n].state = "waiting"
                                      THEN [ask[n] EXCEPT !.state = state] ELSE ask[n]]
  BY DEF Permission!Settle
<1>4. \A n \in 1 .. Len(ask) : ask'[n] \in AskState
  BY <1>2, <1>3 DEF Permission!States
<1>5. ask' \in [1 .. Len(ask) -> AskState] BY <1>3, <1>4
<1>6. ask' \in Seq(AskState) /\ Len(ask') = Len(ask)
  <2>1. ask' \in Seq(AskState) BY <1>1, <1>5, SeqDef
  <2>2. DOMAIN ask' = 1 .. Len(ask) BY <1>5
  <2> QED BY <1>1, <2>1, <2>2, LenProperties
<1>7. ASSUME NEW n \in 1 .. Len(ask)
      PROVE  /\ ask'[n].call = ask[n].call
             /\ ask'[n].state = "waiting" => ask[n].state = "waiting" /\ n \notin used
  <2>1. CASE n \in used /\ ask[n].state = "waiting"
    <3>1. ask'[n] = [ask[n] EXCEPT !.state = state] BY <1>3, <2>1
    <3>2. ask[n] \in [call : Pair, team : BOOLEAN, state : Permission!States] BY <1>2
    <3>3. ask'[n].call = ask[n].call /\ ask'[n].state = state BY <3>1, <3>2
    <3> QED BY <3>3
  <2>2. CASE ~(n \in used /\ ask[n].state = "waiting")
    <3>1. ask'[n] = ask[n] BY <1>3, <2>2
    <3> QED BY <3>1, <2>2
  <2> QED BY <2>1, <2>2
<1> QED BY <1>6, <1>7

\* At the start nothing is asked.
LEMMA PermissionInitial == ASSUME Permission!PermissionAssumption, Permission!Init
  PROVE PermissionIInv
<1>1. ask = <<>> /\ Len(ask) = 0 BY DEF Permission!Init
<1>2. Permission!TypeOK
  <2>1. /\ ask \in Seq([call : Pair, team : BOOLEAN, state : Permission!States]) /\ Len(ask) <= MaxAsks
        /\ prompts \in 0 .. MaxPrompts /\ turns \in 0 .. MaxPrompts /\ stops \in 0 .. MaxStops
    BY <1>1 DEF Permission!Init, Permission!PermissionAssumption
  <2>2. 0 \in 0 .. Len(ask) BY <1>1
  <2>3. asking \in Seq(Permission!Asks) /\ Len(asking) <= Room /\ announced \in Seq(0 .. Len(ask))
          /\ Len(announced) <= AskCapacity
    BY DEF Permission!Init, Permission!PermissionAssumption
  <2>4. router \in {"recv", "tell", "undo"} \X (0 .. Len(ask)) /\ pending \in [Pair -> 0 .. Len(ask)]
    BY <2>2 DEF Permission!Init
  <2> QED BY <2>1, <2>3, <2>4 DEF Permission!Init, Permission!TypeOK
<1>3. EndsCut BY DEF Permission!Init, EndsCut
<1>4. Telling /\ Prompted BY DEF Permission!Init, Telling, Prompted
<1>5. Permission!AskIsHeard BY <1>1 DEF Permission!AskIsHeard, Permission!Asks
<1> QED BY <1>2, <1>3, <1>4, <1>5 DEF PermissionIInv

\* Sending to the relay, and nothing else, disturbs no request.
LEMMA SendingKeeps ==
  ASSUME Permission!PermissionAssumption, PermissionIInv,
           NEW s \in Seq(0 .. Len(ask)), Permission!Emit(s),
         ~(\E i, j \in 1 .. Len(s) : i < j /\ s[i] = Permission!End /\ s[j] # Permission!End),
         UNCHANGED <<ask, asking, pending, reader, shown, killed, agentUp, turns, stops>>,
         \/ router' = router
         \/ router[1] = "tell" /\ router' = <<"recv", 0>> /\ reader # "none"
              /\ router[2] \in Permission!ToSet(s),
         prompts' \in 0 .. MaxPrompts, prompts' <= turns, over' \in BOOLEAN, stop' \in {"no", "stop", "kill"}
  PROVE  PermissionIInv'
<1> USE DEF PermissionIInv
<1>1. Permission!Asks' = Permission!Asks /\ reader' = reader BY DEF Permission!Asks
<1>2. /\ announced' \in Seq(0 .. Len(ask)) /\ Len(announced') <= AskCapacity
      /\ missed' \subseteq Permission!Asks /\ missed \subseteq missed'
      /\ reader # "none" =>
              \A n \in Permission!Asks : n \in Permission!ToSet(announced)
                \/ n \in Permission!ToSet(s) => n \in Permission!ToSet(announced') \cup missed'
      /\ reader = "ended" => \A n \in Permission!Asks : n \in Permission!ToSet(s) => n \in missed'
      /\ EndsCut'
  BY <1>1, EmitFacts
<1>3. router' \in {"recv", "tell", "undo"} \X (0 .. Len(ask'))
  <2>1. 0 \in 0 .. Len(ask) BY DEF Permission!TypeOK
  <2> QED BY <2>1 DEF Permission!TypeOK
<1>4. Permission!TypeOK'
  BY <1>1, <1>2, <1>3 DEF Permission!TypeOK
<1>5. Telling' BY <1>1 DEF Telling
<1>6. Prompted' BY DEF Prompted
<1>7. Permission!AskIsHeard'
  <2> SUFFICES ASSUME NEW n \in Permission!Asks, ask[n].state = "waiting"
               PROVE  \/ n \in Permission!ToSet(asking)
                      \/ pending[ask[n].call] = n
                         /\ \/ n \in shown \cup missed'
                            \/ router'[1] # "recv" /\ router'[2] = n
                            \/ reader = "reads" /\ n \in Permission!ToSet(announced')
    BY <1>1 DEF Permission!AskIsHeard
  <2>1. \/ n \in Permission!ToSet(asking)
        \/ pending[ask[n].call] = n
             /\ \/ n \in shown \cup missed
                \/ router[1] # "recv" /\ router[2] = n
                \/ reader = "reads" /\ n \in Permission!ToSet(announced)
    BY DEF Permission!AskIsHeard
  <2>2. reader \in {"none", "reads", "ended"} BY DEF Permission!TypeOK
  <2> QED BY <1>2, <2>1, <2>2
<1> QED BY <1>2, <1>4, <1>5, <1>6, <1>7

\* The end of a turn: one end, two, or none.
LEMMA EndsAlone ==
  ASSUME Permission!TypeOK,
           NEW s, s = <<>> \/ s = <<Permission!End>> \/ s = <<Permission!End, Permission!End>>
  PROVE  s \in Seq(0 .. Len(ask)) /\ ~(\E i, j \in 1 .. Len(s) : i < j /\ s[i] = Permission!End
           /\ s[j] # Permission!End)
<1>0. Len(ask) \in Nat BY LenProperties DEF Permission!TypeOK
<1>1. 0 \in 0 .. Len(ask) BY <1>0
<1>2. CASE s = <<>> BY <1>2
<1>3. CASE s = <<0>>
  <2>1. s \in Seq(0 .. Len(ask)) /\ Len(s) = 1 BY <1>1, <1>3
  <2> QED BY <2>1
<1>4. CASE s = <<0, 0>>
  <2>1. s \in Seq(0 .. Len(ask)) /\ Len(s) = 2 /\ s[1] = 0 /\ s[2] = 0 BY <1>1, <1>4
  <2> QED BY <2>1 DEF Permission!End
<1> QED BY <1>2, <1>3, <1>4 DEF Permission!End

\* The start of a turn, and the forwarding of events, keep the invariant.
LEMMA TurnsKeep ==
  ASSUME Permission!PermissionAssumption, PermissionIInv, Permission!Begin \/ Permission!Forward
           \/ Permission!RelayLeaves
    PROVE PermissionIInv'
<1> USE DEF PermissionIInv
<1>0. Permission!Asks' = Permission!Asks
  BY DEF Permission!Begin, Permission!Forward, Permission!RelayLeaves, Permission!Asks
<1>1. CASE Permission!Begin
  <2>1. Permission!TypeOK'
    BY <1>0, <1>1 DEF Permission!Begin, Permission!TypeOK, Permission!PermissionAssumption, Prompted
  <2>2. EndsCut' BY <1>1 DEF Permission!Begin, EndsCut
  <2>3. Telling' /\ Prompted' BY <1>0, <1>1 DEF Permission!Begin, Telling, Prompted, Permission!TypeOK
  <2>4. Permission!AskIsHeard' BY <1>0, <1>1 DEF Permission!Begin, Permission!AskIsHeard
  <2> QED BY <2>1, <2>2, <2>3, <2>4
<1>2. CASE Permission!RelayLeaves
  <2>1. Permission!TypeOK'
    BY <1>0, <1>2 DEF Permission!RelayLeaves, Permission!TypeOK, Permission!PermissionAssumption
  <2>2. EndsCut' BY <1>2 DEF Permission!RelayLeaves, EndsCut
  <2>3. Telling' /\ Prompted' BY <1>0, <1>2 DEF Permission!RelayLeaves, Telling, Prompted
  <2>4. Permission!AskIsHeard' BY <1>0, <1>2 DEF Permission!RelayLeaves, Permission!AskIsHeard
  <2> QED BY <2>1, <2>2, <2>3, <2>4
<1>3. CASE Permission!Forward
  <2>0. announced \in Seq(0 .. Len(ask)) /\ announced # <<>> /\ announced' = Tail(announced)
          /\ reader = "reads"
    BY <1>3 DEF Permission!Forward, Permission!TypeOK
  <2>1. /\ Tail(announced) \in Seq(0 .. Len(ask)) /\ Len(announced') = Len(announced) - 1
        /\ Len(announced) \in Nat \ {0}
        /\ \A i \in 1 .. Len(announced') : announced'[i] = announced[i + 1]
        /\ Head(announced) = announced[1] /\ announced[1] \in 0 .. Len(ask)
    BY <2>0, HeadTailProperties, LenProperties, ElementOfSeq
  <2>2. shown' \subseteq Permission!Asks /\ reader' \in {"none", "reads", "ended"}
    <3>1. Head(announced) # Permission!End => Head(announced) \in Permission!Asks
      BY <2>1 DEF Permission!Asks, Permission!End, Permission!TypeOK
    <3> QED BY <1>3, <3>1 DEF Permission!Forward, Permission!TypeOK
  <2>2a. announced' \in Seq(0 .. Len(ask)) /\ Len(announced') <= AskCapacity
    <3>1. Len(announced) <= AskCapacity BY DEF Permission!TypeOK
    <3> QED BY <2>0, <2>1, <3>1 DEF Permission!PermissionAssumption
  <2>3. Permission!TypeOK'
    <3>1. UNCHANGED <<ask, asking, router, pending, missed, prompts, over, stop, killed, agentUp, turns, stops>>
      BY <1>3 DEF Permission!Forward
    <3> QED BY <1>0, <2>2, <2>2a, <3>1 DEF Permission!TypeOK
  <2>4. EndsCut'
    <3> SUFFICES ASSUME reader' = "reads", NEW i \in 1 .. Len(announced'),
          NEW j \in 1 .. Len(announced'),
                        i < j, announced'[i] = Permission!End, announced'[j] # Permission!End
                 PROVE  announced'[j] \in missed'
      BY DEF EndsCut, Permission!End
    <3>1. /\ i + 1 \in 1 .. Len(announced) /\ j + 1 \in 1 .. Len(announced) /\ i + 1 < j + 1
          /\ announced[i + 1] = Permission!End /\ announced[j + 1] # Permission!End
      BY SMTT(30), <2>1
    <3>2. announced[j + 1] \in missed BY <2>0, <3>1 DEF EndsCut
    <3> QED BY <3>2, <2>1, <1>3 DEF Permission!Forward
  <2>5. Telling' /\ Prompted' BY <1>0, <1>3 DEF Permission!Forward, Telling, Prompted
  <2>6. Permission!AskIsHeard'
    <3> SUFFICES ASSUME NEW n \in Permission!Asks, ask[n].state
          = "waiting", n \notin Permission!ToSet(asking),
                        n \notin shown' \cup missed, ~(router[1] # "recv" /\ router[2] = n)
                 PROVE  pending[ask[n].call] = n /\ reader' = "reads"
                          /\ n \in Permission!ToSet(announced')
      BY <1>0, <1>3 DEF Permission!Forward, Permission!AskIsHeard
    <3>1. pending[ask[n].call] = n /\ n \in Permission!ToSet(announced)
      BY <1>3 DEF Permission!Forward, Permission!AskIsHeard
    <3>2. PICK i \in 1 .. Len(announced) : announced[i] = n BY <2>0, <3>1, InSeq
    <3>3. n # Permission!End BY DEF Permission!Asks, Permission!End, Permission!TypeOK
    <3>4. i # 1
      <4> SUFFICES ASSUME i = 1 PROVE FALSE OBVIOUS
      <4>1. Head(announced) = n BY <2>1, <3>2
      <4> QED BY <1>3, <3>3, <4>1 DEF Permission!Forward
    <3>5. announced[1] # Permission!End
      BY <2>0, <2>1, <3>2, <3>3, <3>4 DEF EndsCut
    <3>6. reader' = "reads" BY <1>3, <2>1, <3>5 DEF Permission!Forward
    <3>7. i - 1 \in 1 .. Len(announced') /\ (i - 1) + 1 = i BY <2>1, <3>4
    <3>8. announced'[i - 1] = n BY <2>1, <3>2, <3>7
    <3>9. n \in Permission!ToSet(announced') BY <2>0, <2>1, <3>7, <3>8, InSeq
    <3> QED BY <3>1, <3>6, <3>9
  <2> QED BY <2>3, <2>4, <2>5, <2>6
<1> QED BY <1>1, <1>2, <1>3

\* The end of a turn keeps the invariant.
LEMMA EndsKeep ==
  ASSUME Permission!PermissionAssumption, PermissionIInv, Permission!PromptEnds
           \/ Permission!PromptFails \/ Permission!StopEnds
    PROVE PermissionIInv'
<1> USE DEF PermissionIInv
<1>1. \/ Permission!Emit(<<>>) \/ Permission!Emit(<<Permission!End>>)
           \/ Permission!Emit(<<Permission!End, Permission!End>>)
  BY DEF Permission!PromptEnds, Permission!PromptFails, Permission!StopEnds, Permission!EmitEnd
<1>2. PICK s : (s = <<>> \/ s = <<Permission!End>> \/ s = <<Permission!End, Permission!End>>)
        /\ Permission!Emit(s)
  BY <1>1
<1>3. s \in Seq(0 .. Len(ask)) /\ ~(\E i, j \in 1 .. Len(s) : i < j /\ s[i] = Permission!End
        /\ s[j] # Permission!End)
  BY <1>2, EndsAlone
<1>4. prompts' \in 0 .. MaxPrompts /\ prompts' <= turns
  BY DEF Permission!PromptEnds, Permission!PromptFails, Permission!StopEnds, Permission!TypeOK,
     Prompted, Permission!PermissionAssumption
<1>5. over' \in BOOLEAN /\ stop' \in {"no", "stop", "kill"}
  BY DEF Permission!PromptEnds, Permission!PromptFails, Permission!StopEnds, Permission!TypeOK,
     Permission!EmitEnd
<1>6. UNCHANGED <<ask, asking, router, pending, reader, shown, killed, agentUp, turns, stops>>
  BY DEF Permission!PromptEnds, Permission!PromptFails, Permission!StopEnds
<1> QED BY <1>2, <1>3, <1>4, <1>5, <1>6, SendingKeeps

\* A question of the agent keeps the invariant.
LEMMA QuestionKeeps ==
  ASSUME Permission!PermissionAssumption, PermissionIInv, NEW c \in Pair,
           NEW side \in BOOLEAN, Permission!Ask(c, side)
    PROVE PermissionIInv'
<1> USE DEF PermissionIInv
<1> DEFINE new == [call |-> c, team |-> side, state |-> "sending"]
<1>1. ask' = Append(ask, new) /\ new \in AskState /\ ask \in Seq(AskState) /\ Len(ask) < MaxAsks
  BY DEF Permission!Ask, AskState, Permission!States, Permission!TypeOK
<1>2. /\ ask' \in Seq(AskState) /\ Len(ask') = Len(ask) + 1 /\ Len(ask) \in Nat
      /\ \A n \in 1 .. Len(ask) : ask'[n] = ask[n]
      /\ ask'[Len(ask) + 1] = new
  BY <1>1, AppendProperties
<1>3. 0 .. Len(ask) \subseteq 0 .. Len(ask') /\ Permission!Asks \subseteq Permission!Asks'
        /\ Permission!Asks' = Permission!Asks \cup {Len(ask) + 1}
  BY <1>2 DEF Permission!Asks
<1>4. Permission!TypeOK'
  <2>1. asking' \in Seq(Permission!Asks') /\ announced' \in Seq(0 .. Len(ask'))
    BY <1>3, SeqMonotonic DEF Permission!Ask, Permission!TypeOK
  <2>2. /\ ask' \in Seq([call : Pair, team : BOOLEAN, state : Permission!States])
             /\ Len(ask') <= MaxAsks
    BY <1>1, <1>2 DEF AskState, Permission!PermissionAssumption
  <2>3. /\ router' \in {"recv", "tell", "undo"} \X (0 .. Len(ask'))
        /\ pending' \in [Pair -> 0 .. Len(ask')]
    BY <1>3 DEF Permission!Ask, Permission!TypeOK
  <2> QED BY <1>3, <2>1, <2>2, <2>3 DEF Permission!Ask, Permission!TypeOK
<1>5. EndsCut' /\ Telling' /\ Prompted' BY <1>3 DEF Permission!Ask, EndsCut, Telling, Prompted
<1>6. Permission!AskIsHeard'
  <2> SUFFICES ASSUME NEW n \in Permission!Asks', ask'[n].state = "waiting"
               PROVE  n \in Permission!Asks /\ ask'[n] = ask[n]
    BY DEF Permission!Ask, Permission!AskIsHeard
  <2>1. n # Len(ask) + 1 BY <1>2
  <2> QED BY <1>2, <1>3, <2>1 DEF Permission!Asks
<1> QED BY <1>4, <1>5, <1>6

\* A question handed to the router keeps the invariant.
LEMMA HandKeeps ==
  ASSUME Permission!PermissionAssumption, PermissionIInv, NEW n \in Permission!Asks, Permission!Hand(n)
    PROVE PermissionIInv'
<1> USE DEF PermissionIInv
<1>1. /\ ask \in Seq(AskState) /\ Len(ask) \in Nat /\ ask \in [1 .. Len(ask) -> AskState]
      /\ asking \in Seq(Permission!Asks) /\ asking' = Append(asking, n) /\ Len(asking) < Room
  BY LenProperties DEF Permission!Hand, Permission!TypeOK, AskState
<1>2. asking' \in Seq(Permission!Asks) /\ Len(asking') = Len(asking) + 1
  BY <1>1, AppendProperties
<1>3. \A m : m \in Permission!ToSet(asking) \/ m = n => m \in Permission!ToSet(asking')
  BY <1>1 DEF Permission!ToSet
<1>4. ask' = [ask EXCEPT ![n].state = "waiting"] BY DEF Permission!Hand
<1>5. ask' \in [1 .. Len(ask) -> AskState]
  BY <1>1, <1>4 DEF AskState, Permission!States, Permission!Asks
<1>6. ask' \in Seq(AskState) /\ Len(ask') = Len(ask) /\ Permission!Asks' = Permission!Asks
  <2>1. ask' \in Seq(AskState) BY <1>1, <1>5, SeqDef
  <2>2. DOMAIN ask' = 1 .. Len(ask) BY <1>5
  <2> QED BY <1>1, <2>1, <2>2, LenProperties DEF Permission!Asks
<1>7. Permission!TypeOK'
  <2>1. ask' \in Seq([call : Pair, team : BOOLEAN, state : Permission!States]) /\ Len(ask') <= MaxAsks
    BY <1>6 DEF Permission!TypeOK, AskState
  <2>2. asking' \in Seq(Permission!Asks') /\ Len(asking') <= Room
    <3>1. Room \in Nat /\ Len(asking) \in Nat BY <1>1, LenProperties DEF Permission!PermissionAssumption
    <3> QED BY <1>1, <1>2, <1>6, <3>1
  <2> QED BY <1>6, <2>1, <2>2 DEF Permission!Hand, Permission!TypeOK
<1>8. EndsCut' /\ Telling' /\ Prompted' BY <1>6 DEF Permission!Hand, EndsCut, Telling, Prompted
<1>9. Permission!AskIsHeard'
  <2> SUFFICES ASSUME NEW m \in Permission!Asks, ask'[m].state = "waiting", m # n
               PROVE  ask'[m] = ask[m]
    BY <1>3, <1>6 DEF Permission!Hand, Permission!AskIsHeard
  <2> QED BY <1>1, <1>4 DEF Permission!Asks
<1> QED BY <1>7, <1>8, <1>9

\* The router that takes a question keeps the invariant.
LEMMA RouteKeeps ==
  ASSUME Permission!PermissionAssumption, PermissionIInv, Permission!Route PROVE PermissionIInv'
<1> USE DEF PermissionIInv
<1> DEFINE n == Head(asking)
           c == ask[n].call
<1>1. /\ asking \in Seq(Permission!Asks) /\ asking # <<>> /\ asking' = Tail(asking)
      /\ Tail(asking) \in Seq(Permission!Asks) /\ Len(asking') = Len(asking) - 1
           /\ n \in Permission!Asks
      /\ Len(asking) \in Nat
  BY HeadTailProperties, LenProperties, ElementOfSeq DEF Permission!Route, Permission!TypeOK
<1>1a. asking' \in Seq(Permission!Asks) /\ Len(asking') <= Room
  <2>1. Len(asking) <= Room BY DEF Permission!TypeOK
  <2> QED BY <1>1, <2>1 DEF Permission!PermissionAssumption
<1>2. \A m : m \in Permission!ToSet(asking) /\ m # n => m \in Permission!ToSet(asking')
  <2> TAKE m
  <2> HAVE m \in Permission!ToSet(asking) /\ m # n
  <2>1. PICK i \in 1 .. Len(asking) : asking[i] = m BY <1>1, InSeq
  <2>2. i # 1 BY <1>1, <2>1
  <2>3. i - 1 \in 1 .. Len(asking') /\ i - 1 + 1 = i BY <1>1, <2>2
  <2>4. asking'[i - 1] = m BY <1>1, <2>1, <2>3, HeadTailProperties
  <2> QED BY <1>1, <2>3, <2>4, InSeq
<1>3. n \in 1 .. Len(ask) /\ ask \in Seq(AskState)
  BY <1>1 DEF Permission!Asks, Permission!TypeOK, AskState
<1>4. c \in Pair /\ ask[n] \in AskState
  <2>1. ask[n] \in AskState BY <1>3, ElementOfSeq
  <2> QED BY <2>1 DEF AskState
<1> HIDE DEF n, c
<1>5. CASE ask[n].team
  <2>1. Permission!Settle({n}, "answered") /\ router' = router /\ pending' = pending
    BY <1>5 DEF Permission!Route, n
  <2>2. /\ ask' \in Seq(AskState) /\ Len(ask') = Len(ask) /\ Permission!Asks' = Permission!Asks
        /\ \A m \in Permission!Asks : /\ ask'[m].call = ask[m].call
                                      /\ ask'[m].state = "waiting" => ask[m].state = "waiting" /\ m # n
    BY <2>1, SettleFacts
  <2>3. Permission!TypeOK' BY <1>1a, <2>1, <2>2 DEF Permission!Route, Permission!TypeOK, AskState
  <2>4. EndsCut' /\ Telling' /\ Prompted' BY <2>1, <2>2 DEF Permission!Route, EndsCut, Telling, Prompted
  <2>5. Permission!AskIsHeard'
    BY <1>2, <2>1, <2>2 DEF Permission!Route, Permission!AskIsHeard
  <2> QED BY <2>3, <2>4, <2>5
<1>6. CASE ~ask[n].team
  <2>1. /\ Permission!Settle({pending[c]}, "cancelled") /\ pending' = [pending EXCEPT ![c] = n]
        /\ router' = <<"tell", n>>
    BY <1>6 DEF Permission!Route, n, c
  <2>2. /\ ask' \in Seq(AskState) /\ Len(ask') = Len(ask) /\ Permission!Asks' = Permission!Asks
        /\ \A m \in Permission!Asks : /\ ask'[m].call = ask[m].call
                                      /\ ask'[m].state = "waiting"
                                           => ask[m].state = "waiting" /\ m # pending[c]
    BY <2>1, SettleFacts
  <2>3. n \in 0 .. Len(ask) BY <1>3
  <2>4. pending' \in [Pair -> 0 .. Len(ask')]
          /\ router' \in {"recv", "tell", "undo"} \X (0 .. Len(ask'))
    BY <1>4, <2>1, <2>2, <2>3 DEF Permission!TypeOK
  <2>5. Permission!TypeOK' BY <1>1a, <2>2, <2>4 DEF Permission!Route, Permission!TypeOK, AskState
  <2>6. EndsCut' /\ Telling' /\ Prompted'
    BY <1>1, <2>1, <2>2 DEF Permission!Route, EndsCut, Telling, Prompted
  <2>7. Permission!AskIsHeard'
    <3> SUFFICES ASSUME NEW m \in Permission!Asks, ask'[m].state
          = "waiting", m \notin Permission!ToSet(asking')
                 PROVE  pending'[ask[m].call] = m
                        /\ \/ m \in shown \cup missed
                           \/ router'[1] # "recv" /\ router'[2] = m
                           \/ reader = "reads" /\ m \in Permission!ToSet(announced)
      BY <2>2 DEF Permission!Route, Permission!AskIsHeard
    <3>1. ask[m].state = "waiting" /\ m # pending[c] BY <2>2
    <3>2. CASE m = n
      <4>1. ask[m].call = c BY <3>2 DEF c
      <4> QED BY <1>4, <2>1, <3>2, <4>1 DEF Permission!TypeOK
    <3>3. CASE m # n
      <4>1. /\ pending[ask[m].call] = m
            /\ \/ m \in shown \cup missed
               \/ reader = "reads" /\ m \in Permission!ToSet(announced)
        BY <1>2, <3>1, <3>3 DEF Permission!Route, Permission!AskIsHeard
      <4>2. ask[m].call # c BY <3>1, <4>1
      <4> QED BY <2>1, <4>1, <4>2 DEF Permission!TypeOK
    <3> QED BY <3>2, <3>3
  <2> QED BY <2>5, <2>6, <2>7
<1> QED BY <1>5, <1>6

\* The router that announces a question keeps the invariant.
LEMMA PermissionTellKeeps ==
  ASSUME Permission!PermissionAssumption, PermissionIInv, Permission!Tell PROVE PermissionIInv'
<1> USE DEF PermissionIInv
<1>1. router[1] = "tell" /\ router[2] \in Permission!Asks
        /\ router \in {"recv", "tell", "undo"} \X (0 .. Len(ask))
  BY DEF Permission!Tell, Telling, Permission!TypeOK
<1>2. CASE reader = "none"
  <2>1. router' = <<"undo", router[2]>> /\ announced' = announced /\ missed' = missed
          /\ Permission!Asks' = Permission!Asks
        /\ UNCHANGED <<ask, asking, pending, reader, shown, prompts, over, stop, killed, agentUp, turns, stops>>
    BY <1>2 DEF Permission!Tell, Permission!Asks
  <2>2. Permission!TypeOK' BY <1>1, <2>1 DEF Permission!TypeOK
  <2>3. EndsCut' /\ Telling' /\ Prompted' BY <1>1, <2>1 DEF EndsCut, Telling, Prompted
  <2>4. Permission!AskIsHeard' BY <1>1, <2>1 DEF Permission!AskIsHeard
  <2> QED BY <2>2, <2>3, <2>4
<1>3. CASE reader # "none"
  <2> DEFINE s == <<router[2]>>
  <2>1. router' = <<"recv", 0>> /\ Permission!Emit(s)
          /\ UNCHANGED <<ask, asking, pending, reader, shown, prompts, over, stop, killed, agentUp, turns, stops>>
    BY <1>3 DEF Permission!Tell
  <2>2. s \in Seq(0 .. Len(ask)) /\ Len(s) = 1 BY <1>1
  <2>3. router[2] \in Permission!ToSet(s) BY DEF Permission!ToSet
  <2>4. prompts' \in 0 .. MaxPrompts /\ prompts' <= turns /\ over' \in BOOLEAN
          /\ stop' \in {"no", "stop", "kill"}
    BY <2>1 DEF Permission!TypeOK, Prompted
  <2>5. ~(\E i, j \in 1 .. Len(s) : i < j /\ s[i] = Permission!End /\ s[j] # Permission!End) BY <2>2
  <2> HIDE DEF s
  <2> QED BY <1>1, <1>3, <2>1, <2>2, <2>3, <2>4, <2>5, SendingKeeps
<1> QED BY <1>2, <1>3

\* A request that is taken back is no longer kept, and nobody waits for it.
LEMMA Dropped ==
  ASSUME PermissionIInv,
           NEW c \in Pair, Permission!Settle({pending[c]}, "answered")
             \/ Permission!Settle({pending[c]}, "cancelled"),
         pending' = [pending EXCEPT ![c] = 0],
         UNCHANGED <<asking, reader, announced, shown, missed, prompts, over, stop, killed, agentUp, turns, stops>>,
         router' = router \/ (router[1] = "undo" /\ ask[router[2]].call = c /\ router' = <<"recv", 0>>)
  PROVE  PermissionIInv'
<1> USE DEF PermissionIInv
<1>1. /\ ask' \in Seq(AskState) /\ Len(ask') = Len(ask) /\ Permission!Asks' = Permission!Asks
      /\ \A m \in Permission!Asks : /\ ask'[m].call = ask[m].call
                                    /\ ask'[m].state = "waiting"
                                         => ask[m].state = "waiting" /\ m # pending[c]
  BY SettleFacts
<1>2. Len(ask) \in Nat BY LenProperties DEF Permission!TypeOK
<1>3. 0 \in 0 .. Len(ask) BY <1>2
<1>4. pending' \in [Pair -> 0 .. Len(ask')] /\ router' \in {"recv", "tell", "undo"} \X (0 .. Len(ask'))
  BY <1>1, <1>3 DEF Permission!TypeOK
<1>5. Permission!TypeOK' BY <1>1, <1>4 DEF Permission!TypeOK, AskState
<1>6. EndsCut' /\ Telling' /\ Prompted' BY <1>1 DEF EndsCut, Telling, Prompted
<1>7. Permission!AskIsHeard'
  <2> SUFFICES ASSUME NEW m \in Permission!Asks, ask'[m].state
        = "waiting", m \notin Permission!ToSet(asking)
               PROVE  pending'[ask[m].call] = m
                      /\ \/ m \in shown \cup missed
                         \/ router'[1] # "recv" /\ router'[2] = m
                         \/ reader = "reads" /\ m \in Permission!ToSet(announced)
    BY <1>1 DEF Permission!AskIsHeard
  <2>1. ask[m].state = "waiting" /\ m # pending[c] BY <1>1
  <2>2. /\ pending[ask[m].call] = m
        /\ \/ m \in shown \cup missed
           \/ router[1] # "recv" /\ router[2] = m
           \/ reader = "reads" /\ m \in Permission!ToSet(announced)
    BY <2>1 DEF Permission!AskIsHeard
  <2>3. ask[m].call # c BY <2>1, <2>2
  <2> QED BY <2>2, <2>3 DEF Permission!TypeOK
<1> QED BY <1>5, <1>6, <1>7

\* The router that takes a question back keeps the invariant.
LEMMA UndoKeeps ==
  ASSUME Permission!PermissionAssumption, PermissionIInv, Permission!Undo PROVE PermissionIInv'
<1> DEFINE c == ask[router[2]].call
<1>1. router[1] = "undo" /\ router[2] \in Permission!Asks
  BY DEF Permission!Undo, PermissionIInv, Telling
<1>2. ask \in Seq(AskState) /\ router[2] \in 1 .. Len(ask)
  BY <1>1 DEF PermissionIInv, Permission!TypeOK, Permission!Asks, AskState
<1>3. ask[router[2]] \in AskState BY <1>2, ElementOfSeq
<1>4. c \in Pair BY <1>3 DEF AskState
<1> QED BY <1>1, <1>4, Dropped DEF Permission!Undo

\* An answer keeps the invariant.
LEMMA ConfirmKeeps ==
  ASSUME Permission!PermissionAssumption, PermissionIInv, NEW c \in Pair, Permission!Confirm(c)
    PROVE PermissionIInv'
BY Dropped DEF Permission!Confirm

\* A stop keeps the invariant.
LEMMA CancelKeeps ==
  ASSUME Permission!PermissionAssumption, PermissionIInv,
           NEW kind \in {"stop", "kill"}, Permission!CancelAll(kind)
    PROVE PermissionIInv'
<1> USE DEF PermissionIInv
<1>1. /\ ask' \in Seq(AskState) /\ Len(ask') = Len(ask) /\ Permission!Asks' = Permission!Asks
      /\ \A m \in Permission!Asks : /\ ask'[m].call = ask[m].call
                                    /\ ask'[m].state = "waiting" => ask[m].state = "waiting"
                                                                    /\ m \notin {pending[c] : c \in Pair}
  BY SettleFacts DEF Permission!CancelAll
<1>2. Len(ask) \in Nat BY LenProperties DEF Permission!TypeOK
<1>3. 0 \in 0 .. Len(ask) BY <1>2
<1>4. pending' \in [Pair -> 0 .. Len(ask')]
  BY <1>1, <1>3 DEF Permission!CancelAll
<1>5. stops' \in 0 .. MaxStops /\ stop' \in {"no", "stop", "kill"} /\ killed' \in BOOLEAN
  BY DEF Permission!CancelAll, Permission!TypeOK, Permission!PermissionAssumption
<1>6. UNCHANGED <<asking, router, reader, announced, shown, missed, prompts, over, agentUp, turns>>
  BY DEF Permission!CancelAll
<1>7. Permission!TypeOK' BY <1>1, <1>4, <1>5, <1>6 DEF Permission!TypeOK, AskState
<1>8. EndsCut' /\ Telling' /\ Prompted' BY <1>1, <1>6 DEF EndsCut, Telling, Prompted
<1>9. Permission!AskIsHeard'
  <2> SUFFICES ASSUME NEW m \in Permission!Asks, ask'[m].state = "waiting"
    PROVE m \in Permission!ToSet(asking)
    BY <1>1, <1>6 DEF Permission!AskIsHeard
  <2>1. ask[m].state = "waiting" /\ m \notin {pending[c] : c \in Pair} BY <1>1
  <2>2. ask \in Seq(AskState) /\ m \in 1 .. Len(ask) BY DEF Permission!TypeOK, Permission!Asks, AskState
  <2>3. ask[m] \in AskState BY <2>2, ElementOfSeq
  <2>4. ask[m].call \in Pair BY <2>3 DEF AskState
  <2> QED BY <2>1, <2>4 DEF Permission!AskIsHeard
<1> QED BY <1>7, <1>8, <1>9

\* The end of the agent keeps the invariant.
LEMMA ExitKeeps ==
  ASSUME Permission!PermissionAssumption, PermissionIInv, Permission!Exit PROVE PermissionIInv'
<1> USE DEF PermissionIInv
<1>0. ask \in Seq(AskState) BY DEF Permission!TypeOK, AskState
<1>1. Len(ask) \in Nat /\ ask \in [1 .. Len(ask) -> AskState] BY <1>0, LenProperties
<1>2. ask' = [n \in 1 .. Len(ask) |-> IF ask[n].state \in {"sending", "waiting"}
                                      THEN [ask[n] EXCEPT !.state = "gone"] ELSE ask[n]]
  BY DEF Permission!Exit, Permission!Asks
<1>3. ASSUME NEW n \in 1 .. Len(ask) PROVE ask'[n] \in AskState /\ ask'[n].state # "waiting"
  <2>1. ask[n] \in AskState BY <1>1
  <2>2. CASE ask[n].state \in {"sending", "waiting"}
    BY <1>2, <2>1, <2>2 DEF AskState, Permission!States
  <2>3. CASE ~(ask[n].state \in {"sending", "waiting"})
    BY <1>2, <2>1, <2>3 DEF AskState, Permission!States
  <2> QED BY <2>2, <2>3
<1>4. ask' \in [1 .. Len(ask) -> AskState] BY <1>2, <1>3
<1>5. ask' \in Seq(AskState) /\ Len(ask') = Len(ask) /\ Permission!Asks' = Permission!Asks
  <2>1. ask' \in Seq(AskState) BY <1>1, <1>4, SeqDef
  <2>2. DOMAIN ask' = 1 .. Len(ask) BY <1>4
  <2> QED BY <1>1, <2>1, <2>2, LenProperties DEF Permission!Asks
<1>6. UNCHANGED <<asking, router, pending, reader, announced, shown, missed, prompts, over, stop, killed, turns, stops>>
      /\ agentUp' \in BOOLEAN
  BY DEF Permission!Exit
<1>7. Permission!TypeOK' BY <1>5, <1>6 DEF Permission!TypeOK, AskState
<1>8. EndsCut' /\ Telling' /\ Prompted' BY <1>5, <1>6 DEF EndsCut, Telling, Prompted
<1>9. Permission!AskIsHeard' BY <1>3, <1>5 DEF Permission!AskIsHeard, Permission!Asks
<1> QED BY <1>7, <1>8, <1>9

\* The invariant holds in every state of the questions.
LEMMA PermissionInductive == ASSUME Permission!PermissionAssumption
  PROVE Permission!Spec => []PermissionIInv
<1>1. Permission!Init => PermissionIInv BY PermissionInitial
<1>2. PermissionIInv /\ [Permission!Next]_(Permission!vars) => PermissionIInv'
  <2> SUFFICES ASSUME PermissionIInv, [Permission!Next]_(Permission!vars) PROVE PermissionIInv' OBVIOUS
  <2>1. CASE UNCHANGED Permission!vars
    BY <2>1 DEF Permission!vars, PermissionIInv, Permission!TypeOK, Permission!Asks, EndsCut, Telling,
       Prompted, Permission!AskIsHeard
  <2>2. CASE Permission!Next
    <3>1. CASE Permission!Begin \/ Permission!Forward \/ Permission!RelayLeaves BY <3>1, TurnsKeep
    <3>2. CASE Permission!PromptEnds \/ Permission!PromptFails \/ Permission!StopEnds BY <3>2, EndsKeep
    <3>3. ASSUME NEW c \in Pair, Permission!Confirm(c) PROVE PermissionIInv' BY <3>3, ConfirmKeeps
    <3>4. ASSUME NEW c \in Pair, NEW side \in BOOLEAN, Permission!Ask(c, side)
      PROVE PermissionIInv' BY <3>4, QuestionKeeps
    <3>5. ASSUME NEW n \in Permission!Asks, Permission!Hand(n) PROVE PermissionIInv' BY <3>5, HandKeeps
    <3>6. CASE Permission!Route BY <3>6, RouteKeeps
    <3>7. CASE Permission!Tell BY <3>7, PermissionTellKeeps
    <3>8. CASE Permission!Undo BY <3>8, UndoKeeps
    <3>9. CASE Permission!CancelAll("stop") \/ Permission!CancelAll("kill") BY <3>9, CancelKeeps
    <3>10. CASE Permission!Exit BY <3>10, ExitKeeps
    <3> QED BY <2>2, <3>1, <3>2, <3>3, <3>4, <3>5, <3>6, <3>7, <3>8, <3>9, <3>10 DEF Permission!Next
  <2> QED BY <2>1, <2>2
<1> QED BY <1>1, <1>2, PTL DEF Permission!Spec

\* The questions by themselves are heard.
LEMMA Heard == ASSUME Permission!PermissionAssumption
  PROVE Permission!Spec => [](Permission!TypeOK /\ Permission!AskIsHeard)
BY PermissionInductive, PTL DEF PermissionIInv

\* The group implements the service.
LEMMA PermissionImplemented == AgentsSpec => Permission!Spec
<1>1. AgentsInit => Permission!Init BY DEF AgentsInit
<1>2. [AgentsNext]_agentsVars => [Permission!Next]_(Permission!vars)
  BY DEF AgentsNext, agentsVars, permissionVars, Permission!vars
<1> QED BY <1>1, <1>2, PTL DEF AgentsSpec, Permission!Spec

\* For any number of questions, turns and stops, and channels of any size: a
\* question of the agent that waits for its answer is in the channel, in the
\* hands of the router, or was announced to somebody who reads or missed it
\* (permission_router.rs, agent.rs).
THEOREM QuestionsAreHeard == ASSUME AgentsAssumption PROVE AgentsSpec => []AskIsHeard
<1>1. Permission!PermissionAssumption BY DEF AgentsAssumption
<1>2. Permission!Spec => [](Permission!TypeOK /\ Permission!AskIsHeard)
  BY <1>1, Heard
<1>3. Permission!AskIsHeard => AskIsHeard BY DEF AskIsHeard
<1> QED BY <1>2, <1>3, PermissionImplemented, PTL

-----------------------------------------------------------------------------
(* The sessions of ACP agents: AcpSession.                                 *)

\* No session is open: there is no agent, or it has not got so far.
Opening == agent = Nil \/ agent.pc \in {"restore", "open"}

\* Until then nothing is under way.
BeforeOpening ==
  Opening => /\ chan = <<>> /\ notes = <<>> /\ \A c \in Acp!Callers : acpCall[c] = Nil
             /\ agent # Nil => ~agent.told

\* The consumer runs for an agent that is ready, and for no other.
ConsumerRuns == pend # "off" <=> Acp!At("ready")

\* A request that was sent names a mode.
RequestsCarry == \A c \in Acp!Callers : Acp!In(c, "sent") \/ Acp!In(c, "apply")
  => acpCall[c].mode \in Modes

\* Changes that do not cross: one request at a time, and none beside a change
\* the agent announced.
OneChange ==
  ~acpCrossed =>
    /\ \A c, d \in Acp!Callers : acpCall[c] # Nil /\ acpCall[d] # Nil => c = d
    /\ Acp!Busy => notes = <<>>

\* Where the command-line agent is: where it announced to be last, where the
\* request it has answered put it, or where it is taken to be.
Known ==
  agent # Nil /\ agent.told /\ ~acpCrossed =>
    /\ notes # <<>> => notes[Len(notes)] = cli.mode
    /\ \A c \in Acp!Callers : Acp!In(c, "apply") => acpCall[c].mode = cli.mode
    /\ notes = <<>> /\ (\A c \in Acp!Callers : ~Acp!In(c, "apply")) => agent.observed = cli.mode

\* What the row will say once a consumer that has p in hand is through with s.
Unsaved(s, p, i, m) == Acp!LastId(s, acpRow.id) = i
  /\ Acp!LastMode(s, IF p \in {"off", Nil} THEN acpRow.mode ELSE p) = m

\* The row, once what is on its way is written, says what was observed last.
RowFollows ==
  ~lost =>
    /\ agent # Nil => /\ Unsaved(chan, pend, given, seen) /\ agent.observed = seen
                      /\ old # Nil => old.chan = <<>> /\ old.pend = Nil
    /\ agent = Nil => IF old = Nil THEN acpRow = [id |-> given, mode |-> seen]
                       ELSE Unsaved(old.chan, old.pend, given, seen)

\* The invariant.
AcpIInv ==
  Acp!TypeOK /\ BeforeOpening /\ ConsumerRuns /\ RequestsCarry /\ OneChange /\ Known /\ RowFollows

\* Naturals have a least one among them.
LEMMA Least == ASSUME NEW T \in SUBSET Nat, T # {} PROVE \E x \in T : \A y \in T : x <= y
<1> DEFINE R == OpToRel(<, Nat)
<1>1. \A x, y \in Nat : y < x => <<y, x>> \in R BY DEF OpToRel
<1>2. IsWellFoundedOn(R, Nat) BY NatLessThanWellFounded
<1> HIDE DEF R
<1>3. PICK x \in T : \A y \in T : ~ (<<y, x>> \in R) BY <1>2, WFMin
<1>4. ASSUME NEW y \in T PROVE x <= y
  <2>1. x \in Nat /\ y \in Nat /\ ~(y < x) BY <1>1, <1>3
  <2> QED BY <2>1
<1> QED BY <1>3, <1>4

\* And those up to a bound a greatest.
LEMMA Greatest == ASSUME NEW n \in Nat, NEW S \in SUBSET (1 .. n), S # {}
  PROVE \E x \in S : \A y \in S : y <= x
<1> DEFINE T == {n - i : i \in S}
<1>1. T \in SUBSET Nat /\ T # {}
  <2>1. \A i \in S : i \in 1 .. n /\ n - i \in Nat OBVIOUS
  <2> QED BY <2>1
<1>2. PICK x \in T : \A y \in T : x <= y BY <1>1, Least
<1>3. PICK m \in S : x = n - m OBVIOUS
<1>4. ASSUME NEW y \in S PROVE y <= m
  <2>1. x <= n - y BY <1>2
  <2> QED BY <2>1, <1>3
<1> QED BY <1>3, <1>4

\* The last event of a kind, if there is one.
LEMMA LastIs ==
  ASSUME NEW s, DOMAIN s \subseteq Nat, NEW kind, NEW x, NEW k \in DOMAIN s, s[k][1] = kind,
         \A j \in DOMAIN s : s[j][1] = kind => j <= k
  PROVE  Acp!LastOf(kind, s, x) = s[k][2]
<1> DEFINE places == {i \in DOMAIN s : s[i][1] = kind}
           m == CHOOSE i \in places : \A j \in places : j <= i
<1>1. k \in places /\ \A j \in places : j <= k OBVIOUS
<1>2. m \in places /\ \A j \in places : j <= m BY <1>1
<1>3. m \in Nat /\ k \in Nat /\ m <= k /\ k <= m BY <1>1, <1>2
<1>4. m = k BY <1>3
<1>5. Acp!LastOf(kind, s, x) = s[m][2] BY <1>1 DEF Acp!LastOf
<1> QED BY <1>4, <1>5

\* And if there is none.
LEMMA LastNone ==
  ASSUME NEW s, NEW kind, NEW x, \A j \in DOMAIN s : s[j][1] # kind
  PROVE  Acp!LastOf(kind, s, x) = x
  BY DEF Acp!LastOf

\* The last event of two sequences read one after the other.
LEMMA LastJoined ==
  ASSUME NEW D, NEW s \in Seq(D), NEW t \in Seq(D), NEW kind, NEW x
  PROVE  Acp!LastOf(kind, s \o t, x) = Acp!LastOf(kind, t, Acp!LastOf(kind, s, x))
<1> DEFINE u == s \o t
           n == Len(s)
           m == Len(t)
<1>1. /\ n \in Nat /\ m \in Nat /\ DOMAIN s = 1 .. n /\ DOMAIN t = 1 .. m
      /\ u \in Seq(D) /\ DOMAIN u = 1 .. (n + m)
      /\ \A i \in 1 .. n : u[i] = s[i]
      /\ \A i \in 1 .. m : u[n + i] = t[i]
  BY ConcatProperties, LenProperties
<1>2. ASSUME NEW j \in 1 .. (n + m), j \notin 1 .. n PROVE (j - n) \in 1 .. m /\ u[j] = t[j - n]
  <2>1. (j - n) \in 1 .. m /\ n + (j - n) = j BY <1>1, <1>2
  <2> QED BY <2>1, <1>1
<1> HIDE DEF u, n, m
<1>2a. DOMAIN s \subseteq Nat /\ DOMAIN t \subseteq Nat /\ DOMAIN u \subseteq Nat BY <1>1
<1>3. CASE \A j \in DOMAIN t : t[j][1] # kind
  <2>1. Acp!LastOf(kind, t, Acp!LastOf(kind, s, x)) = Acp!LastOf(kind, s, x) BY <1>3, LastNone
  <2>2. CASE \A j \in DOMAIN s : s[j][1] # kind
    <3>1. ASSUME NEW j \in DOMAIN u PROVE u[j][1] # kind
      <4>1. CASE j \in 1 .. n BY <4>1, <1>1, <2>2
      <4>2. CASE j \notin 1 .. n
        <5>1. (j - n) \in DOMAIN t /\ u[j] = t[j - n] BY <4>2, <1>1, <1>2
        <5> QED BY <5>1, <1>3
      <4> QED BY <4>1, <4>2
    <3>2. Acp!LastOf(kind, u, x) = x BY <3>1, LastNone
    <3>3. Acp!LastOf(kind, s, x) = x BY <2>2, LastNone
    <3> QED BY <2>1, <3>2, <3>3 DEF u
  <2>3. CASE \E j \in DOMAIN s : s[j][1] = kind
    <3> DEFINE S == {j \in DOMAIN s : s[j][1] = kind}
    <3>1. S \in SUBSET (1 .. n) /\ S # {} BY <1>1, <2>3
    <3>2. PICK k \in S : \A j \in S : j <= k BY <1>1, <3>1, Greatest
    <3>3. Acp!LastOf(kind, s, x) = s[k][2] BY <1>2a, <3>2, LastIs
    <3>4. k \in DOMAIN u /\ u[k] = s[k] /\ u[k][1] = kind BY <1>1, <3>2
    <3>5. ASSUME NEW j \in DOMAIN u, u[j][1] = kind PROVE j <= k
      <4>1. CASE j \in 1 .. n BY <4>1, <3>5, <1>1, <3>2
      <4>2. CASE j \notin 1 .. n
        <5>1. (j - n) \in DOMAIN t /\ u[j] = t[j - n] BY <4>2, <1>1, <1>2
        <5> QED BY <5>1, <3>5, <1>3
      <4> QED BY <4>1, <4>2
    <3>6. Acp!LastOf(kind, u, x) = u[k][2] BY <1>2a, <3>4, <3>5, LastIs
    <3> QED BY <2>1, <3>3, <3>4, <3>6 DEF u
  <2> QED BY <2>2, <2>3
<1>4. CASE \E j \in DOMAIN t : t[j][1] = kind
  <2> DEFINE S == {j \in DOMAIN t : t[j][1] = kind}
  <2>1. S \in SUBSET (1 .. m) /\ S # {} BY <1>1, <1>4
  <2>2. PICK k \in S : \A j \in S : j <= k BY <1>1, <2>1, Greatest
  <2>3. Acp!LastOf(kind, t, Acp!LastOf(kind, s, x)) = t[k][2] BY <1>2a, <2>2, LastIs
  <2>4. (n + k) \in DOMAIN u /\ u[n + k] = t[k] /\ u[n + k][1] = kind BY <1>1, <2>2
  <2>5. ASSUME NEW j \in DOMAIN u, u[j][1] = kind PROVE j <= n + k
    <3>1. CASE j \in 1 .. n BY <3>1, <1>1, <2>2
    <3>2. CASE j \notin 1 .. n
      <4>1. (j - n) \in 1 .. m /\ t[j - n][1] = kind BY <3>2, <2>5, <1>1, <1>2
      <4>2. (j - n) <= k BY <4>1, <1>1, <2>2
      <4> QED BY <4>1, <4>2, <1>1, <2>2
    <3> QED BY <3>1, <3>2
  <2>6. Acp!LastOf(kind, u, x) = u[n + k][2] BY <1>2a, <2>4, <2>5, LastIs
  <2> QED BY <2>3, <2>4, <2>6 DEF u
<1> QED BY <1>3, <1>4

\* What an event says.
LEMMA EventsSay ==
  ASSUME NEW e \in Acp!DomainEvents
  PROVE  \/ e[1] = "id" /\ e[2] \in Acp!Ids
         \/ e[1] = "mode" /\ e[2] \in Modes
  BY DEF Acp!DomainEvents

\* Ids and modes make events.
LEMMA NamedEvents ==
  /\ \A n \in Acp!Ids : <<"id", n>> \in Acp!DomainEvents
  /\ \A m \in Modes : <<"mode", m>> \in Acp!DomainEvents
  BY DEF Acp!DomainEvents

\* The last event of one.
LEMMA AcpSingle ==
  ASSUME NEW e, NEW kind, NEW x
  PROVE  Acp!LastOf(kind, <<e>>, x) = IF e[1] = kind THEN e[2] ELSE x
<1>1. DOMAIN <<e>> = {1} /\ <<e>>[1] = e OBVIOUS
<1>2. CASE e[1] = kind BY <1>1, <1>2, LastIs
<1>3. CASE e[1] # kind BY <1>1, <1>3, LastNone
<1> QED BY <1>2, <1>3

\* The last event of none.
LEMMA AcpNowhere == ASSUME NEW kind, NEW x PROVE Acp!LastOf(kind, <<>>, x) = x
  BY LastNone

\* The last id is an id, the last mode a mode.
LEMMA LastIsTyped ==
  ASSUME NEW s \in Seq(Acp!DomainEvents)
  PROVE  /\ \A i \in Acp!Ids : Acp!LastId(s, i) \in Acp!Ids
         /\ \A m \in Acp!Mode : Acp!LastMode(s, m) \in Acp!Mode
<1>1. ASSUME NEW kind, NEW x, Acp!LastOf(kind, s, x) # x
      PROVE  \E k \in DOMAIN s : s[k][1] = kind /\ Acp!LastOf(kind, s, x) = s[k][2]
  <2>1. PICK j \in DOMAIN s : s[j][1] = kind BY <1>1, LastNone
  <2> DEFINE S == {i \in DOMAIN s : s[i][1] = kind}
  <2>2. DOMAIN s = 1 .. Len(s) /\ Len(s) \in Nat BY LenProperties
  <2>3. S \in SUBSET (1 .. Len(s)) /\ S # {} BY <2>1, <2>2
  <2>4. PICK k \in S : \A i \in S : i <= k BY <2>2, <2>3, Greatest
  <2>5. DOMAIN s \subseteq Nat BY <2>2
  <2>6. Acp!LastOf(kind, s, x) = s[k][2] BY <2>4, <2>5, LastIs
  <2> QED BY <2>4, <2>6
<1>2. \A k \in DOMAIN s : s[k] \in Acp!DomainEvents BY ElementOfSeq, LenProperties
<1>3. ASSUME NEW i \in Acp!Ids PROVE Acp!LastId(s, i) \in Acp!Ids
  <2>1. CASE Acp!LastId(s, i) = i BY <2>1
  <2>2. CASE Acp!LastId(s, i) # i
    <3>1. PICK k \in DOMAIN s : s[k][1] = "id" /\ Acp!LastId(s, i) = s[k][2]
      BY <1>1, <2>2 DEF Acp!LastId
    <3> QED BY <1>2, <3>1, EventsSay
  <2> QED BY <2>1, <2>2
<1>4. ASSUME NEW m \in Acp!Mode PROVE Acp!LastMode(s, m) \in Acp!Mode
  <2>1. CASE Acp!LastMode(s, m) = m BY <2>1
  <2>2. CASE Acp!LastMode(s, m) # m
    <3>1. PICK k \in DOMAIN s : s[k][1] = "mode" /\ Acp!LastMode(s, m) = s[k][2]
      BY <1>1, <2>2 DEF Acp!LastMode
    <3> QED BY <1>2, <3>1, EventsSay DEF Acp!Mode
  <2> QED BY <2>1, <2>2
<1> QED BY <1>3, <1>4

\* The counts of events stay counts.
LEMMA AcpSpending == ASSUME Acp!TypeOK, NEW k \in Acp!Kinds, Acp!Spend(k)
  PROVE acpUsed' \in [Acp!Kinds -> Nat]
  BY DEF Acp!Spend, Acp!TypeOK

\* None is nothing else.
LEMMA NoneApart ==
  ASSUME Acp!AcpAssumption
  PROVE  /\ Nil \notin Modes /\ Nil \notin Acp!Agent /\ Nil \notin Acp!Cli /\ Nil \notin Acp!Request
         /\ Nil \notin Acp!Left /\ "off" \notin Modes /\ "off" # Nil /\ "off" \notin Acp!Mode
         /\ 0 \in Acp!Ids /\ MaxSessions \in Nat /\ Default \in Modes
  BY DEF Acp!AcpAssumption, Acp!Mode, Acp!Ids

\* At the start there is no agent.
LEMMA AcpInitial == ASSUME Acp!AcpAssumption, Acp!Init PROVE AcpIInv
<1>1. Acp!TypeOK
  <2>1. Nil \in Acp!Mode /\ 0 \in Acp!Ids BY NoneApart DEF Acp!Mode
  <2>2. acpRow \in [id : Acp!Ids, mode : Acp!Mode] BY <2>1 DEF Acp!Init
  <2>3. acpCall \in [Acp!Callers -> Acp!Request \cup {Nil}] BY DEF Acp!Init
  <2>4. acpUsed \in [Acp!Kinds -> Nat] BY DEF Acp!Init
  <2>5. notes \in Seq(Modes) /\ chan \in Seq(Acp!DomainEvents) BY DEF Acp!Init
  <2> QED BY <2>1, <2>2, <2>3, <2>4, <2>5 DEF Acp!Init, Acp!TypeOK
<1>2. Unsaved(chan, pend, given, seen) BY AcpNowhere DEF Acp!Init, Unsaved, Acp!LastId, Acp!LastMode
<1> QED BY <1>1, <1>2, NoneApart
        DEF AcpIInv, Acp!Init, BeforeOpening, ConsumerRuns, RequestsCarry, OneChange, Known,
           RowFollows, Opening, Acp!At, Acp!In, Acp!Busy

\* What is observed goes behind what is on its way, if it is news.
LEMMA Observing ==
  ASSUME Acp!AcpAssumption, Acp!TypeOK, NEW a \in Acp!Agent, NEW m \in Modes,
           NEW rest \in Seq(Acp!DomainEvents),
         Acp!Observe(a, m, rest)
  PROVE  /\ agent' \in Acp!Agent /\ agent'.observed = m /\ agent'.pc = a.pc /\ agent'.told = a.told
         /\ seen' = m /\ seen' \in Acp!Mode
         /\ chan' \in Seq(Acp!DomainEvents)
         /\ \A x : Acp!LastMode(chan, x) = agent.observed
              => Acp!LastMode(chan', x) = Acp!LastMode(rest, m)
         /\ \A x : Acp!LastId(chan', x) = Acp!LastId(rest, Acp!LastId(chan, x))
<1> DEFINE e == <<"mode", m>>
           news == IF m # agent.observed THEN <<e>> ELSE <<>>
           c == chan \o news
<1>1. agent' = [a EXCEPT !.observed = m] /\ chan' = c \o rest /\ seen' = m BY DEF Acp!Observe
<1>2. agent' \in Acp!Agent /\ agent'.observed = m /\ agent'.pc = a.pc /\ agent'.told = a.told
  BY <1>1 DEF Acp!Agent, Acp!Mode
<1>3. e \in Acp!DomainEvents /\ e[1] = "mode" /\ e[2] = m BY NamedEvents
<1>4. news \in Seq(Acp!DomainEvents) /\ chan \in Seq(Acp!DomainEvents) /\ <<>> \in Seq(Acp!DomainEvents)
  BY <1>3 DEF Acp!TypeOK
<1>4a. /\ m # agent.observed => news = <<e>>
       /\ m = agent.observed => news = <<>>
  OBVIOUS
<1> HIDE DEF news, e
<1>5. c \in Seq(Acp!DomainEvents) /\ chan' \in Seq(Acp!DomainEvents) BY <1>1, <1>4, ConcatProperties
<1>6. ASSUME NEW x, Acp!LastMode(chan, x) = agent.observed PROVE Acp!LastMode(c, x) = m
  <2>1. Acp!LastMode(c, x) = Acp!LastOf("mode", news, agent.observed)
    BY <1>4, <1>6, LastJoined DEF Acp!LastMode
  <2>2. CASE m # agent.observed BY <1>3, <1>4a, <2>1, <2>2, AcpSingle
  <2>3. CASE m = agent.observed BY <1>4a, <2>1, <2>3, AcpNowhere
  <2> QED BY <2>2, <2>3
<1>7. ASSUME NEW x PROVE Acp!LastId(c, x) = Acp!LastId(chan, x)
  <2>1. Acp!LastId(c, x) = Acp!LastOf("id", news, Acp!LastId(chan, x))
    BY <1>4, LastJoined DEF Acp!LastId
  <2>2. CASE m # agent.observed BY <1>3, <1>4a, <2>1, <2>2, AcpSingle
  <2>3. CASE m = agent.observed BY <1>4a, <2>1, <2>3, AcpNowhere
  <2> QED BY <2>2, <2>3
<1> HIDE DEF c
<1>8. ASSUME NEW x, Acp!LastMode(chan, x) = agent.observed
  PROVE Acp!LastMode(chan', x) = Acp!LastMode(rest, m)
  <2>1. Acp!LastMode(c, x) = m BY <1>6, <1>8
  <2>2. Acp!LastMode(c \o rest, x) = Acp!LastMode(rest, Acp!LastMode(c, x))
    BY <1>5, LastJoined DEF Acp!LastMode
  <2> QED BY <2>1, <2>2, <1>1
<1>9. ASSUME NEW x PROVE Acp!LastId(chan', x) = Acp!LastId(rest, Acp!LastId(chan, x))
  <2>1. Acp!LastId(c, x) = Acp!LastId(chan, x) BY <1>7
  <2>2. Acp!LastId(c \o rest, x) = Acp!LastId(rest, Acp!LastId(c, x)) BY <1>5, LastJoined DEF Acp!LastId
  <2> QED BY <2>1, <2>2, <1>1
<1>10. seen' = m /\ seen' \in Acp!Mode BY <1>1 DEF Acp!Mode
<1> QED BY <1>2, <1>5, <1>8, <1>9, <1>10

\* What an agent is made of.
LEMMA AgentIs ==
  ASSUME Acp!TypeOK, agent # Nil
  PROVE  /\ agent \in Acp!Agent /\ cli \in Acp!Cli /\ cli # Nil
         /\ agent.pc \in {"restore", "open", "align", "attach", "ready"} /\ agent.id \in Acp!Ids
         /\ agent.desired \in Acp!Mode /\ agent.observed \in Acp!Mode /\ agent.told \in BOOLEAN
         /\ cli.id \in Acp!Ids /\ cli.mode \in Modes
<1>1. agent \in Acp!Agent /\ cli \in Acp!Cli /\ cli # Nil BY DEF Acp!TypeOK
<1> QED BY <1>1 DEF Acp!Agent, Acp!Cli

\* With nothing on its way the row is what it says.
LEMMA NothingOnItsWay ==
  ASSUME NEW p \in {"off", Nil}, NEW i, NEW m
  PROVE  Unsaved(<<>>, p, i, m) <=> acpRow.id = i /\ acpRow.mode = m
  BY AcpNowhere DEF Unsaved, Acp!LastId, Acp!LastMode

\* What the row is made of.
LEMMA RowIs == ASSUME Acp!TypeOK
  PROVE acpRow = [id |-> acpRow.id, mode |-> acpRow.mode] /\ acpRow.id \in Acp!Ids
          /\ acpRow.mode \in Acp!Mode
  BY DEF Acp!TypeOK

\* An agent that is built takes the mode of the row for observed.
LEMMA BuildKeeps == ASSUME Acp!AcpAssumption, AcpIInv, Acp!Build PROVE AcpIInv'
<1>1. Acp!TypeOK /\ BeforeOpening /\ ConsumerRuns /\ RequestsCarry /\ OneChange /\ RowFollows
  BY DEF AcpIInv
<1>2. acpUsed' \in [Acp!Kinds -> Nat] BY <1>1, AcpSpending DEF Acp!Build, Acp!Kinds
<1>3. /\ agent' \in Acp!Agent /\ agent'.pc = "restore" /\ ~agent'.told /\ agent'.observed = acpRow.mode
      /\ agent = Nil
  <2>1. PICK first \in Acp!Mode :
          agent' = [pc |-> "restore", id |-> 0, told |-> FALSE,
                    desired |-> IF acpRow.mode # Nil THEN acpRow.mode ELSE first,
                    observed |-> acpRow.mode]
    BY DEF Acp!Build
  <2>2. acpRow.mode \in Acp!Mode /\ 0 \in Acp!Ids BY <1>1, RowIs, NoneApart
  <2> QED BY <2>1, <2>2 DEF Acp!Agent, Acp!Build
<1>4. /\ cli' \in Acp!Cli /\ lost' = (lost \/ Acp!Unwritten)
      /\ UNCHANGED <<path, acpRow, ids, acpCall, notes, chan, pend, old, seen, given, acpCrossed>>
  BY NoneApart DEF Acp!Build, Acp!Cli
<1>5. agent' # Nil /\ cli' # Nil BY <1>3, <1>4, NoneApart
<1>6. /\ chan = <<>> /\ notes = <<>> /\ pend = "off"
      /\ \A c \in Acp!Callers : acpCall[c] = Nil
  BY <1>1, <1>3, NoneApart DEF BeforeOpening, ConsumerRuns, Opening, Acp!At
<1>7. Acp!TypeOK'
  <2>1. lost' \in BOOLEAN BY <1>1, <1>4 DEF Acp!TypeOK, Acp!Unwritten
  <2> QED BY <1>1, <1>2, <1>3, <1>4, <1>5, <2>1 DEF Acp!TypeOK
<1>8. BeforeOpening' /\ ConsumerRuns' /\ RequestsCarry' /\ OneChange' /\ Known'
  BY <1>3, <1>4, <1>5, <1>6 DEF BeforeOpening, ConsumerRuns, RequestsCarry, OneChange, Known, Opening,
     Acp!At, Acp!In, Acp!Busy
<1>9. RowFollows'
  <2> SUFFICES ASSUME ~lost'
               PROVE  /\ Unsaved(chan, pend, given, seen)' /\ agent'.observed = seen'
                      /\ old' # Nil => old'.chan = <<>> /\ old'.pend = Nil
    BY <1>5 DEF RowFollows
  <2>1. ~lost /\ (old # Nil => old.chan = <<>> /\ old.pend = Nil) BY <1>4 DEF Acp!Unwritten
  <2>2. acpRow.id = given /\ acpRow.mode = seen
    <3>1. CASE old = Nil BY <3>1, <2>1, <1>1, <1>3 DEF RowFollows
    <3>2. CASE old # Nil BY <3>2, <2>1, <1>1, <1>3, NothingOnItsWay DEF RowFollows
    <3> QED BY <3>1, <3>2
  <2>3. Unsaved(<<>>, "off", given, seen) BY <2>2, NothingOnItsWay
  <2>4. Unsaved(chan, pend, given, seen)' BY <2>3, <1>4, <1>6 DEF Unsaved
  <2> QED BY <2>1, <2>2, <2>4, <1>3, <1>4
<1> QED BY <1>7, <1>8, <1>9 DEF AcpIInv

\* Reading the session id keeps the invariant.
LEMMA RestoreKeeps == ASSUME Acp!AcpAssumption, AcpIInv, Acp!Restore PROVE AcpIInv'
<1> DEFINE new == [agent EXCEPT !.pc = "open", !.id = acpRow.id]
<1>1. Acp!TypeOK /\ BeforeOpening /\ ConsumerRuns /\ RequestsCarry /\ OneChange /\ RowFollows
  BY DEF AcpIInv
<1>2. agent # Nil /\ agent.pc = "restore" BY DEF Acp!Restore, Acp!At
<1>3. /\ new \in Acp!Agent /\ new.pc = "open" /\ new.told = agent.told /\ new.observed = agent.observed
  BY <1>1, <1>2, RowIs DEF Acp!Agent, Acp!TypeOK
<1>4. /\ agent' = new
      /\ UNCHANGED <<path, acpRow, cli, ids, acpCall, notes, chan, pend, old, acpUsed, seen, given, lost, acpCrossed>>
  BY DEF Acp!Restore
<1> HIDE DEF new
<1>5. agent' # Nil BY <1>3, <1>4, NoneApart
<1>6. Acp!TypeOK' BY <1>1, <1>2, <1>3, <1>4, <1>5 DEF Acp!TypeOK
<1>7. BeforeOpening' /\ ConsumerRuns' /\ RequestsCarry' /\ OneChange' /\ Known'
  BY <1>1, <1>2, <1>3, <1>4, <1>5 DEF BeforeOpening, ConsumerRuns, RequestsCarry, OneChange, Known,
     Opening, Acp!At, Acp!In, Acp!Busy
<1>8. RowFollows' BY <1>1, <1>2, <1>3, <1>4, <1>5 DEF RowFollows, Unsaved
<1> QED BY <1>6, <1>7, <1>8 DEF AcpIInv

\* However a session is opened: if the agent was told a mode, it is that of the
\* command-line agent.
LEMMA SessionOpens ==
  ASSUME Acp!AcpAssumption, AcpIInv, Acp!At("open"),
         agent' \in Acp!Agent, agent'.pc = "align", cli' \in Acp!Cli,
         agent'.told => agent'.observed = cli'.mode,
         acpCall' = [acpCall EXCEPT ![Acp!Warmup] = [pc |-> "plan", mode |-> Nil]],
         chan' \in Seq(Acp!DomainEvents), seen' \in Acp!Mode, given' \in Acp!Ids, ids' \in Acp!Ids,
         ~lost => /\ Acp!LastId(chan', acpRow.id) = given' /\ Acp!LastMode(chan', acpRow.mode) = seen'
                  /\ agent'.observed = seen',
         UNCHANGED <<path, acpRow, notes, pend, old, acpUsed, lost, acpCrossed>>
  PROVE  AcpIInv'
<1> DEFINE new == [pc |-> "plan", mode |-> Nil]
<1>1. Acp!TypeOK /\ BeforeOpening /\ ConsumerRuns /\ OneChange /\ RowFollows BY DEF AcpIInv
<1>2. new \in Acp!Request /\ new.pc = "plan" BY DEF Acp!Request, Acp!Mode
<1>3. acpCall' = [acpCall EXCEPT ![Acp!Warmup] = new] OBVIOUS
<1> HIDE DEF new
<1>4. agent' # Nil /\ cli' # Nil /\ new # Nil BY <1>2, NoneApart
<1>5. /\ agent # Nil /\ agent.pc = "open" /\ notes = <<>> /\ pend = "off"
      /\ \A c \in Acp!Callers : acpCall[c] = Nil
  BY <1>1, NoneApart DEF BeforeOpening, ConsumerRuns, Opening, Acp!At
<1>6. Acp!Warmup \in Acp!Callers /\ acpCall' \in [Acp!Callers -> Acp!Request \cup {Nil}]
  BY <1>1, <1>2, <1>3 DEF Acp!TypeOK, Acp!Callers
<1>7. \A c \in Acp!Callers : acpCall'[c] # Nil => c = Acp!Warmup /\ acpCall'[c] = new
  BY <1>1, <1>3, <1>5 DEF Acp!TypeOK
<1>8. Acp!TypeOK' BY <1>1, <1>4, <1>6 DEF Acp!TypeOK
<1>9. BeforeOpening' /\ ConsumerRuns' /\ RequestsCarry' /\ OneChange' /\ Known'
  BY <1>2, <1>4, <1>5, <1>7 DEF BeforeOpening, ConsumerRuns, RequestsCarry, OneChange, Known, Opening,
     Acp!At, Acp!In, Acp!Busy
<1>10. RowFollows' BY <1>1, <1>4, <1>5 DEF RowFollows, Unsaved
<1> QED BY <1>8, <1>9, <1>10 DEF AcpIInv

\* What is known when a session is about to open.
LEMMA AtOpening ==
  ASSUME Acp!AcpAssumption, AcpIInv, Acp!At("open")
  PROVE  /\ agent # Nil /\ agent \in Acp!Agent /\ cli \in Acp!Cli /\ chan = <<>>
         /\ ~lost => acpRow.id = given /\ acpRow.mode = seen /\ agent.observed = seen
<1>1. Acp!TypeOK /\ BeforeOpening /\ ConsumerRuns /\ RowFollows BY DEF AcpIInv
<1>2. agent # Nil /\ chan = <<>> /\ pend = "off"
  BY <1>1 DEF BeforeOpening, ConsumerRuns, Opening, Acp!At
<1> QED BY <1>1, <1>2, AgentIs, NothingOnItsWay DEF RowFollows

\* A new session: its id is on its way, and perhaps its mode.
LEMMA OpenNewKeeps == ASSUME Acp!AcpAssumption, AcpIInv, Acp!OpenNew PROVE AcpIInv'
<1> DEFINE n == ids + 1
           a == [agent EXCEPT !.pc = "align", !.id = n, !.told = TRUE]
           b == [a EXCEPT !.told = FALSE]
           e == <<"id", n>>
           named == <<e>>
           new == [cli EXCEPT !.id = n]
<1>1. Acp!TypeOK BY DEF AcpIInv
<1>2. Acp!At("open") BY DEF Acp!OpenNew
<1>3. /\ agent # Nil /\ agent \in Acp!Agent /\ cli \in Acp!Cli /\ chan = <<>>
      /\ ~lost => acpRow.id = given /\ acpRow.mode = seen /\ agent.observed = seen
  BY <1>2, AtOpening
<1>4. n \in Acp!Ids BY <1>1, NoneApart DEF Acp!OpenNew, Acp!TypeOK, Acp!Ids
<1>5. e \in Acp!DomainEvents /\ e[1] = "id" /\ e[2] = n BY <1>4, NamedEvents
<1>6. named \in Seq(Acp!DomainEvents) BY <1>5
<1>7. a \in Acp!Agent /\ a.pc = "align" /\ a.observed = agent.observed BY <1>3, <1>4 DEF Acp!Agent
<1>8. b \in Acp!Agent /\ b.pc = "align" /\ ~b.told /\ b.observed = agent.observed BY <1>7 DEF Acp!Agent
<1>9. new \in Acp!Cli /\ new.mode = cli.mode /\ cli.mode \in Modes BY <1>3, <1>4 DEF Acp!Cli
<1>10. /\ ids' = n /\ cli' = new /\ given' = n
       /\ \/ Acp!Observe(a, cli.mode, named)
          \/ agent' = b /\ chan' = chan \o named /\ seen' = seen
       /\ acpCall' = [acpCall EXCEPT ![Acp!Warmup] = [pc |-> "plan", mode |-> Nil]]
       /\ UNCHANGED <<path, acpRow, notes, pend, old, acpUsed, lost, acpCrossed>>
  BY DEF Acp!OpenNew
<1>11. \A x : Acp!LastMode(named, x) = x /\ Acp!LastId(named, x) = n
  BY <1>5, AcpSingle DEF Acp!LastMode, Acp!LastId
<1> HIDE DEF n, a, b, e, named, new
<1>12. CASE Acp!Observe(a, cli.mode, named)
  <2>1. /\ agent' \in Acp!Agent /\ agent'.observed = cli.mode /\ agent'.pc = "align"
        /\ seen' = cli.mode /\ seen' \in Acp!Mode /\ chan' \in Seq(Acp!DomainEvents)
        /\ \A x : Acp!LastMode(chan, x) = agent.observed
             => Acp!LastMode(chan', x) = Acp!LastMode(named, cli.mode)
        /\ \A x : Acp!LastId(chan', x) = Acp!LastId(named, Acp!LastId(chan, x))
    BY <1>1, <1>6, <1>7, <1>9, <1>12, Observing
  <2>2. ASSUME ~lost
    PROVE Acp!LastId(chan', acpRow.id) = given' /\ Acp!LastMode(chan', acpRow.mode) = seen'
    <3>1. Acp!LastMode(chan, acpRow.mode) = agent.observed BY <2>2, <1>3, AcpNowhere DEF Acp!LastMode
    <3> QED BY <3>1, <2>1, <1>10, <1>11
  <2> QED BY <2>1, <2>2, <1>2, <1>4, <1>9, <1>10, SessionOpens
<1>13. CASE agent' = b /\ chan' = chan \o named /\ seen' = seen
  <2>1. chan' = named BY <1>3, <1>6, <1>13
  <2>2. seen' \in Acp!Mode BY <1>1, <1>13 DEF Acp!TypeOK
  <2>3. ASSUME ~lost
        PROVE Acp!LastId(chan', acpRow.id) = given' /\ Acp!LastMode(chan', acpRow.mode) = seen'
                /\ agent'.observed = seen'
    BY <2>1, <2>3, <1>3, <1>8, <1>10, <1>11, <1>13
  <2> QED BY <2>1, <2>2, <2>3, <1>2, <1>4, <1>6, <1>8, <1>9, <1>10, <1>13, SessionOpens
<1> QED BY <1>10, <1>12, <1>13

\* A session that is resumed, and may say its mode.
LEMMA Resumes ==
  ASSUME Acp!AcpAssumption, AcpIInv, Acp!At("open"),
           NEW a \in Acp!Agent, a.pc = "align", a.observed = agent.observed,
         NEW m \in Modes, cli' \in Acp!Cli, a.told => m = cli'.mode,
         \/ Acp!Observe(a, m, <<>>)
         \/ agent' = [a EXCEPT !.told = FALSE] /\ UNCHANGED <<chan, seen>>,
         acpCall' = [acpCall EXCEPT ![Acp!Warmup] = [pc |-> "plan", mode |-> Nil]],
         ids' \in Acp!Ids,
         UNCHANGED <<path, acpRow, notes, pend, old, acpUsed, given, lost, acpCrossed>>
  PROVE  AcpIInv'
<1> DEFINE b == [a EXCEPT !.told = FALSE]
<1>1. Acp!TypeOK BY DEF AcpIInv
<1>2. /\ agent # Nil /\ agent \in Acp!Agent /\ chan = <<>>
      /\ ~lost => acpRow.id = given /\ acpRow.mode = seen /\ agent.observed = seen
  BY AtOpening
<1>3. b \in Acp!Agent /\ b.pc = "align" /\ ~b.told /\ b.observed = agent.observed BY DEF Acp!Agent
<1>4. \/ Acp!Observe(a, m, <<>>)
      \/ agent' = b /\ UNCHANGED <<chan, seen>>
  OBVIOUS
<1>5. given' \in Acp!Ids BY <1>1 DEF Acp!TypeOK
<1> HIDE DEF b
<1>6. CASE Acp!Observe(a, m, <<>>)
  <2>0. <<>> \in Seq(Acp!DomainEvents) OBVIOUS
  <2>1. /\ agent' \in Acp!Agent /\ agent'.observed = m /\ agent'.pc = "align" /\ agent'.told = a.told
        /\ seen' = m /\ seen' \in Acp!Mode /\ chan' \in Seq(Acp!DomainEvents)
        /\ \A x : Acp!LastMode(chan, x) = agent.observed
             => Acp!LastMode(chan', x) = Acp!LastMode(<<>>, m)
        /\ \A x : Acp!LastId(chan', x) = Acp!LastId(<<>>, Acp!LastId(chan, x))
    BY <2>0, <1>1, <1>6, Observing
  <2>2. ASSUME ~lost
    PROVE Acp!LastId(chan', acpRow.id) = given' /\ Acp!LastMode(chan', acpRow.mode) = seen'
    <3>1. Acp!LastMode(chan, acpRow.mode) = agent.observed /\ Acp!LastId(chan, acpRow.id) = given
      BY <2>2, <1>2, AcpNowhere DEF Acp!LastMode, Acp!LastId
    <3>2. Acp!LastMode(<<>>, m) = m /\ Acp!LastId(<<>>, given) = given
      BY AcpNowhere DEF Acp!LastMode, Acp!LastId
    <3> QED BY <3>1, <3>2, <2>1
  <2> QED BY <2>1, <2>2, <1>5, SessionOpens
<1>7. CASE agent' = b /\ UNCHANGED <<chan, seen>>
  <2>1. seen' \in Acp!Mode /\ chan' \in Seq(Acp!DomainEvents) BY <1>1, <1>7 DEF Acp!TypeOK
  <2>2. ASSUME ~lost
        PROVE Acp!LastId(chan', acpRow.id) = given' /\ Acp!LastMode(chan', acpRow.mode) = seen'
                /\ agent'.observed = seen'
    BY <2>2, <1>2, <1>3, <1>7, AcpNowhere DEF Acp!LastMode, Acp!LastId
  <2> QED BY <2>1, <2>2, <1>3, <1>5, <1>7, SessionOpens
<1> QED BY <1>4, <1>6, <1>7

\* The three ways to resume keep the invariant.
LEMMA ResumesKeep == ASSUME Acp!AcpAssumption, AcpIInv, Acp!ResumeMeta \/ Acp!ResumeLoad
                              \/ Acp!ResumeBlind
  PROVE AcpIInv'
<1>1. Acp!TypeOK /\ Acp!At("open") BY DEF AcpIInv, Acp!ResumeMeta, Acp!ResumeLoad, Acp!ResumeBlind
<1>2. agent # Nil /\ agent \in Acp!Agent /\ agent.id \in Acp!Ids /\ cli \in Acp!Cli
        /\ cli.id \in Acp!Ids /\ cli.mode \in Modes
      /\ agent.observed \in Acp!Mode
  BY <1>1, AgentIs DEF Acp!At
<1>3. CASE Acp!ResumeMeta
  <2> DEFINE a == [agent EXCEPT !.pc = "align", !.told = TRUE]
  <2>1. PICK n \in {agent.id, ids + 1} :
          /\ n <= MaxSessions
          /\ ids' = IF n > ids THEN n ELSE ids
          /\ cli' = [cli EXCEPT !.id = n]
          /\ \/ Acp!Observe(a, cli.mode, <<>>)
             \/ agent' = [a EXCEPT !.told = FALSE] /\ UNCHANGED <<chan, seen>>
    BY <1>3 DEF Acp!ResumeMeta
  <2>2. n \in Acp!Ids /\ ids' \in Acp!Ids BY <1>1, <1>2, <2>1, NoneApart DEF Acp!TypeOK, Acp!Ids
  <2>3. cli' \in Acp!Cli /\ cli'.mode = cli.mode BY <1>2, <2>1, <2>2 DEF Acp!Cli
  <2>4. a \in Acp!Agent /\ a.pc = "align" /\ a.observed = agent.observed BY <1>2 DEF Acp!Agent
  <2> HIDE DEF a
  <2>5. /\ acpCall' = [acpCall EXCEPT ![Acp!Warmup] = [pc |-> "plan", mode |-> Nil]]
        /\ UNCHANGED <<path, acpRow, notes, pend, old, acpUsed, given, lost, acpCrossed>>
    BY <1>3 DEF Acp!ResumeMeta
  <2> QED BY <1>1, <1>2, <2>1, <2>2, <2>3, <2>4, <2>5, Resumes
<1>4. CASE Acp!ResumeLoad
  <2> DEFINE a == [agent EXCEPT !.pc = "align", !.told = agent.observed = Nil]
  <2>1. PICK m \in Modes :
          /\ cli' = [id |-> agent.id, mode |-> m]
          /\ \/ Acp!Observe(a, IF agent.observed = Nil THEN m ELSE agent.observed, <<>>)
             \/ agent' = [a EXCEPT !.told = FALSE] /\ UNCHANGED <<chan, seen>>
    BY <1>4 DEF Acp!ResumeLoad
  <2> DEFINE o == IF agent.observed = Nil THEN m ELSE agent.observed
  <2>2. cli' \in Acp!Cli /\ cli'.mode = m BY <1>2, <2>1 DEF Acp!Cli
  <2>3. a \in Acp!Agent /\ a.pc = "align" /\ a.observed = agent.observed
          /\ a.told = (agent.observed = Nil)
    BY <1>2 DEF Acp!Agent
  <2>4. o \in Modes /\ (a.told => o = cli'.mode) BY <1>2, <2>2, <2>3 DEF Acp!Mode
  <2>5. /\ acpCall' = [acpCall EXCEPT ![Acp!Warmup] = [pc |-> "plan", mode |-> Nil]]
        /\ UNCHANGED <<path, acpRow, ids, notes, pend, old, acpUsed, given, lost, acpCrossed>>
    BY <1>4 DEF Acp!ResumeLoad
  <2>6. \/ Acp!Observe(a, o, <<>>)
        \/ agent' = [a EXCEPT !.told = FALSE] /\ UNCHANGED <<chan, seen>>
    BY <2>1
  <2>7. ids' \in Acp!Ids BY <1>1, <2>5 DEF Acp!TypeOK
  <2> HIDE DEF a, o
  <2> QED BY <1>1, <2>2, <2>3, <2>4, <2>5, <2>6, <2>7, Resumes
<1>5. CASE Acp!ResumeBlind
  <2> DEFINE a == [agent EXCEPT !.pc = "align"]
             new == [cli EXCEPT !.id = agent.id]
  <2>1. a \in Acp!Agent /\ a.pc = "align" /\ a.observed = agent.observed /\ a.told = agent.told
    BY <1>2 DEF Acp!Agent
  <2>2. new \in Acp!Cli BY <1>2 DEF Acp!Cli
  <2>3. /\ agent' = a /\ cli' = new
        /\ acpCall' = [acpCall EXCEPT ![Acp!Warmup] = [pc |-> "plan", mode |-> Nil]]
        /\ UNCHANGED <<path, acpRow, ids, notes, chan, pend, old, acpUsed, seen, given, lost, acpCrossed>>
    BY <1>5 DEF Acp!ResumeBlind
  <2> HIDE DEF a, new
  <2>4. ~agent.told BY <1>1, <1>2 DEF AcpIInv, BeforeOpening, Opening, Acp!At
  <2>5. /\ chan = <<>>
        /\ ~lost => acpRow.id = given /\ acpRow.mode = seen /\ agent.observed = seen
    BY <1>1, AtOpening
  <2>6. ~lost => /\ Acp!LastId(chan', acpRow.id) = given' /\ Acp!LastMode(chan', acpRow.mode) = seen'
                 /\ agent'.observed = seen'
    BY <2>1, <2>3, <2>5, AcpNowhere DEF Acp!LastMode, Acp!LastId
  <2>7. chan' \in Seq(Acp!DomainEvents) /\ seen' \in Acp!Mode /\ given' \in Acp!Ids /\ ids' \in Acp!Ids
    BY <1>1, <2>3 DEF Acp!TypeOK
  <2> QED BY <1>1, <2>1, <2>2, <2>3, <2>4, <2>6, <2>7, SessionOpens
<1> QED BY <1>3, <1>4, <1>5

\* A handshake that fails leaves nothing on its way.
LEMMA OpenFailsKeeps == ASSUME Acp!AcpAssumption, AcpIInv, Acp!OpenFails PROVE AcpIInv'
<1>1. Acp!TypeOK /\ BeforeOpening /\ ConsumerRuns /\ OneChange /\ RowFollows BY DEF AcpIInv
<1>2. acpUsed' \in [Acp!Kinds -> Nat] BY <1>1, AcpSpending DEF Acp!OpenFails, Acp!Kinds
<1>3. Acp!At("open") /\ agent # Nil BY DEF Acp!OpenFails, Acp!At
<1>4. /\ agent' = Nil /\ cli' = Nil
      /\ UNCHANGED <<path, acpRow, ids, acpCall, notes, chan, pend, old, seen, given, lost, acpCrossed>>
  BY DEF Acp!OpenFails
<1>5. chan = <<>> /\ notes = <<>> /\ pend = "off" /\ \A c \in Acp!Callers : acpCall[c] = Nil
  BY <1>1, <1>3 DEF BeforeOpening, ConsumerRuns, Opening, Acp!At
<1>6. ~lost => acpRow.id = given /\ acpRow.mode = seen BY <1>3, AtOpening
<1>7. Acp!TypeOK' BY <1>1, <1>2, <1>4 DEF Acp!TypeOK
<1>8. BeforeOpening' /\ ConsumerRuns' /\ RequestsCarry' /\ OneChange' /\ Known'
  BY <1>4, <1>5 DEF BeforeOpening, ConsumerRuns, RequestsCarry, OneChange, Known, Opening, Acp!At,
     Acp!In, Acp!Busy
<1>9. RowFollows'
  <2> SUFFICES ASSUME ~lost
               PROVE  IF old = Nil THEN acpRow = [id |-> given, mode |-> seen]
                      ELSE Unsaved(old.chan, old.pend, given, seen)
    BY <1>4 DEF RowFollows, Unsaved
  <2>1. CASE old = Nil BY <2>1, <1>1, <1>6, RowIs
  <2>2. CASE old # Nil
    <3>1. old.chan = <<>> /\ old.pend = Nil BY <2>2, <1>1, <1>3 DEF RowFollows
    <3> QED BY <3>1, <2>2, <1>6, NothingOnItsWay
  <2> QED BY <2>1, <2>2
<1> QED BY <1>7, <1>8, <1>9 DEF AcpIInv

\* What was announced goes behind what is on its way.
LEMMA Ending ==
  ASSUME Acp!AcpAssumption, Acp!TypeOK
  PROVE  LET rest == [i \in DOMAIN notes |-> <<"mode", notes[i]>>]
             s == chan \o rest
         IN /\ s \in Seq(Acp!DomainEvents) /\ rest \in Seq(Acp!DomainEvents)
            /\ \A x : Acp!LastId(s, x) = Acp!LastId(chan, x)
            /\ \A x : Acp!LastMode(s, x) = Acp!LastMode(rest, Acp!LastMode(chan, x))
<1> DEFINE rest == [i \in DOMAIN notes |-> <<"mode", notes[i]>>]
<1>1. DOMAIN notes = 1 .. Len(notes) /\ Len(notes) \in Nat BY LenProperties DEF Acp!TypeOK
<1>2. \A i \in DOMAIN notes : notes[i] \in Modes BY <1>1, ElementOfSeq DEF Acp!TypeOK
<1>3. \A i \in DOMAIN notes : <<"mode", notes[i]>> \in Acp!DomainEvents BY <1>2, NamedEvents
<1>4. rest \in [1 .. Len(notes) -> Acp!DomainEvents] BY <1>1, <1>3
<1>5. rest \in Seq(Acp!DomainEvents) BY <1>1, <1>4, IsASeq
<1>6. \A i \in DOMAIN rest : rest[i][1] # "id" OBVIOUS
<1>7. chan \in Seq(Acp!DomainEvents) BY DEF Acp!TypeOK
<1> HIDE DEF rest
<1>8. chan \o rest \in Seq(Acp!DomainEvents) BY <1>5, <1>7, ConcatProperties
<1>9. ASSUME NEW x PROVE Acp!LastId(chan \o rest, x) = Acp!LastId(chan, x)
  <2>1. Acp!LastId(chan \o rest, x) = Acp!LastId(rest, Acp!LastId(chan, x))
    BY <1>5, <1>7, LastJoined DEF Acp!LastId
  <2>2. Acp!LastId(rest, Acp!LastId(chan, x)) = Acp!LastId(chan, x) BY <1>6, LastNone DEF Acp!LastId
  <2> QED BY <2>1, <2>2
<1>10. ASSUME NEW x PROVE Acp!LastMode(chan \o rest, x) = Acp!LastMode(rest, Acp!LastMode(chan, x))
  BY <1>5, <1>7, LastJoined DEF Acp!LastMode
<1> QED BY <1>5, <1>8, <1>9, <1>10 DEF rest

\* The end of an agent leaves to its consumer what is on its way.
LEMMA KillKeeps == ASSUME Acp!AcpAssumption, AcpIInv, Acp!Kill PROVE AcpIInv'
<1> DEFINE rest == [i \in DOMAIN notes |-> <<"mode", notes[i]>>]
           s == chan \o rest
           new == [chan |-> s, pend |-> pend]
<1>1. Acp!TypeOK /\ ConsumerRuns /\ RowFollows BY DEF AcpIInv
<1>2. acpUsed' \in [Acp!Kinds -> Nat] BY <1>1, AcpSpending DEF Acp!Kill, Acp!Kinds
<1>3. /\ s \in Seq(Acp!DomainEvents) /\ rest \in Seq(Acp!DomainEvents)
      /\ \A x : Acp!LastId(s, x) = Acp!LastId(chan, x)
      /\ \A x : Acp!LastMode(s, x) = Acp!LastMode(rest, Acp!LastMode(chan, x))
  BY <1>1, Ending
<1>4. agent # Nil /\ pend # "off" BY <1>1 DEF Acp!Kill, ConsumerRuns, Acp!At
<1>5. pend \in Acp!Mode BY <1>1, <1>4 DEF Acp!TypeOK
<1>6. /\ old' = new /\ seen' = Acp!LastMode(rest, seen)
      /\ agent' = Nil /\ cli' = Nil /\ chan' = <<>> /\ notes' = <<>> /\ pend' = "off"
      /\ acpCall' = [c \in Acp!Callers |-> Nil]
      /\ UNCHANGED <<path, acpRow, ids, given, lost, acpCrossed>>
  BY DEF Acp!Kill
<1> HIDE DEF s, rest
<1>7. new \in Acp!Left /\ new.chan = s /\ new.pend = pend BY <1>3, <1>5 DEF Acp!Left
<1> HIDE DEF new
<1>8. new # Nil BY <1>7, NoneApart
<1>9. Acp!TypeOK'
  <2>1. seen' \in Acp!Mode BY <1>1, <1>3, <1>6, LastIsTyped DEF Acp!TypeOK
  <2>2. notes' \in Seq(Modes) /\ chan' \in Seq(Acp!DomainEvents) BY <1>6
  <2> QED BY <1>1, <1>2, <1>6, <1>7, <2>1, <2>2 DEF Acp!TypeOK
<1>10. BeforeOpening' /\ ConsumerRuns' /\ RequestsCarry' /\ OneChange' /\ Known'
  BY <1>6 DEF BeforeOpening, ConsumerRuns, RequestsCarry, OneChange, Known, Opening, Acp!At, Acp!In,
     Acp!Busy
<1>11. RowFollows'
  <2> SUFFICES ASSUME ~lost PROVE Unsaved(old.chan, old.pend, given, seen)'
    BY <1>6, <1>8 DEF RowFollows, Unsaved
  <2>1. Unsaved(chan, pend, given, seen) BY <1>1, <1>4 DEF RowFollows
  <2> QED BY <2>1, <1>3, <1>6, <1>7 DEF Unsaved
<1> QED BY <1>9, <1>10, <1>11 DEF AcpIInv

\* A crash loses what is on its way, and keeps the invariant.
LEMMA CrashKeeps == ASSUME Acp!AcpAssumption, AcpIInv, Acp!Crash PROVE AcpIInv'
<1>1. Acp!TypeOK /\ ConsumerRuns /\ RowFollows BY DEF AcpIInv
<1>2. acpUsed' \in [Acp!Kinds -> Nat] BY <1>1, AcpSpending DEF Acp!Crash, Acp!Kinds
<1>3. /\ lost' = (lost \/ chan # <<>> \/ pend \in Modes \/ old # Nil \/ notes # <<>> \/ Acp!Busy)
      /\ agent' = Nil /\ cli' = Nil /\ chan' = <<>> /\ notes' = <<>> /\ pend' = "off" /\ old' = Nil
      /\ acpCall' = [c \in Acp!Callers |-> Nil]
      /\ UNCHANGED <<path, acpRow, ids, seen, given, acpCrossed>>
  BY DEF Acp!Crash
<1>4. Acp!TypeOK'
  <2>1. lost' \in BOOLEAN BY <1>1, <1>3 DEF Acp!TypeOK, Acp!Busy
  <2>2. notes' \in Seq(Modes) /\ chan' \in Seq(Acp!DomainEvents) BY <1>3
  <2> QED BY <1>1, <1>2, <1>3, <2>1, <2>2 DEF Acp!TypeOK
<1>5. BeforeOpening' /\ ConsumerRuns' /\ RequestsCarry' /\ OneChange' /\ Known'
  BY <1>3 DEF BeforeOpening, ConsumerRuns, RequestsCarry, OneChange, Known, Opening, Acp!At, Acp!In,
     Acp!Busy
<1>6. RowFollows'
  <2> SUFFICES ASSUME ~lost' PROVE acpRow = [id |-> given, mode |-> seen]
    BY <1>3 DEF RowFollows
  <2>1. ~lost /\ chan = <<>> /\ pend \notin Modes /\ old = Nil BY <1>3
  <2>2. CASE agent = Nil BY <2>1, <2>2, <1>1 DEF RowFollows
  <2>3. CASE agent # Nil
    <3>1. Unsaved(<<>>, pend, given, seen) BY <2>1, <2>3, <1>1 DEF RowFollows
    <3>2. pend \in {"off", Nil} BY <2>1, <1>1 DEF Acp!TypeOK, Acp!Mode
    <3> QED BY <3>1, <3>2, <1>1, NothingOnItsWay, RowIs
  <2> QED BY <2>2, <2>3
<1> QED BY <1>4, <1>5, <1>6 DEF AcpIInv

\* The end of the warm-up and the new consumer keep the invariant.
LEMMA AttachKeeps == ASSUME Acp!AcpAssumption, AcpIInv, Acp!Opened \/ Acp!Attach PROVE AcpIInv'
<1> DEFINE a == [agent EXCEPT !.pc = "attach"]
           b == [agent EXCEPT !.pc = "ready"]
<1>1. Acp!TypeOK /\ BeforeOpening /\ ConsumerRuns /\ RequestsCarry /\ OneChange /\ Known /\ RowFollows
  BY DEF AcpIInv
<1>2. agent # Nil /\ agent \in Acp!Agent BY <1>1, AgentIs DEF Acp!Opened, Acp!Attach, Acp!At
<1>3. /\ a \in Acp!Agent /\ a.pc = "attach" /\ a.told = agent.told /\ a.observed = agent.observed
      /\ b \in Acp!Agent /\ b.pc = "ready" /\ b.told = agent.told /\ b.observed = agent.observed
  BY <1>2 DEF Acp!Agent
<1>4. agent.pc \in {"align", "attach"} /\ pend = "off"
  BY <1>1 DEF Acp!Opened, Acp!Attach, Acp!At, ConsumerRuns
<1>5. /\ \/ agent' = a /\ pend' = pend /\ old' = old /\ lost' = lost
         \/ agent' = b /\ pend' = Nil /\ old' = Nil /\ lost' = (lost \/ Acp!Unwritten)
      /\ UNCHANGED <<path, acpRow, cli, ids, acpCall, notes, chan, acpUsed, seen, given, acpCrossed>>
  BY DEF Acp!Opened, Acp!Attach
<1> HIDE DEF a, b
<1>6. agent' \in Acp!Agent /\ agent' # Nil /\ agent'.told = agent.told
        /\ agent'.observed = agent.observed
      /\ agent'.pc \in {"attach", "ready"} /\ (agent'.pc = "ready" <=> agent' = b)
  BY <1>3, <1>5, NoneApart
<1>7. Acp!TypeOK'
  <2>1. pend' \in Acp!Mode \cup {"off"} /\ old' \in Acp!Left \cup {Nil}
    BY <1>1, <1>5 DEF Acp!TypeOK, Acp!Mode
  <2>2. lost' \in BOOLEAN BY <1>1, <1>5 DEF Acp!TypeOK, Acp!Unwritten
  <2> QED BY <1>1, <1>2, <1>5, <1>6, <2>1, <2>2 DEF Acp!TypeOK
<1>8. BeforeOpening' BY <1>6 DEF BeforeOpening, Opening
<1>9. ConsumerRuns'
  <2>1. CASE agent' = a /\ pend' = pend
    BY <2>1, <1>3, <1>4, <1>6 DEF ConsumerRuns, Acp!At
  <2>2. CASE agent' = b /\ pend' = Nil
    BY <2>2, <1>3, <1>6, NoneApart DEF ConsumerRuns, Acp!At
  <2> QED BY <2>1, <2>2, <1>5
<1>10. RequestsCarry' /\ OneChange' /\ Known'
  BY <1>1, <1>2, <1>5, <1>6 DEF RequestsCarry, OneChange, Known, Acp!In, Acp!Busy
<1>11. RowFollows'
  <2> SUFFICES ASSUME ~lost'
               PROVE  /\ Unsaved(chan, pend, given, seen)' /\ agent'.observed = seen'
                      /\ old' # Nil => old'.chan = <<>> /\ old'.pend = Nil
    BY <1>6 DEF RowFollows
  <2>1. ~lost BY <1>5
  <2>2. Unsaved(chan, pend, given, seen) /\ agent.observed = seen BY <2>1, <1>1, <1>2 DEF RowFollows
  <2>3. Unsaved(chan, pend, given, seen)' BY <2>2, <1>4, <1>5 DEF Unsaved
  <2>4. old' # Nil => old'.chan = <<>> /\ old'.pend = Nil BY <2>1, <1>1, <1>2, <1>5 DEF RowFollows
  <2> QED BY <2>2, <2>3, <2>4, <1>5, <1>6
<1> QED BY <1>7, <1>8, <1>9, <1>10, <1>11 DEF AcpIInv

\* A request counts as crossed unless it is alone.
LEMMA SetModeKeeps ==
  ASSUME Acp!AcpAssumption, AcpIInv, NEW c \in Pair, NEW m \in Modes, Acp!SetMode(c, m) PROVE AcpIInv'
<1> DEFINE a == [agent EXCEPT !.desired = m]
           new == [pc |-> "plan", mode |-> Nil]
<1>1. Acp!TypeOK /\ BeforeOpening /\ ConsumerRuns /\ RequestsCarry /\ OneChange /\ Known /\ RowFollows
  BY DEF AcpIInv
<1>2. acpUsed' \in [Acp!Kinds -> Nat] BY <1>1, AcpSpending DEF Acp!SetMode, Acp!Kinds
<1>3. agent # Nil /\ agent \in Acp!Agent /\ agent.pc = "ready" BY <1>1, AgentIs DEF Acp!SetMode, Acp!At
<1>4. /\ a \in Acp!Agent /\ a.pc = "ready" /\ a.told = agent.told /\ a.observed = agent.observed
      /\ new \in Acp!Request /\ new.pc = "plan"
  BY <1>3 DEF Acp!Agent, Acp!Mode, Acp!Request
<1>5. /\ agent' = a /\ acpCall' = [acpCall EXCEPT ![c] = new] /\ acpCall[c] = Nil
      /\ acpCrossed' = (acpCrossed \/ Acp!Busy \/ notes # <<>>)
      /\ UNCHANGED <<path, acpRow, cli, ids, notes, chan, pend, old, seen, given, lost>>
  BY DEF Acp!SetMode
<1> HIDE DEF a, new
<1>6. agent' # Nil /\ c \in Acp!Callers BY <1>4, <1>5, NoneApart DEF Acp!Callers
<1>7. Acp!TypeOK'
  <2>1. acpCall' \in [Acp!Callers -> Acp!Request \cup {Nil}] BY <1>1, <1>4, <1>5, <1>6 DEF Acp!TypeOK
  <2>2. acpCrossed' \in BOOLEAN BY <1>1, <1>5 DEF Acp!TypeOK, Acp!Busy
  <2> QED BY <1>1, <1>2, <1>3, <1>4, <1>5, <1>6, <2>1, <2>2 DEF Acp!TypeOK
<1>8. \A d \in Acp!Callers : acpCall'[d] = IF d = c THEN new ELSE acpCall[d]
  BY <1>1, <1>5 DEF Acp!TypeOK
<1>9. BeforeOpening' /\ ConsumerRuns'
  BY <1>1, <1>3, <1>4, <1>5, <1>6 DEF BeforeOpening, ConsumerRuns, Opening, Acp!At
<1>10. RequestsCarry' BY <1>1, <1>4, <1>8 DEF RequestsCarry, Acp!In
<1>11. OneChange' BY <1>1, <1>5, <1>8 DEF OneChange, Acp!Busy
<1>12. Known' BY <1>1, <1>3, <1>4, <1>5, <1>8 DEF Known, Acp!In, Acp!Busy
<1>13. RowFollows' BY <1>1, <1>3, <1>4, <1>5, <1>6 DEF RowFollows, Unsaved
<1> QED BY <1>7, <1>9, <1>10, <1>11, <1>12, <1>13 DEF AcpIInv

\* Requests are those of an agent with a session.
LEMMA CallersHaveAgent == ASSUME AcpIInv, NEW c \in Acp!Callers, acpCall[c] # Nil
  PROVE agent # Nil /\ agent.pc \notin {"restore", "open"}
  BY DEF AcpIInv, BeforeOpening, Opening

\* A request that goes on, or ends, before the aggregate hears of it.
LEMMA RequestMoves ==
  ASSUME Acp!AcpAssumption, AcpIInv, NEW c \in Acp!Callers, acpCall[c] # Nil, ~Acp!In(c, "apply"),
         NEW new \in Acp!Request \cup {Nil}, acpCall' = [acpCall EXCEPT ![c] = new],
         new # Nil => new.pc \in {"sent", "apply"} /\ new.mode \in Modes,
         cli' \in Acp!Cli,
         IF new # Nil /\ new.pc = "apply" THEN cli'.mode = new.mode ELSE cli' = cli,
         acpUsed' \in [Acp!Kinds -> Nat],
         UNCHANGED <<path, acpRow, agent, ids, notes, chan, pend, old, seen, given, lost, acpCrossed>>
  PROVE  AcpIInv'
<1>1. Acp!TypeOK /\ BeforeOpening /\ ConsumerRuns /\ RequestsCarry /\ OneChange /\ Known /\ RowFollows
  BY DEF AcpIInv
<1>2. agent # Nil /\ agent.pc \notin {"restore", "open"} BY CallersHaveAgent
<1>3. Acp!TypeOK'
  <2>1. acpCall' \in [Acp!Callers -> Acp!Request \cup {Nil}] BY <1>1 DEF Acp!TypeOK
  <2> QED BY <1>1, <1>2, <2>1, NoneApart DEF Acp!TypeOK
<1>4. \A d \in Acp!Callers : acpCall'[d] = IF d = c THEN new ELSE acpCall[d] BY <1>1 DEF Acp!TypeOK
<1>5. BeforeOpening' /\ ConsumerRuns' BY <1>1, <1>2 DEF BeforeOpening, ConsumerRuns, Opening, Acp!At
<1>6. RequestsCarry' BY <1>1, <1>4 DEF RequestsCarry, Acp!In
<1>7. OneChange' BY <1>1, <1>4 DEF OneChange, Acp!Busy
<1>8. Known'
  <2> SUFFICES ASSUME agent.told, ~acpCrossed
      PROVE /\ notes # <<>> => notes[Len(notes)] = cli'.mode
            /\ \A d \in Acp!Callers : Acp!In(d, "apply")' => acpCall'[d].mode = cli'.mode
            /\ notes = <<>> /\ (\A d \in Acp!Callers : ~Acp!In(d, "apply")')
                 => agent.observed = cli'.mode
    BY DEF Known
  <2>1. notes = <<>> /\ \A d \in Acp!Callers : d # c => acpCall[d] = Nil BY <1>1 DEF OneChange, Acp!Busy
  <2>2. agent.observed = cli.mode BY <2>1, <1>1, <1>2 DEF Known, Acp!In
  <2> QED BY <2>1, <2>2, <1>4 DEF Acp!In
<1>9. RowFollows' BY <1>1, <1>2 DEF RowFollows, Unsaved
<1> QED BY <1>3, <1>5, <1>6, <1>7, <1>8, <1>9 DEF AcpIInv

\* Planning, refusal and success keep the invariant.
LEMMA RequestsKeep ==
  ASSUME Acp!AcpAssumption, AcpIInv,
           NEW c \in Acp!Callers, Acp!Plan(c) \/ Acp!CliRefuses(c) \/ Acp!CliSets(c)
    PROVE AcpIInv'
<1>1. Acp!TypeOK /\ RequestsCarry BY DEF AcpIInv
<1>2. acpCall[c] # Nil /\ acpCall[c] \in Acp!Request /\ ~Acp!In(c, "apply")
  BY <1>1 DEF Acp!Plan, Acp!CliRefuses, Acp!CliSets, Acp!In, Acp!TypeOK
<1>3. agent # Nil /\ agent.desired \in Acp!Mode /\ cli \in Acp!Cli
  BY <1>1, <1>2, CallersHaveAgent, AgentIs
<1>4. acpUsed' \in [Acp!Kinds -> Nat]
  BY <1>1, AcpSpending DEF Acp!Plan, Acp!CliRefuses, Acp!CliSets, Acp!Kinds, Acp!TypeOK
<1>5. CASE Acp!Plan(c)
  <2> DEFINE new == IF agent.desired \in {Nil, agent.observed} THEN Nil
                    ELSE [pc |-> "sent", mode |-> agent.desired]
  <2>1. new \in Acp!Request \cup {Nil} /\ (new # Nil => new.pc = "sent" /\ new.mode \in Modes)
    BY <1>3 DEF Acp!Request, Acp!Mode
  <2>2. /\ acpCall' = [acpCall EXCEPT ![c] = new] /\ cli' = cli
        /\ UNCHANGED <<path, acpRow, agent, ids, notes, chan, pend, old, seen, given, lost, acpCrossed>>
    BY <1>5 DEF Acp!Plan
  <2> HIDE DEF new
  <2>3. new # Nil => new.pc \in {"sent", "apply"} /\ new.mode \in Modes BY <2>1
  <2>4. IF new # Nil /\ new.pc = "apply" THEN cli'.mode = new.mode ELSE cli' = cli BY <2>1, <2>2
  <2>5. cli' \in Acp!Cli BY <1>3, <2>2
  <2> QED BY <1>2, <1>4, <2>1, <2>2, <2>3, <2>4, <2>5, RequestMoves
<1>6. CASE Acp!CliRefuses(c)
  <2>1. /\ acpCall' = [acpCall EXCEPT ![c] = Nil] /\ cli' = cli
        /\ UNCHANGED <<path, acpRow, agent, ids, notes, chan, pend, old, seen, given, lost, acpCrossed>>
    BY <1>6 DEF Acp!CliRefuses
  <2>2. Nil \in Acp!Request \cup {Nil} /\ cli' \in Acp!Cli BY <1>3, <2>1
  <2> QED BY <1>2, <1>4, <2>1, <2>2, RequestMoves
<1>7. CASE Acp!CliSets(c)
  <2> DEFINE new == [acpCall[c] EXCEPT !.pc = "apply"]
             after == [cli EXCEPT !.mode = acpCall[c].mode]
  <2>1. acpCall[c].mode \in Modes BY <1>1, <1>7 DEF Acp!CliSets, RequestsCarry
  <2>2. new \in Acp!Request /\ new.pc = "apply" /\ new.mode = acpCall[c].mode BY <1>2 DEF Acp!Request
  <2>3. after \in Acp!Cli /\ after.mode = acpCall[c].mode BY <1>3, <2>1 DEF Acp!Cli
  <2>4. /\ acpCall' = [acpCall EXCEPT ![c] = new] /\ cli' = after
        /\ UNCHANGED <<path, acpRow, agent, ids, notes, chan, pend, old, seen, given, lost, acpCrossed>>
    BY <1>1, <1>7 DEF Acp!CliSets, Acp!TypeOK
  <2> HIDE DEF new, after
  <2>5. new \in Acp!Request \cup {Nil} /\ new # Nil /\ new.pc \in {"sent", "apply"}
          /\ new.mode \in Modes
    BY <2>1, <2>2, NoneApart
  <2>6. cli' \in Acp!Cli /\ cli'.mode = new.mode BY <2>2, <2>3, <2>4
  <2> QED BY <1>2, <1>4, <2>2, <2>4, <2>5, <2>6, RequestMoves
<1> QED BY <1>5, <1>6, <1>7

\* What one observation does, with nothing behind it.
LEMMA ObservedKeeps ==
  ASSUME Acp!AcpAssumption, AcpIInv, agent # Nil, NEW m \in Modes, Acp!Observe(agent, m, <<>>)
  PROVE  /\ agent' \in Acp!Agent /\ agent' # Nil /\ agent'.observed = m
         /\ agent'.pc = agent.pc /\ agent'.told = agent.told
         /\ seen' = m /\ seen' \in Acp!Mode /\ chan' \in Seq(Acp!DomainEvents)
         /\ \A x : Acp!LastMode(chan, x) = agent.observed => Acp!LastMode(chan', x) = m
         /\ \A x : Acp!LastId(chan', x) = Acp!LastId(chan, x)
<1>1. Acp!TypeOK /\ agent \in Acp!Agent /\ <<>> \in Seq(Acp!DomainEvents) BY AgentIs DEF AcpIInv
<1>2. /\ agent' \in Acp!Agent /\ agent'.observed = m /\ agent'.pc = agent.pc /\ agent'.told = agent.told
      /\ seen' = m /\ seen' \in Acp!Mode /\ chan' \in Seq(Acp!DomainEvents)
      /\ \A x : Acp!LastMode(chan, x) = agent.observed => Acp!LastMode(chan', x) = Acp!LastMode(<<>>, m)
      /\ \A x : Acp!LastId(chan', x) = Acp!LastId(<<>>, Acp!LastId(chan, x))
  BY <1>1, Observing
<1>3. \A x : Acp!LastMode(<<>>, x) = x /\ Acp!LastId(<<>>, x) = x
  BY AcpNowhere DEF Acp!LastMode, Acp!LastId
<1> QED BY <1>2, <1>3, NoneApart

\* And the row will follow.
LEMMA RowFollowsObserved ==
  ASSUME Acp!AcpAssumption, AcpIInv, agent # Nil, NEW m \in Modes, Acp!Observe(agent, m, <<>>),
         UNCHANGED <<acpRow, pend, old, given, lost>>
  PROVE  RowFollows'
<1>1. RowFollows BY DEF AcpIInv
<1>2. /\ agent' # Nil /\ agent'.observed = m /\ seen' = m
      /\ \A x : Acp!LastMode(chan, x) = agent.observed => Acp!LastMode(chan', x) = m
      /\ \A x : Acp!LastId(chan', x) = Acp!LastId(chan, x)
  BY ObservedKeeps
<1>3. ~lost => Unsaved(chan, pend, given, seen) /\ agent.observed = seen BY <1>1 DEF RowFollows
<1>4. ~lost => Unsaved(chan, pend, given, seen)' BY <1>2, <1>3 DEF Unsaved
<1> QED BY <1>1, <1>2, <1>4 DEF RowFollows

\* The reply: what is observed is where the command-line agent is.
LEMMA ApplyKeeps == ASSUME Acp!AcpAssumption, AcpIInv, NEW c \in Acp!Callers, Acp!Apply(c)
  PROVE AcpIInv'
<1> DEFINE m == acpCall[c].mode
<1>1. Acp!TypeOK /\ BeforeOpening /\ ConsumerRuns /\ RequestsCarry /\ OneChange /\ Known BY DEF AcpIInv
<1>2. acpCall[c] # Nil /\ Acp!In(c, "apply") /\ m \in Modes BY <1>1 DEF Acp!Apply, Acp!In, RequestsCarry
<1>3. agent # Nil /\ agent.pc \notin {"restore", "open"} BY <1>2, CallersHaveAgent
<1>4. /\ Acp!Observe(agent, m, <<>>) /\ acpCall' = [acpCall EXCEPT ![c] = Nil]
      /\ UNCHANGED <<path, acpRow, cli, ids, notes, pend, old, acpUsed, given, lost, acpCrossed>>
  BY DEF Acp!Apply
<1> HIDE DEF m
<1>5. /\ agent' \in Acp!Agent /\ agent' # Nil /\ agent'.observed = m
      /\ agent'.pc = agent.pc /\ agent'.told = agent.told
      /\ seen' \in Acp!Mode /\ chan' \in Seq(Acp!DomainEvents)
  BY <1>2, <1>3, <1>4, ObservedKeeps
<1>6. Acp!TypeOK' BY <1>1, <1>3, <1>4, <1>5 DEF Acp!TypeOK
<1>7. \A d \in Acp!Callers : acpCall'[d] = IF d = c THEN Nil ELSE acpCall[d]
  BY <1>1, <1>4 DEF Acp!TypeOK
<1>8. BeforeOpening' /\ ConsumerRuns'
  BY <1>1, <1>3, <1>4, <1>5 DEF BeforeOpening, ConsumerRuns, Opening, Acp!At
<1>9. RequestsCarry' /\ OneChange' BY <1>1, <1>4, <1>7 DEF RequestsCarry, OneChange, Acp!In, Acp!Busy
<1>10. Known'
  <2>1. agent.told /\ ~acpCrossed => m = cli.mode BY <1>1, <1>2, <1>3 DEF Known, m
  <2>2. ~acpCrossed => notes = <<>> /\ \A d \in Acp!Callers : acpCall'[d] = Nil
    BY <1>1, <1>2, <1>7 DEF OneChange, Acp!Busy
  <2> QED BY <2>1, <2>2, <1>4, <1>5 DEF Known, Acp!In
<1>11. RowFollows' BY <1>2, <1>3, <1>4, RowFollowsObserved
<1> QED BY <1>6, <1>8, <1>9, <1>10, <1>11 DEF AcpIInv

\* Tracking an announced mode keeps the invariant.
LEMMA TrackKeeps == ASSUME Acp!AcpAssumption, AcpIInv, Acp!Track PROVE AcpIInv'
<1> DEFINE m == Head(notes)
<1>1. Acp!TypeOK /\ BeforeOpening /\ ConsumerRuns /\ RequestsCarry /\ OneChange /\ Known BY DEF AcpIInv
<1>2. agent # Nil /\ notes # <<>> /\ notes \in Seq(Modes) BY <1>1 DEF Acp!Track, Acp!TypeOK
<1>3. /\ m \in Modes /\ Tail(notes) \in Seq(Modes) /\ m = notes[1]
      /\ Len(notes) \in Nat /\ Len(notes) # 0 /\ Len(Tail(notes)) = Len(notes) - 1
      /\ \A i \in 1 .. Len(Tail(notes)) : Tail(notes)[i] = notes[i + 1]
  BY <1>2, HeadTailProperties, EmptySeq, LenProperties
<1>4. /\ Acp!Observe(agent, m, <<>>) /\ notes' = Tail(notes)
      /\ UNCHANGED <<path, acpRow, cli, ids, acpCall, pend, old, acpUsed, given, lost, acpCrossed>>
  BY DEF Acp!Track
<1> HIDE DEF m
<1>5. /\ agent' \in Acp!Agent /\ agent' # Nil /\ agent'.observed = m
      /\ agent'.pc = agent.pc /\ agent'.told = agent.told
      /\ seen' \in Acp!Mode /\ chan' \in Seq(Acp!DomainEvents)
  BY <1>2, <1>3, <1>4, ObservedKeeps
<1>6. agent.pc \notin {"restore", "open"} BY <1>1, <1>2 DEF BeforeOpening, Opening
<1>7. Acp!TypeOK' BY <1>1, <1>2, <1>3, <1>4, <1>5 DEF Acp!TypeOK
<1>8. BeforeOpening' /\ ConsumerRuns'
  BY <1>1, <1>2, <1>4, <1>5, <1>6 DEF BeforeOpening, ConsumerRuns, Opening, Acp!At
<1>9. RequestsCarry' /\ OneChange' BY <1>1, <1>2, <1>4 DEF RequestsCarry, OneChange, Acp!In, Acp!Busy
<1>10. Known'
  <2> SUFFICES ASSUME agent.told, ~acpCrossed
      PROVE /\ notes' # <<>> => notes'[Len(notes')] = cli.mode
            /\ \A d \in Acp!Callers : Acp!In(d, "apply") => acpCall[d].mode = cli.mode
            /\ notes' = <<>> => m = cli.mode
    BY <1>4, <1>5 DEF Known, Acp!In
  <2>1. notes[Len(notes)] = cli.mode /\ \A d \in Acp!Callers : Acp!In(d, "apply")
          => acpCall[d].mode = cli.mode
    BY <1>1, <1>2 DEF Known
  <2>2. ASSUME notes' # <<>> PROVE notes'[Len(notes')] = notes[Len(notes)]
    <3>1. Len(Tail(notes)) # 0 BY <1>3, <1>4, <2>2, EmptySeq
    <3>2. Len(Tail(notes)) \in 1 .. Len(Tail(notes)) BY <1>3, <3>1
    <3> QED BY <1>3, <1>4, <3>2
  <2>3. ASSUME notes' = <<>> PROVE m = notes[Len(notes)]
    <3>1. Tail(notes) = <<>> BY <1>4, <2>3
    <3>2. Len(Tail(notes)) = 0 BY <1>3, <3>1, EmptySeq
    <3>3. Len(notes) = 1 BY <1>3, <3>2
    <3> QED BY <1>3, <3>3
  <2> QED BY <2>1, <2>2, <2>3
<1>11. RowFollows' BY <1>2, <1>3, <1>4, RowFollowsObserved
<1> QED BY <1>7, <1>8, <1>9, <1>10, <1>11 DEF AcpIInv

\* A change of its own by the command-line agent is the last announced.
LEMMA CliMovesKeeps == ASSUME Acp!AcpAssumption, AcpIInv, NEW m \in Modes, Acp!CliMoves(m)
  PROVE AcpIInv'
<1> DEFINE new == [cli EXCEPT !.mode = m]
<1>1. Acp!TypeOK /\ BeforeOpening /\ ConsumerRuns /\ RequestsCarry /\ OneChange /\ Known /\ RowFollows
  BY DEF AcpIInv
<1>2. acpUsed' \in [Acp!Kinds -> Nat] BY <1>1, AcpSpending DEF Acp!CliMoves, Acp!Kinds
<1>3. agent # Nil /\ agent.pc \notin {"restore", "open"} /\ cli \in Acp!Cli
  BY <1>1 DEF Acp!CliMoves, Acp!TypeOK
<1>4. new \in Acp!Cli /\ new.mode = m BY <1>3 DEF Acp!Cli
<1>5. /\ cli' = new /\ notes' = Append(notes, m) /\ acpCrossed' = (acpCrossed \/ Acp!Busy)
      /\ UNCHANGED <<path, acpRow, agent, ids, acpCall, chan, pend, old, seen, given, lost>>
  BY DEF Acp!CliMoves
<1> HIDE DEF new
<1>6. notes' \in Seq(Modes) /\ notes' # <<>> /\ notes'[Len(notes')] = m
  <2>1. notes \in Seq(Modes) BY <1>1 DEF Acp!TypeOK
  <2> QED BY <2>1, <1>5, AppendProperties
<1>7. Acp!TypeOK'
  <2>1. acpCrossed' \in BOOLEAN BY <1>1, <1>5 DEF Acp!TypeOK, Acp!Busy
  <2> QED BY <1>1, <1>2, <1>3, <1>4, <1>5, <1>6, <2>1, NoneApart DEF Acp!TypeOK
<1>8. BeforeOpening' /\ ConsumerRuns' /\ RequestsCarry'
  BY <1>1, <1>3, <1>5 DEF BeforeOpening, ConsumerRuns, RequestsCarry, Opening, Acp!At, Acp!In
<1>9. OneChange' BY <1>1, <1>5 DEF OneChange, Acp!Busy
<1>10. Known' BY <1>4, <1>5, <1>6 DEF Known, Acp!In, Acp!Busy
<1>11. RowFollows' BY <1>1, <1>3, <1>5 DEF RowFollows, Unsaved
<1> QED BY <1>7, <1>8, <1>9, <1>10, <1>11 DEF AcpIInv

\* The consumer takes an event: what the row will say stays the same.
LEMMA ConsumeKeeps == ASSUME Acp!AcpAssumption, AcpIInv, Acp!Consume PROVE AcpIInv'
<1> DEFINE e == Head(chan)
           t == Tail(chan)
           saved == [acpRow EXCEPT !.id = e[2]]
<1>1. Acp!TypeOK /\ BeforeOpening /\ ConsumerRuns /\ RequestsCarry /\ OneChange /\ Known /\ RowFollows
  BY DEF AcpIInv
<1>2. pend # "off" /\ chan # <<>> /\ chan \in Seq(Acp!DomainEvents) /\ agent # Nil /\ agent.pc = "ready"
  BY <1>1 DEF Acp!Consume, Acp!TypeOK, ConsumerRuns, Acp!At
<1>3. e \in Acp!DomainEvents /\ t \in Seq(Acp!DomainEvents) BY <1>2, HeadTailProperties
<1>4. chan = <<e>> \o t BY <1>2, HeadTailAppend
<1>5. <<e>> \in Seq(Acp!DomainEvents) BY <1>3
<1>6. /\ chan' = t
      /\ IF e[1] = "id" THEN acpRow' = saved /\ pend' = pend ELSE pend' = e[2] /\ acpRow' = acpRow
      /\ UNCHANGED <<path, agent, cli, ids, acpCall, notes, old, acpUsed, seen, given, lost, acpCrossed>>
  BY DEF Acp!Consume
<1> HIDE DEF e, t
<1>7. \A kind, x : Acp!LastOf(kind, chan, x) = Acp!LastOf(kind, t, IF e[1] = kind THEN e[2] ELSE x)
  <2> DEFINE s == <<e>>
  <2>1. s \in Seq(Acp!DomainEvents) /\ chan = s \o t BY <1>4, <1>5
  <2>2. \A kind, x : Acp!LastOf(kind, s, x) = IF e[1] = kind THEN e[2] ELSE x BY AcpSingle
  <2> HIDE DEF s
  <2>3. ASSUME NEW kind, NEW x
    PROVE Acp!LastOf(kind, s \o t, x) = Acp!LastOf(kind, t, Acp!LastOf(kind, s, x))
    BY <1>3, <2>1, LastJoined
  <2> QED BY <2>1, <2>2, <2>3
<1>8. \/ e[1] = "id" /\ e[2] \in Acp!Ids
      \/ e[1] = "mode" /\ e[2] \in Modes
  BY <1>3, EventsSay
<1>9. e[2] \in Acp!Ids
        => saved \in [id : Acp!Ids, mode : Acp!Mode] /\ saved.id = e[2] /\ saved.mode = acpRow.mode
  BY <1>1 DEF Acp!TypeOK
<1> HIDE DEF saved
<1>10. Acp!TypeOK'
  <2>1. acpRow' \in [id : Acp!Ids, mode : Acp!Mode] BY <1>1, <1>6, <1>8, <1>9 DEF Acp!TypeOK
  <2>2. pend' \in Acp!Mode \cup {"off"} BY <1>1, <1>6, <1>8 DEF Acp!TypeOK, Acp!Mode
  <2> QED BY <1>1, <1>3, <1>6, <2>1, <2>2 DEF Acp!TypeOK
<1>11. BeforeOpening' /\ RequestsCarry' /\ OneChange' /\ Known'
  BY <1>1, <1>2, <1>6 DEF BeforeOpening, RequestsCarry, OneChange, Known, Opening, Acp!In, Acp!Busy
<1>12. pend' # "off" BY <1>2, <1>6, <1>8, NoneApart
<1>13. ConsumerRuns' BY <1>2, <1>6, <1>12 DEF ConsumerRuns, Acp!At
<1>14. RowFollows'
  <2>1. ASSUME ~lost PROVE Unsaved(chan, pend, given, seen)'
    <3>1. Unsaved(chan, pend, given, seen) BY <2>1, <1>1, <1>2 DEF RowFollows
    <3>2. CASE e[1] = "id"
      <4>1. /\ Acp!LastId(chan, acpRow.id) = Acp!LastId(t, e[2])
            /\ \A x : Acp!LastMode(chan, x) = Acp!LastMode(t, x)
        BY <3>2, <1>7 DEF Acp!LastId, Acp!LastMode
      <4>2. e[2] \in Acp!Ids BY <3>2, <1>8
      <4>3. /\ chan' = t /\ acpRow'.id = e[2] /\ acpRow'.mode = acpRow.mode
            /\ pend' = pend /\ given' = given /\ seen' = seen
        BY <3>2, <4>2, <1>6, <1>9
      <4>4. Acp!LastId(t, e[2]) = given BY <3>1, <4>1 DEF Unsaved
      <4>5. Acp!LastMode(t, IF pend \in {"off", Nil} THEN acpRow.mode ELSE pend) = seen
        BY <3>1, <4>1 DEF Unsaved
      <4> QED BY <4>3, <4>4, <4>5 DEF Unsaved
    <3>3. CASE e[1] = "mode" /\ e[2] \in Modes
      <4>1. /\ Acp!LastId(chan, acpRow.id) = Acp!LastId(t, acpRow.id)
            /\ \A x : Acp!LastMode(chan, x) = Acp!LastMode(t, e[2])
        BY <3>3, <1>7 DEF Acp!LastId, Acp!LastMode
      <4>2. e[2] \notin {"off", Nil} BY <3>3, NoneApart
      <4>3. chan' = t /\ acpRow' = acpRow /\ pend' = e[2] /\ given' = given /\ seen' = seen
        BY <3>3, <1>6
      <4>4. Acp!LastId(t, acpRow.id) = given /\ Acp!LastMode(t, e[2]) = seen BY <3>1, <4>1 DEF Unsaved
      <4> QED BY <4>2, <4>3, <4>4 DEF Unsaved
    <3> QED BY <3>2, <3>3, <1>8
  <2> QED BY <2>1, <1>1, <1>2, <1>6 DEF RowFollows
<1> QED BY <1>10, <1>11, <1>13, <1>14 DEF AcpIInv

\* The consumer writes the mode: what the row will say stays the same.
LEMMA AcpFlushKeeps == ASSUME Acp!AcpAssumption, AcpIInv, Acp!Flush PROVE AcpIInv'
<1> DEFINE saved == [acpRow EXCEPT !.mode = pend]
<1>1. Acp!TypeOK /\ BeforeOpening /\ ConsumerRuns /\ RequestsCarry /\ OneChange /\ Known /\ RowFollows
  BY DEF AcpIInv
<1>2. pend \in Modes /\ pend \notin {"off", Nil} BY NoneApart DEF Acp!Flush
<1>3. saved \in [id : Acp!Ids, mode : Acp!Mode] /\ saved.id = acpRow.id /\ saved.mode = pend
  BY <1>1, <1>2 DEF Acp!TypeOK, Acp!Mode
<1>4. /\ acpRow' = saved /\ pend' = Nil
      /\ UNCHANGED <<path, agent, cli, ids, acpCall, notes, chan, old, acpUsed, seen, given, lost, acpCrossed>>
  BY DEF Acp!Flush
<1> HIDE DEF saved
<1>5. agent # Nil /\ agent.pc = "ready" BY <1>1, <1>2 DEF ConsumerRuns, Acp!At
<1>6. Acp!TypeOK' BY <1>1, <1>3, <1>4 DEF Acp!TypeOK, Acp!Mode
<1>7. BeforeOpening' /\ ConsumerRuns' /\ RequestsCarry' /\ OneChange' /\ Known'
  BY <1>1, <1>4, <1>5, NoneApart
  DEF BeforeOpening, ConsumerRuns, RequestsCarry, OneChange, Known, Opening, Acp!At, Acp!In, Acp!Busy
<1>8. ~lost => Unsaved(chan, pend, given, seen) BY <1>1, <1>5 DEF RowFollows
<1>9. ~lost => Unsaved(chan, pend, given, seen)' BY <1>2, <1>3, <1>4, <1>8 DEF Unsaved
<1>10. RowFollows' BY <1>1, <1>4, <1>5, <1>9 DEF RowFollows
<1> QED BY <1>6, <1>7, <1>10 DEF AcpIInv

\* The consumer left behind makes the row what it would be.
LEMMA DrainKeeps == ASSUME Acp!AcpAssumption, AcpIInv, Acp!Drain PROVE AcpIInv'
<1> DEFINE x == IF old.pend = Nil THEN acpRow.mode ELSE old.pend
           i == Acp!LastId(old.chan, acpRow.id)
           m == Acp!LastMode(old.chan, x)
<1>1. Acp!TypeOK /\ BeforeOpening /\ ConsumerRuns /\ RequestsCarry /\ OneChange /\ Known /\ RowFollows
  BY DEF AcpIInv
<1>2. old # Nil /\ old.chan \in Seq(Acp!DomainEvents) /\ old.pend \in Acp!Mode
  BY <1>1 DEF Acp!Drain, Acp!TypeOK, Acp!Left
<1>3. acpRow.id \in Acp!Ids /\ acpRow.mode \in Acp!Mode
        /\ acpRow = [id |-> acpRow.id, mode |-> acpRow.mode]
  BY <1>1, RowIs
<1>4. i \in Acp!Ids /\ m \in Acp!Mode BY <1>2, <1>3, LastIsTyped
<1>5. /\ acpRow' = [id |-> i, mode |-> m] /\ old' = Nil
      /\ UNCHANGED <<path, agent, cli, ids, acpCall, notes, chan, pend, acpUsed, seen, given, lost, acpCrossed>>
  BY DEF Acp!Drain
<1>6. old.pend # "off" BY <1>2, NoneApart
<1>7. ~lost /\ agent = Nil => i = given /\ m = seen
  BY <1>1, <1>2, <1>6 DEF RowFollows, Unsaved
<1>8. ~lost /\ agent # Nil => i = acpRow.id /\ m = acpRow.mode
  BY <1>1, <1>2, AcpNowhere DEF RowFollows, Acp!LastId, Acp!LastMode
<1> HIDE DEF i, m, x
<1>9. Acp!TypeOK' BY <1>1, <1>4, <1>5 DEF Acp!TypeOK
<1>10. BeforeOpening' /\ ConsumerRuns' /\ RequestsCarry' /\ OneChange' /\ Known'
  BY <1>1, <1>5
  DEF BeforeOpening, ConsumerRuns, RequestsCarry, OneChange, Known, Opening, Acp!At, Acp!In, Acp!Busy
<1>11. RowFollows'
  <2>1. CASE agent = Nil BY <2>1, <1>5, <1>7 DEF RowFollows
  <2>2. CASE agent # Nil
    <3>1. ~lost => acpRow' = acpRow BY <2>2, <1>3, <1>5, <1>8
    <3> QED BY <3>1, <2>2, <1>1, <1>5 DEF RowFollows, Unsaved
  <2> QED BY <2>1, <2>2
<1> QED BY <1>9, <1>10, <1>11 DEF AcpIInv

\* Every step of a session keeps the invariant.
LEMMA AcpInductive == ASSUME Acp!AcpAssumption PROVE Acp!Spec => []AcpIInv
<1>1. Acp!Init => AcpIInv BY AcpInitial
<1>2. AcpIInv /\ [Acp!Next]_(Acp!vars) => AcpIInv'
  <2> SUFFICES ASSUME AcpIInv, [Acp!Next]_(Acp!vars) PROVE AcpIInv' OBVIOUS
  <2>1. CASE UNCHANGED Acp!vars
    BY <2>1 DEF Acp!vars, AcpIInv, Acp!TypeOK, BeforeOpening, ConsumerRuns, RequestsCarry, OneChange,
       Known,
                RowFollows, Unsaved, Opening, Acp!At, Acp!In, Acp!Busy
  <2>2. CASE Acp!Next
    <3>1. CASE Acp!Build \/ Acp!Restore BY <3>1, BuildKeeps, RestoreKeeps
    <3>2. CASE Acp!OpenNew \/ Acp!ResumeMeta \/ Acp!ResumeLoad \/ Acp!ResumeBlind \/ Acp!OpenFails
      BY <3>2, OpenNewKeeps, ResumesKeep, OpenFailsKeeps
    <3>3. CASE Acp!Opened \/ Acp!Attach BY <3>3, AttachKeeps
    <3>4. CASE Acp!Track \/ \E m \in Modes : Acp!CliMoves(m) BY <3>4, TrackKeeps, CliMovesKeeps
    <3>5. CASE Acp!Consume \/ Acp!Flush \/ Acp!Drain BY <3>5, ConsumeKeeps, AcpFlushKeeps, DrainKeeps
    <3>6. CASE Acp!Kill \/ Acp!Crash BY <3>6, KillKeeps, CrashKeeps
    <3>7. ASSUME NEW m \in Modes, NEW c \in Pair, Acp!SetMode(c, m) PROVE AcpIInv'
      BY <3>7, SetModeKeeps
    <3>8. ASSUME NEW c \in Acp!Callers, Acp!Plan(c) \/ Acp!CliSets(c) \/ Acp!CliRefuses(c)
                   \/ Acp!Apply(c)
      PROVE AcpIInv'
      BY <3>8, RequestsKeep, ApplyKeeps
    <3> QED BY <2>2, <3>1, <3>2, <3>3, <3>4, <3>5, <3>6, <3>7, <3>8 DEF Acp!Next
  <2> QED BY <2>1, <2>2
<1> QED BY <1>1, <1>2, PTL DEF Acp!Spec

\* A session by itself has the two properties.
LEMMA Observed ==
  ASSUME Acp!AcpAssumption
    PROVE Acp!Spec => [](Acp!TypeOK /\ Acp!RowIsLastObserved /\ Acp!ObservedIsActual)
<1>1. AcpIInv => Acp!TypeOK /\ Acp!RowIsLastObserved BY DEF AcpIInv, RowFollows, Acp!RowIsLastObserved
<1>2. AcpIInv => Acp!ObservedIsActual
  BY DEF AcpIInv, Known, Acp!ObservedIsActual, Acp!At, Acp!In, Acp!Busy
<1> QED BY <1>1, <1>2, AcpInductive, PTL

\* The group implements the service.
LEMMA AcpImplemented == AgentsSpec => Acp!Spec
<1>1. AgentsInit => Acp!Init BY DEF AgentsInit
<1>2. [AgentsNext]_agentsVars => [Acp!Next]_(Acp!vars)
  BY DEF AgentsNext, agentsVars, acpVars, Acp!vars
<1> QED BY <1>1, <1>2, PTL DEF AgentsSpec, Acp!Spec

\* For any number of modes, ids, requests, agents and crashes, and channels of
\* any length: between two agents the row has the mode and the id observed
\* last, unless what was on its way was lost (acp_session_sync.rs).
THEOREM RowFollowsAgent == ASSUME AgentsAssumption PROVE AgentsSpec => []RowIsLastObserved
<1>1. Acp!AcpAssumption BY DEF AgentsAssumption
<1>2. Acp!Spec => [](Acp!TypeOK /\ Acp!RowIsLastObserved /\ Acp!ObservedIsActual)
  BY <1>1, Observed
<1>3. Acp!RowIsLastObserved => RowIsLastObserved BY DEF RowIsLastObserved
<1> QED BY <1>2, <1>3, AcpImplemented, PTL

\* When nothing is under way, what is taken for observed is the mode of the
\* command-line agent, unless changes crossed or a resume trusted the row
\* (session.rs, agent_event_tracker.rs).
THEOREM ObservedIsTrue == ASSUME AgentsAssumption PROVE AgentsSpec => []ObservedIsActual
<1>1. Acp!AcpAssumption BY DEF AgentsAssumption
<1>2. Acp!Spec => [](Acp!TypeOK /\ Acp!RowIsLastObserved /\ Acp!ObservedIsActual)
  BY <1>1, Observed
<1>3. Acp!ObservedIsActual => ObservedIsActual BY DEF ObservedIsActual
<1> QED BY <1>2, <1>3, AcpImplemented, PTL

-----------------------------------------------------------------------------
(* The gateway of OpenClaw: OpenClaw.                                      *)

\* What stands in a sequence.
Els(s) == {s[k] : k \in DOMAIN s}

\* At most one of S is in s.
AtMostOnce(s, S) == \A i, j \in DOMAIN s : s[i] \in S /\ s[j] \in S => i = j

\* The ends of the run of t, the requests of its message, and its end as told.
Ends(t) == {f \in Gateway!Event : Gateway!IsEnd(f, t)}
Sends(t) == {r \in Gateway!Request : r.ask = "send" /\ r.turn = t}
ByRun(t) == [by |-> "run", turn |-> t]

\* The end of run t was told, or is on its way to be.
Told(t) == ending[t] = ByRun(t) \/ ByRun(t) \in Els(ends)
Coming(t) ==
  Els(wire) \cap Ends(t) # {} \/ Els(frames) \cap Ends(t) # {} \/ held \in Ends(t)

\* The message itself was not yet handed to the socket.
Unsent(t) == sending[t].pc \in {"idle", "enter", "post"} \/ sending[t].ask # "send"

\* Messages, and their runs, are for a session.
Addressed ==
  /\ \A r \in Els(inbox) : r.ask = "send" => r.to # Nil
  /\ \A t \in Gateway!Turns : run[t] # "none" => home[t] # Nil

\* Turns are begun one after the other; a second one meets a finished agent.
Numbered ==
  /\ \A t \in Gateway!Turns : t > number => sending[t].pc = "idle"
  /\ timer <= number /\ (waiting => number > 0)
  /\ number > 1 \/ ends # <<>> \/ (number > 0 /\ ~waiting) => status = "finished"

\* A message is sent once, and one that was answered runs.
Requested ==
  /\ \A t \in Gateway!Turns :
       /\ AtMostOnce(inbox, Sends(t))
       /\ Unsent(t) => run[t] = "none" /\ Els(inbox) \cap Sends(t) = {}
       /\ Els(inbox) \cap Sends(t) # {} => run[t] = "none"
       /\ Gateway!At(t, "told") /\ sending[t].ask = "send" /\ sending[t].ok => run[t] # "none"
  /\ \A f \in Els(wire) : f.kind = "answer" /\ f.ask = "send" /\ f.ok => run[f.turn] # "none"

\* The end of a run is in one place, and comes before it is told.
GatewaySingle ==
  \A t \in Gateway!Turns :
    /\ AtMostOnce(wire, Ends(t)) /\ AtMostOnce(frames, Ends(t))
    /\ Els(wire) \cap Ends(t) # {} => Els(frames) \cap Ends(t) = {} /\ held \notin Ends(t)
    /\ Els(frames) \cap Ends(t) # {} => held \notin Ends(t)
    /\ Coming(t) => run[t] = "over" /\ ~Told(t)

\* Nothing but frames of nobody's turn is of the other session.
Homely ==
  /\ sessionKey # Other /\ \A t \in Gateway!Turns : sending[t].sid # Other /\ home[t] # Other
  /\ \A r \in Els(inbox) : r.to # Other
  /\ \A f \in Els(wire) : f.kind = "answer" => f.sid # Other
  /\ \A f \in Els(wire) \cup Els(frames) : f.kind # "answer" => (f.turn = 0 <=> f.session = Other)
  /\ held # Nil => held.session = Own /\ held.turn # 0

\* A message that is over was told, can no more be told, or runs; and a run
\* goes on, or its end comes.
Owed ==
  waiting /\ ends = <<>> /\ number \notin muted =>
    /\ Gateway!At(number, "over") => run[number] # "none"
    /\ run[number] # "none" => (link /\ Gateway!Going(number)) \/ Coming(number)

\* What ended and what will end each turn: its own run, once, or no run at all.
Ended ==
  /\ \A t \in Gateway!Turns : ending[t] # Nil => t < number \/ (t = number /\ ~waiting)
  /\ \A e \in Els(ends) : IF e.by = "run" THEN e.turn \in 1 .. number ELSE e.turn = number
  /\ \A t \in Gateway!Turns : ~(ending[t] = ByRun(t) /\ ByRun(t) \in Els(ends))
  /\ \A t \in Gateway!Turns : Told(t) => run[t] = "over"
  /\ Gateway!EndIsOwn

\* How it is as long as nobody else uses the session of the conversation.
Calm == Numbered /\ Requested /\ GatewaySingle /\ Homely /\ Owed /\ Ended

\* The inductive invariant.
GatewayIInv == Gateway!TypeOK /\ Addressed /\ (adrift \/ Calm)

-----------------------------------------------------------------------------
\* What stands in a sequence with one more at its end.
LEMMA OneMore ==
  ASSUME NEW D, NEW s \in Seq(D), NEW e \in D
  PROVE  /\ Append(s, e) \in Seq(D) /\ Append(s, e) # <<>> /\ Els(Append(s, e)) = Els(s) \cup {e}
         /\ \A S : AtMostOnce(s, S) /\ (e \in S => Els(s) \cap S = {}) => AtMostOnce(Append(s, e), S)
<1> DEFINE n == Len(s)
           a == Append(s, e)
<1>1. n \in Nat /\ DOMAIN s = 1 .. n /\ a \in Seq(D) /\ DOMAIN a = 1 .. (n + 1)
  BY AppendProperties, LenProperties
<1>2. a[n + 1] = e /\ \A i \in 1 .. n : a[i] = s[i] BY AppendProperties
<1> HIDE DEF a, n
<1>3. Els(a) = Els(s) \cup {e} BY <1>1, <1>2 DEF Els
<1>4. ASSUME NEW S, AtMostOnce(s, S), e \in S => Els(s) \cap S = {} PROVE AtMostOnce(a, S)
  BY <1>1, <1>2, <1>4 DEF Els, AtMostOnce
<1>5. a # <<>> BY <1>1
<1> QED BY <1>1, <1>3, <1>4, <1>5 DEF a

\* What stands in a sequence without its first.
LEMMA Tailed ==
  ASSUME NEW D, NEW s \in Seq(D), s # <<>>
  PROVE  /\ Tail(s) \in Seq(D) /\ Head(s) \in D /\ Els(s) = Els(Tail(s)) \cup {Head(s)}
         /\ \A S : AtMostOnce(s, S) => AtMostOnce(Tail(s), S) /\ (Head(s) \in S => Els(Tail(s)) \cap S = {})
<1> DEFINE n == Len(s)
           t == Tail(s)
<1>1. n \in Nat \ {0} /\ DOMAIN s = 1 .. n /\ t \in Seq(D) /\ DOMAIN t = 1 .. (n - 1)
  BY HeadTailProperties, LenProperties, EmptySeq
<1>2. Head(s) = s[1] /\ \A i \in 1 .. (n - 1) : t[i] = s[i + 1] BY HeadTailProperties
<1>3. Head(s) \in D BY HeadTailProperties
<1> HIDE DEF t, n
<1>4. /\ 1 \in 1 .. n
      /\ \A i \in 1 .. (n - 1) : i + 1 \in 1 .. n /\ i + 1 # 1
      /\ \A i \in 1 .. n : i = 1 \/ (i - 1 \in 1 .. (n - 1) /\ t[i - 1] = s[i])
      /\ \A i, j \in 1 .. (n - 1) : i + 1 = j + 1 => i = j
  <2>1. \A i \in 1 .. n : i # 1 => i - 1 \in 1 .. (n - 1) /\ (i - 1) + 1 = i BY <1>1
  <2>2. \A i \in 1 .. n : i # 1 => t[i - 1] = s[i] BY <1>2, <2>1
  <2> QED BY <1>1, <2>1, <2>2
<1>5. Els(s) = Els(t) \cup {Head(s)}
  <2>1. ASSUME NEW x \in Els(s) PROVE x \in Els(t) \cup {Head(s)}
    <3>1. PICK i \in 1 .. n : x = s[i] BY <1>1, <2>1 DEF Els
    <3>2. CASE i = 1 BY <1>2, <3>1, <3>2
    <3>3. CASE i # 1
      <4>1. i - 1 \in DOMAIN t /\ t[i - 1] = x BY <1>1, <1>4, <3>1, <3>3
      <4> QED BY <4>1 DEF Els
    <3> QED BY <3>2, <3>3
  <2>2. ASSUME NEW x \in Els(t) PROVE x \in Els(s)
    <3>1. PICK i \in 1 .. (n - 1) : x = t[i] BY <1>1, <2>2 DEF Els
    <3>2. i + 1 \in DOMAIN s /\ s[i + 1] = x BY <1>1, <1>2, <1>4, <3>1
    <3> QED BY <3>2 DEF Els
  <2>3. Head(s) \in Els(s) BY <1>1, <1>2, <1>4 DEF Els
  <2> QED BY <2>1, <2>2, <2>3
<1>6. ASSUME NEW S, AtMostOnce(s, S) PROVE AtMostOnce(t, S)
  <2>1. ASSUME NEW i \in 1 .. (n - 1), NEW j \in 1 .. (n - 1), t[i] \in S, t[j] \in S PROVE i = j
    <3>1. s[i + 1] \in S /\ s[j + 1] \in S BY <1>2, <2>1
    <3>2. i + 1 = j + 1 BY <1>1, <1>4, <1>6, <3>1 DEF AtMostOnce
    <3> QED BY <3>2
  <2> QED BY <1>1, <2>1 DEF AtMostOnce
<1>7. ASSUME NEW S, AtMostOnce(s, S), Head(s) \in S PROVE Els(t) \cap S = {}
  <2>1. ASSUME NEW i \in 1 .. (n - 1), t[i] \in S PROVE FALSE
    <3>1. s[i + 1] \in S /\ s[1] \in S BY <1>2, <1>7, <2>1
    <3>2. i + 1 = 1 BY <1>1, <1>4, <1>7, <3>1 DEF AtMostOnce
    <3> QED BY <3>2
  <2> QED BY <1>1, <2>1 DEF Els
<1> QED BY <1>1, <1>3, <1>5, <1>6, <1>7 DEF t

\* What stands in the beginning of a sequence.
LEMMA InTheBeginning ==
  ASSUME NEW D, NEW s \in Seq(D), NEW n \in 0 .. Len(s)
  PROVE  /\ SubSeq(s, 1, n) \in Seq(D) /\ Els(SubSeq(s, 1, n)) \subseteq Els(s)
         /\ \A S : AtMostOnce(s, S) => AtMostOnce(SubSeq(s, 1, n), S)
<1> DEFINE t == SubSeq(s, 1, n)
<1>1. Len(s) \in Nat /\ DOMAIN s = 1 .. Len(s) BY LenProperties
<1>2. t \in Seq(D) /\ DOMAIN t = 1 .. n /\ \A i \in 1 .. n : t[i] = s[i]
  BY <1>1, SubSeqProperties
<1>3. 1 .. n \subseteq DOMAIN s BY <1>1
<1> HIDE DEF t
<1>4. Els(t) \subseteq Els(s) BY <1>2, <1>3 DEF Els
<1>5. ASSUME NEW S, AtMostOnce(s, S) PROVE AtMostOnce(t, S) BY <1>2, <1>3, <1>5 DEF AtMostOnce
<1> QED BY <1>2, <1>4, <1>5 DEF t

\* Nothing stands in the empty sequence.
LEMMA Empty == /\ Els(<<>>) = {} /\ \A S : AtMostOnce(<<>>, S)
BY DEF Els, AtMostOnce

\* Each part is about a few variables only.
LEMMA PartsUnmoved ==
  /\ Addressed /\ UNCHANGED <<inbox, run, home>> => Addressed'
  /\ Numbered /\ UNCHANGED <<sending, number, timer, waiting, ends, status>> => Numbered'
  /\ Requested /\ UNCHANGED <<inbox, sending, run, wire>> => Requested'
  /\ GatewaySingle /\ UNCHANGED <<wire, frames, held, run, ending, ends>> => GatewaySingle'
  /\ Homely /\ UNCHANGED <<sessionKey, sending, home, inbox, wire, frames, held>> => Homely'
  /\ Owed /\ UNCHANGED <<waiting, sending, number, ends, muted, run, link, wire, frames, held>> => Owed'
  /\ Ended /\ UNCHANGED <<ending, number, waiting, ends, run>> => Ended'
<1> USE DEF Gateway!At, Gateway!Going, Coming, Told, Unsent
<1>1. Addressed /\ UNCHANGED <<inbox, run, home>> => Addressed' BY DEF Addressed
<1>2. Numbered /\ UNCHANGED <<sending, number, timer, waiting, ends, status>> => Numbered'
  BY DEF Numbered
<1>3. Requested /\ UNCHANGED <<inbox, sending, run, wire>> => Requested' BY DEF Requested
<1>4. GatewaySingle /\ UNCHANGED <<wire, frames, held, run, ending, ends>> => GatewaySingle'
  BY DEF GatewaySingle
<1>5. Homely /\ UNCHANGED <<sessionKey, sending, home, inbox, wire, frames, held>> => Homely'
  BY DEF Homely
<1>6. Owed /\ UNCHANGED <<waiting, sending, number, ends, muted, run, link, wire, frames, held>>
        => Owed'
  BY DEF Owed
<1>7. Ended /\ UNCHANGED <<ending, number, waiting, ends, run>> => Ended' BY DEF Ended, Gateway!EndIsOwn
<1> QED BY <1>1, <1>2, <1>3, <1>4, <1>5, <1>6, <1>7

\* What is counted stays counted.
LEMMA GatewaySpending == ASSUME Gateway!TypeOK, NEW k \in Gateway!Kinds, Gateway!Spend(k)
  PROVE gatewayUsed' \in [Gateway!Kinds -> Nat]
BY DEF Gateway!TypeOK, Gateway!Spend

\* A call that is refused resets the session or gives up.
LEMMA CallIs ==
  ASSUME NEW c \in Gateway!CallState
  PROVE  /\ c = [pc |-> c.pc, ask |-> c.ask, ok |-> c.ok, sid |-> c.sid]
         /\ c.ask \in Gateway!Asks /\ c.ok \in BOOLEAN /\ c.sid \in Gateway!Keys
         /\ Gateway!Refused(c) \in Gateway!CallState /\ Gateway!Refused(c).sid = c.sid
              /\ Gateway!Refused(c).pc \in {"post", "fail"}
         /\ Gateway!Refused(c).pc = "post" => c.ask = "resolve" /\ Gateway!Refused(c).ask = "reset"
         /\ Gateway!Refused(c).pc = "fail" => Gateway!Refused(c).ask = c.ask
<1>1. /\ c = [pc |-> c.pc, ask |-> c.ask, ok |-> c.ok, sid |-> c.sid]
      /\ c.ask \in Gateway!Asks /\ c.ok \in BOOLEAN /\ c.sid \in Gateway!Keys
  BY DEF Gateway!CallState
<1>2. CASE c.ask = "resolve" BY <1>1, <1>2 DEF Gateway!Refused, Gateway!CallState, Gateway!Asks
<1>3. CASE c.ask # "resolve" BY <1>1, <1>3 DEF Gateway!Refused, Gateway!CallState, Gateway!Asks
<1> QED BY <1>1, <1>2, <1>3

\* Calls that go on without the gateway.
LEMMA CallsMove ==
  ASSUME Gateway!GatewayAssumption, Gateway!TypeOK, Calm, sending' \in [Gateway!Turns -> Gateway!CallState],
         \A t \in Gateway!Turns : (Unsent(t)' => Unsent(t)) /\ sending'[t].sid # Other,
         \A t \in Gateway!Turns : t > number' => sending'[t].pc = "idle",
         \A t \in Gateway!Turns : sending'[t].pc = "told" /\ sending'[t].ask = "send"
           /\ sending'[t].ok => run[t] # "none"
  PROVE  /\ UNCHANGED <<number, timer, waiting, ends, status>> => Numbered'
         /\ UNCHANGED <<inbox, run, wire>> => Requested'
         /\ UNCHANGED <<home, inbox, wire, frames, held>> /\ sessionKey' # Other => Homely'
         /\ /\ UNCHANGED <<number, run, link, wire, frames, held>>
            /\ waiting' /\ ends' = <<>> /\ number \notin muted' =>
                 waiting /\ ends = <<>> /\ number \notin muted
                   /\ (sending'[number].pc = "over"
                        => Gateway!At(number, "over") \/ run[number] # "none")
            => Owed'
<1> USE DEF Calm
<1>1. UNCHANGED <<number, timer, waiting, ends, status>> => Numbered' BY DEF Numbered
<1>2. UNCHANGED <<inbox, run, wire>> => Requested' BY DEF Requested, Gateway!At, Unsent
<1>3. UNCHANGED <<home, inbox, wire, frames, held>> /\ sessionKey' # Other => Homely' BY DEF Homely
<1>4. ASSUME UNCHANGED <<number, run, link, wire, frames, held>>,
             waiting' /\ ends' = <<>> /\ number \notin muted' =>
                 waiting /\ ends = <<>> /\ number \notin muted
                   /\ (sending'[number].pc = "over"
                        => Gateway!At(number, "over") \/ run[number] # "none")
      PROVE  Owed'
  <2>1. \A t : Coming(t)' = Coming(t) /\ Gateway!Going(t)' = Gateway!Going(t)
    BY <1>4 DEF Coming, Gateway!Going
  <2> QED BY <1>4, <2>1 DEF Owed, Gateway!At
<1> QED BY <1>1, <1>2, <1>3, <1>4

\* An answer that is too late is a refusal.
LEMMA TimeoutKeeps ==
  ASSUME Gateway!GatewayAssumption, GatewayIInv, NEW t \in Gateway!Turns, Gateway!Timeout(t)
    PROVE GatewayIInv'
<1>1. gatewayUsed' \in [Gateway!Kinds -> Nat]
  BY GatewaySpending DEF GatewayIInv, Gateway!Timeout, Gateway!Kinds
<1>2. /\ Gateway!At(t, "wait") /\ sending' = [sending EXCEPT ![t] = Gateway!Refused(sending[t])]
      /\ UNCHANGED <<sessionKey, said, status, talking, sink, listening, frames, held, number, waiting, ending,
                     ends, timer, inbox, wire, run, home, link, closed, muted, adrift>>
  BY DEF Gateway!Timeout, Gateway!socket, Gateway!client, Gateway!turns, Gateway!gateway
<1>3. Gateway!TypeOK /\ sending[t] \in Gateway!CallState BY DEF GatewayIInv, Gateway!TypeOK
<1>4. sending' \in [Gateway!Turns -> Gateway!CallState] BY <1>2, <1>3, CallIs DEF Gateway!TypeOK
<1>5. Gateway!TypeOK' BY <1>1, <1>2, <1>3, <1>4 DEF Gateway!TypeOK
<1>6. Addressed' BY <1>2, PartsUnmoved DEF GatewayIInv
<1>7. ASSUME Calm PROVE Calm'
  <2>1. \A s \in Gateway!Turns : sending'[s] = IF s = t THEN Gateway!Refused(sending[t]) ELSE sending[s]
    BY <1>2, <1>3 DEF Gateway!TypeOK
  <2>2. \A s \in Gateway!Turns : (Unsent(s)' => Unsent(s)) /\ sending'[s].sid # Other
    BY <1>2, <1>3, <1>7, <2>1, CallIs DEF Unsent, Gateway!At, Calm, Homely
  <2>3. \A s \in Gateway!Turns : s > number' => sending'[s].pc = "idle"
    BY <1>2, <1>7, <2>1 DEF Calm, Numbered, Gateway!At
  <2>4. \A s \in Gateway!Turns : sending'[s].pc = "told" /\ sending'[s].ask = "send"
          /\ sending'[s].ok => run[s] # "none"
    BY <1>3, <1>7, <2>1, CallIs DEF Calm, Requested, Gateway!At
  <2>5. waiting => number \in Gateway!Turns
    BY <1>3, <1>7 DEF Calm, Numbered, Gateway!TypeOK, Gateway!Turns, Gateway!GatewayAssumption
  <2>6. waiting /\ sending'[number].pc = "over" => Gateway!At(number, "over")
    BY <1>3, <2>1, <2>5, CallIs DEF Gateway!At
  <2>7. Numbered' /\ Requested' /\ Homely' /\ Owed'
    BY <1>2, <1>3, <1>4, <1>7, <2>2, <2>3, <2>4, <2>6, CallsMove DEF Calm, Homely
  <2> QED BY <1>2, <1>7, <2>7, PartsUnmoved DEF Calm
<1> QED BY <1>2, <1>5, <1>6, <1>7 DEF GatewayIInv

\* A new turn has sent nothing yet.
LEMMA TurnBeginKeeps == ASSUME Gateway!GatewayAssumption, GatewayIInv, Gateway!Begin PROVE GatewayIInv'
<1> DEFINE u == number + 1
<1>1. /\ ~waiting /\ number < MaxTurns /\ number' = u /\ waiting' = TRUE /\ ends' = <<>>
      /\ sending' = [sending EXCEPT ![u].pc = "enter"]
      /\ UNCHANGED <<sessionKey, said, status, talking, sink, listening, frames, held, timer, inbox, wire, run,
                     home, link, closed, gatewayUsed, ending, muted, adrift>>
  BY DEF Gateway!Begin, Gateway!Goto, Gateway!socket, Gateway!client, Gateway!gateway
<1>2. Gateway!TypeOK /\ MaxTurns \in Nat /\ number \in 0 .. MaxTurns
  BY DEF GatewayIInv, Gateway!TypeOK, Gateway!GatewayAssumption
<1>3. u \in Gateway!Turns /\ u \in 0 .. MaxTurns /\ u \in Nat /\ number \in Nat /\ u > number /\ u # 0
      /\ \A t \in Gateway!Turns : t \in Nat
  BY <1>1, <1>2 DEF Gateway!Turns
<1> HIDE DEF u
<1>4. sending' \in [Gateway!Turns -> Gateway!CallState]
  <2>1. sending \in [Gateway!Turns -> Gateway!CallState] BY <1>2 DEF Gateway!TypeOK
  <2>2. [sending[u] EXCEPT !.pc = "enter"] \in Gateway!CallState BY <1>3, <2>1 DEF Gateway!CallState
  <2> QED BY <1>1, <1>3, <2>1, <2>2
<1>5. Gateway!TypeOK' BY <1>1, <1>2, <1>3, <1>4 DEF Gateway!TypeOK
<1>6. Addressed' BY <1>1, PartsUnmoved DEF GatewayIInv
<1>7. ASSUME Calm PROVE Calm'
  <2>1. \A s \in Gateway!Turns : sending'[s] = IF s = u THEN [sending[u] EXCEPT !.pc
          = "enter"] ELSE sending[s]
    BY <1>1, <1>2 DEF Gateway!TypeOK
  <2>2. sending[u] \in Gateway!CallState BY <1>2, <1>3 DEF Gateway!TypeOK
  <2>3. sending'[u].pc = "enter" /\ sending'[u].sid = sending[u].sid /\ sending[u].pc = "idle"
    BY <1>3, <1>7, <2>1, <2>2, CallIs DEF Calm, Numbered
  <2>4. \A s \in Gateway!Turns : (Unsent(s)' => Unsent(s)) /\ sending'[s].sid # Other
    BY <1>3, <1>7, <2>1, <2>3 DEF Unsent, Calm, Homely
  <2>5. \A s \in Gateway!Turns : s > u => s > number /\ s # u BY <1>2, <1>3, u = number + 1 DEF u
  <2>6. \A s \in Gateway!Turns : s > number' => sending'[s].pc = "idle"
    BY <1>1, <1>7, <2>1, <2>5 DEF Calm, Numbered
  <2>7. \A s \in Gateway!Turns : sending'[s].pc = "told" /\ sending'[s].ask = "send"
          /\ sending'[s].ok => run[s] # "none"
    BY <1>3, <1>7, <2>1, <2>3 DEF Calm, Requested, Gateway!At
  <2>8. Requested' /\ Homely'
    BY <1>1, <1>2, <1>4, <1>7, <2>4, <2>6, <2>7, CallsMove DEF Calm, Homely
  <2>9. Numbered'
    <3>1. timer <= u /\ (u > 1 => number > 0) BY <1>2, <1>3, <1>7 DEF u, Calm, Numbered, Gateway!TypeOK
    <3> QED BY <1>1, <1>3, <1>7, <2>6, <3>1 DEF Calm, Numbered
  <2>10. run[u] = "none" BY <1>3, <1>7, <2>3 DEF Calm, Requested, Unsent
  <2>11. Owed' BY <1>1, <2>3, <2>10 DEF Owed, Gateway!At
  <2>12. \A t \in Gateway!Turns : Told(t)' => Told(t) BY <1>1, Empty DEF Told
  <2>13. GatewaySingle' BY <1>1, <1>7, <2>12 DEF Calm, GatewaySingle, Coming
  <2>14. Ended'
    <3>1. \A t \in Gateway!Turns : ending[t] # Nil => t < u BY <1>2, <1>3, <1>7 DEF u, Calm, Ended
    <3> QED BY <1>1, <1>7, <2>12, <3>1, Empty DEF Calm, Ended, Gateway!EndIsOwn
  <2> QED BY <2>8, <2>9, <2>11, <2>13, <2>14 DEF Calm
<1> QED BY <1>1, <1>5, <1>6, <1>7 DEF GatewayIInv

\* The relay leaves with the first end: that of its own turn.
LEMMA HearKeeps == ASSUME Gateway!GatewayAssumption, GatewayIInv, Gateway!Hear PROVE GatewayIInv'
<1> DEFINE e == Head(ends)
<1>1. /\ waiting /\ ends # <<>> /\ waiting' = FALSE /\ ends' = <<>>
      /\ ending' = [ending EXCEPT ![number] = e]
      /\ UNCHANGED <<sessionKey, said, status, talking, sink, listening, sending, frames, held, number, timer, inbox,
                     wire, run, home, link, closed, gatewayUsed, muted, adrift>>
  BY DEF Gateway!Hear, Gateway!socket, Gateway!client, Gateway!gateway
<1>2. Gateway!TypeOK BY DEF GatewayIInv
<1>3. e \in Gateway!End /\ e \in Els(ends) BY <1>1, <1>2, Tailed DEF Gateway!TypeOK
<1> HIDE DEF e
<1>4. Gateway!TypeOK'
  <2>1. ending' \in [Gateway!Turns -> Gateway!End \cup {Nil}] BY <1>1, <1>2, <1>3 DEF Gateway!TypeOK
  <2>2. ends' \in Seq(Gateway!End) BY <1>1
  <2> QED BY <1>1, <1>2, <2>1, <2>2 DEF Gateway!TypeOK
<1>5. Addressed' BY <1>1, PartsUnmoved DEF GatewayIInv
<1>6. ASSUME Calm PROVE Calm'
  <2>1. /\ number \in Gateway!Turns /\ number \in Nat /\ \A t \in Gateway!Turns : t \in Nat
    BY <1>1, <1>2, <1>6 DEF Calm, Numbered, Gateway!TypeOK, Gateway!Turns, Gateway!GatewayAssumption
  <2>2. \A t \in Gateway!Turns : ending'[t] = IF t = number THEN e ELSE ending[t]
    BY <1>1, <1>2 DEF Gateway!TypeOK
  <2>3. \A t \in Gateway!Turns : Told(t)' => Told(t) BY <1>1, <1>3, <2>2, Empty DEF Told
  <2>4. Numbered' BY <1>1, <1>6 DEF Calm, Numbered
  <2>5. Requested' /\ Homely' BY <1>1, <1>6, PartsUnmoved DEF Calm
  <2>6. GatewaySingle' BY <1>1, <1>6, <2>3 DEF Calm, GatewaySingle, Coming
  <2>7. Owed' BY <1>1 DEF Owed
  <2>8. Ended'
    <3>1. \A t \in Gateway!Turns : ending'[t] # Nil => t < number \/ t = number
      BY <1>6, <2>2 DEF Calm, Ended
    <3>2. ASSUME NEW t \in Gateway!Turns, ending'[t] # Nil
          PROVE  \/ ending'[t].turn = t
                 \/ /\ ending'[t].by = "run" /\ ending'[t].turn \in 1 .. t - 1
                    /\ ending'[ending'[t].turn] # ending'[t]
      <4>1. CASE t # number
        <5>1. ending[t] # Nil /\ ending'[t] = ending[t] /\ t < number
          BY <1>6, <2>2, <3>2, <4>1 DEF Calm, Ended
        <5>2. CASE ending[t].turn = t BY <5>1, <5>2
        <5>3. CASE ending[t].turn # t
          <6>1. ending[t].by = "run" /\ ending[t].turn \in 1 .. t - 1
                  /\ ending[ending[t].turn] # ending[t]
            BY <1>6, <5>1, <5>3 DEF Calm, Ended, Gateway!EndIsOwn
          <6>2. ending[t].turn \in Gateway!Turns /\ ending[t].turn # number
            BY <2>1, <5>1, <6>1 DEF Gateway!Turns, Gateway!GatewayAssumption
          <6> QED BY <2>2, <5>1, <6>1, <6>2
        <5> QED BY <5>2, <5>3
      <4>2. CASE t = number /\ e.turn # number
        <5>1. e.by = "run" /\ e.turn \in 1 .. number BY <1>3, <1>6, <4>2 DEF Calm, Ended
        <5>2. e.turn \in 1 .. number - 1 /\ e.turn \in Gateway!Turns
          BY <2>1, <4>2, <5>1 DEF Gateway!Turns, Gateway!GatewayAssumption
        <5>3. e = ByRun(e.turn) BY <1>3, <5>1 DEF ByRun, Gateway!End
        <5>4. ending[e.turn] # e BY <1>3, <1>6, <5>2, <5>3 DEF Calm, Ended
        <5> QED BY <2>2, <4>2, <5>1, <5>2, <5>4
      <4> QED BY <2>2, <4>1, <4>2
    <3>3. Gateway!EndIsOwn' BY <3>2 DEF Gateway!EndIsOwn
    <3>4. \A t \in Gateway!Turns : Told(t)' => run'[t] = "over" BY <1>1, <1>6, <2>3 DEF Calm, Ended
    <3> QED BY <1>1, <3>1, <3>3, <3>4, Empty DEF Ended
  <2> QED BY <2>4, <2>5, <2>6, <2>7, <2>8 DEF Calm
<1> QED BY <1>1, <1>4, <1>5, <1>6 DEF GatewayIInv

\* The first message asks for the session, a later one is sent at once.
LEMMA MessageKeeps == ASSUME Gateway!GatewayAssumption, GatewayIInv,
                             NEW t \in Gateway!Turns, Gateway!Enter(t)
  PROVE GatewayIInv'
<1>1. /\ Gateway!At(t, "enter") /\ sending' = [sending EXCEPT ![t] = Gateway!First(t)]
      /\ said' = TRUE /\ status' = IF status = "finished" THEN status ELSE "running"
      /\ talking' = TRUE
      /\ UNCHANGED <<sessionKey, sink, listening, frames, held, number, waiting, ending,
                     ends, timer, inbox, wire, run, home, link, closed, gatewayUsed, muted, adrift>>
  BY DEF Gateway!Enter, Gateway!Transition, Gateway!socket, Gateway!client, Gateway!turns,
     Gateway!gateway
<1>3. Gateway!TypeOK /\ sending[t] \in Gateway!CallState BY DEF GatewayIInv, Gateway!TypeOK
<1>4. Gateway!First(t) \in Gateway!CallState /\ Gateway!First(t).pc = "post"
        /\ Gateway!First(t).sid = sending[t].sid
  BY <1>3 DEF Gateway!First, Gateway!CallState, Gateway!Asks
<1>4a. sending' \in [Gateway!Turns -> Gateway!CallState] BY <1>1, <1>3, <1>4 DEF Gateway!TypeOK
<1>5. Gateway!TypeOK' BY <1>1, <1>3, <1>4a DEF Gateway!TypeOK
<1>6. Addressed' BY <1>1, PartsUnmoved DEF GatewayIInv
<1>7. ASSUME Calm PROVE Calm'
  <2>1. \A s \in Gateway!Turns : sending'[s] = IF s = t THEN Gateway!First(t) ELSE sending[s]
    BY <1>1, <1>3 DEF Gateway!TypeOK
  <2>2. \A s \in Gateway!Turns : (Unsent(s)' => Unsent(s)) /\ sending'[s].sid # Other
    BY <1>1, <1>4, <1>7, <2>1 DEF Unsent, Gateway!At, Calm, Homely
  <2>3. \A s \in Gateway!Turns : s > number' => sending'[s].pc = "idle"
    BY <1>1, <1>7, <2>1 DEF Calm, Numbered, Gateway!At
  <2>4. \A s \in Gateway!Turns : sending'[s].pc = "told" /\ sending'[s].ask = "send"
          /\ sending'[s].ok => run[s] # "none"
    BY <1>4, <1>7, <2>1 DEF Calm, Requested, Gateway!At
  <2>5. waiting => number \in Gateway!Turns
    BY <1>3, <1>7 DEF Calm, Numbered, Gateway!TypeOK, Gateway!Turns, Gateway!GatewayAssumption
  <2>6. waiting /\ sending'[number].pc = "over" => Gateway!At(number, "over")
    BY <1>4, <2>1, <2>5 DEF Gateway!At
  <2>7. Requested' /\ Homely' /\ Owed'
    BY <1>1, <1>3, <1>4a, <1>7, <2>2, <2>3, <2>4, <2>6, CallsMove DEF Calm, Homely
  <2>8. Numbered' BY <1>1, <1>7, <2>3 DEF Calm, Numbered
  <2> QED BY <1>1, <1>7, <2>7, <2>8, PartsUnmoved DEF Calm
<1> QED BY <1>1, <1>5, <1>6, <1>7 DEF GatewayIInv

\* A call goes on with what it was told; a message that was granted runs.
LEMMA ResumeKeeps == ASSUME Gateway!GatewayAssumption, GatewayIInv,
                              NEW t \in Gateway!Turns, Gateway!Resume(t)
  PROVE GatewayIInv'
<1> DEFINE c == sending[t]
           d == IF ~c.ok THEN Gateway!Refused(c)
                ELSE IF c.ask = "send" THEN [c EXCEPT !.pc = "over"]
                ELSE [c EXCEPT !.ask = "send", !.pc = "post"]
<1>1. /\ Gateway!At(t, "told") /\ sending' = [sending EXCEPT ![t] = d]
      /\ sessionKey' = IF c.ok /\ c.sid # Nil THEN c.sid ELSE sessionKey
      /\ UNCHANGED <<said, status, talking, sink, listening, frames, held, number, waiting, ending,
                     ends, timer, inbox, wire, run, home, link, closed, gatewayUsed, muted, adrift>>
  BY DEF Gateway!Resume, Gateway!socket, Gateway!client, Gateway!turns, Gateway!gateway
<1>3. Gateway!TypeOK /\ sending[t] \in Gateway!CallState BY DEF GatewayIInv, Gateway!TypeOK
<1>4. /\ d \in Gateway!CallState /\ d.sid = c.sid /\ d.pc # "told"
      /\ d.pc = "over" => c.ok /\ c.ask = "send"
      /\ (d.pc = "post" \/ d.ask # "send") => c.ask # "send"
  <2>1. CASE ~c.ok BY <1>3, <2>1, CallIs
  <2>2. CASE c.ok /\ c.ask = "send" BY <1>3, <2>2 DEF Gateway!CallState
  <2>3. CASE c.ok /\ c.ask # "send" BY <1>3, <2>3 DEF Gateway!CallState, Gateway!Asks
  <2> QED BY <2>1, <2>2, <2>3
<1>4a. d.pc \notin {"idle", "enter"}
  <2>1. CASE ~c.ok BY <1>3, <2>1, CallIs
  <2>2. CASE c.ok /\ c.ask = "send" BY <1>3, <2>2 DEF Gateway!CallState
  <2>3. CASE c.ok /\ c.ask # "send" BY <1>3, <2>3 DEF Gateway!CallState, Gateway!Asks
  <2> QED BY <2>1, <2>2, <2>3
<1> HIDE DEF d
<1>4b. sending' \in [Gateway!Turns -> Gateway!CallState] BY <1>1, <1>3, <1>4 DEF Gateway!TypeOK
<1>5. Gateway!TypeOK'
  <2>1. sessionKey' \in Gateway!Keys BY <1>1, <1>3, CallIs DEF Gateway!TypeOK
  <2> QED BY <1>1, <1>3, <1>4b, <2>1 DEF Gateway!TypeOK
<1>6. Addressed' BY <1>1, PartsUnmoved DEF GatewayIInv
<1>7. ASSUME Calm PROVE Calm'
  <2>1. \A s \in Gateway!Turns : sending'[s] = IF s = t THEN d ELSE sending[s]
    BY <1>1, <1>3 DEF Gateway!TypeOK
  <2>2. \A s \in Gateway!Turns : (Unsent(s)' => Unsent(s)) /\ sending'[s].sid # Other
    BY <1>1, <1>4, <1>4a, <1>7, <2>1 DEF Unsent, Gateway!At, Calm, Homely
  <2>3. \A s \in Gateway!Turns : s > number' => sending'[s].pc = "idle"
    BY <1>1, <1>7, <2>1 DEF Calm, Numbered, Gateway!At
  <2>4. \A s \in Gateway!Turns : sending'[s].pc = "told" /\ sending'[s].ask = "send"
          /\ sending'[s].ok => run[s] # "none"
    BY <1>4, <1>7, <2>1 DEF Calm, Requested, Gateway!At
  <2>5. waiting => number \in Gateway!Turns
    BY <1>3, <1>7 DEF Calm, Numbered, Gateway!TypeOK, Gateway!Turns, Gateway!GatewayAssumption
  <2>6. waiting /\ sending'[number].pc = "over" => Gateway!At(number, "over") \/ run[number] # "none"
    BY <1>1, <1>4, <1>7, <2>1, <2>5 DEF Gateway!At, Calm, Requested
  <2>6a. sessionKey' # Other BY <1>1, <1>7 DEF Calm, Homely
  <2>7. Numbered' /\ Requested' /\ Homely' /\ Owed'
    BY <1>1, <1>3, <1>4b, <1>7, <2>2, <2>3, <2>4, <2>6, <2>6a, CallsMove
  <2> QED BY <1>1, <1>7, <2>7, PartsUnmoved DEF Calm
<1> QED BY <1>1, <1>5, <1>6, <1>7 DEF GatewayIInv

\* An end is published to whoever listens.
LEMMA EndEmitted ==
  ASSUME Gateway!TypeOK, NEW e \in Gateway!End, Gateway!EmitError(e)
  PROVE  /\ status' = "finished" /\ ends' \in Seq(Gateway!End)
              /\ Els(ends') \subseteq Els(ends) \cup {e}
         /\ (ends # <<>> => ends' # <<>>)
         /\ IF status # "finished" /\ waiting THEN ends' # <<>> ELSE ends' = ends
<1>1. status' = "finished" /\ ends' = IF status # "finished" /\ waiting THEN Append(ends, e) ELSE ends
  BY DEF Gateway!EmitError, Gateway!Broadcast
<1>2. ends \in Seq(Gateway!End) BY DEF Gateway!TypeOK
<1> QED BY <1>1, <1>2, OneMore

\* A sending that failed and a stop end the turn there is, and no run.
LEMMA EndingElse ==
  ASSUME Gateway!TypeOK, Calm,
           NEW e \in Gateway!End, Gateway!EmitError(e), e.by # "run", status # "finished"
             => e.turn = number,
         UNCHANGED <<ending, number, waiting, run, wire, frames, held>>
  PROVE  GatewaySingle' /\ Ended'
<1>1. \A t : e # ByRun(t) BY DEF ByRun
<1>2. Els(ends') \subseteq Els(ends) \cup {e} /\ (status = "finished" => ends' = ends) BY EndEmitted
<1>3. \A t \in Gateway!Turns : ByRun(t) \in Els(ends') => ByRun(t) \in Els(ends) BY <1>1, <1>2
<1>4. \A t \in Gateway!Turns : Told(t)' => Told(t) BY <1>3 DEF Told, ByRun
<1>5. GatewaySingle' BY <1>4 DEF Calm, GatewaySingle, Coming
<1>6. \A x \in Els(ends') : IF x.by = "run" THEN x.turn \in 1 .. number ELSE x.turn = number
  BY <1>2 DEF Calm, Ended
<1>7. \A t \in Gateway!Turns : ~(ending[t] = ByRun(t) /\ ByRun(t) \in Els(ends'))
  BY <1>3 DEF Calm, Ended
<1>8. Ended' BY <1>4, <1>6, <1>7 DEF Calm, Ended, Gateway!EndIsOwn, ByRun
<1> QED BY <1>5, <1>8

\* Only the first message can fail, as the agent is finished for the others.
LEMMA FailKeeps == ASSUME Gateway!GatewayAssumption, GatewayIInv,
                            NEW t \in Gateway!Turns, Gateway!Fail(t)
  PROVE GatewayIInv'
<1> DEFINE e == [by |-> "call", turn |-> t]
           d == [sending[t] EXCEPT !.pc = "over"]
<1>1. /\ Gateway!At(t, "fail") /\ Gateway!EmitError(e) /\ sending' = [sending EXCEPT ![t] = d]
      /\ muted' = IF status = "finished" THEN muted \cup {t} ELSE muted
      /\ UNCHANGED <<sessionKey, said, talking, sink, listening, frames, held, number, waiting, ending,
                     timer, inbox, wire, run, home, link, closed, gatewayUsed, adrift>>
  BY DEF Gateway!Fail, Gateway!Goto, Gateway!socket, Gateway!client, Gateway!turns, Gateway!gateway
<1>3. Gateway!TypeOK /\ sending[t] \in Gateway!CallState BY DEF GatewayIInv, Gateway!TypeOK
<1>3a. e \in Gateway!End /\ e.by = "call" /\ e.turn = t /\ t \in Nat /\ t > 0
  BY DEF Gateway!End, Gateway!Turns, Gateway!GatewayAssumption
<1>4. d \in Gateway!CallState /\ d.pc = "over" /\ d.ask = sending[t].ask /\ d.sid = sending[t].sid
  BY <1>3 DEF Gateway!CallState
<1> HIDE DEF d, e
<1>4a. sending' \in [Gateway!Turns -> Gateway!CallState] BY <1>1, <1>3, <1>4 DEF Gateway!TypeOK
<1>4b. /\ status' = "finished" /\ ends' \in Seq(Gateway!End) /\ (ends # <<>> => ends' # <<>>)
       /\ IF status # "finished" /\ waiting THEN ends' # <<>> ELSE ends' = ends
  BY <1>1, <1>3, <1>3a, EndEmitted
<1>5. Gateway!TypeOK'
  <2>1. muted' \subseteq 0 .. MaxTurns
    BY <1>1, <1>3 DEF Gateway!TypeOK, Gateway!Turns, Gateway!GatewayAssumption
  <2> QED BY <1>1, <1>3, <1>4a, <1>4b, <2>1 DEF Gateway!TypeOK
<1>6. Addressed' BY <1>1, PartsUnmoved DEF GatewayIInv
<1>7. ASSUME Calm PROVE Calm'
  <2>1. \A s \in Gateway!Turns : sending'[s] = IF s = t THEN d ELSE sending[s]
    BY <1>1, <1>3 DEF Gateway!TypeOK
  <2>2. \A s \in Gateway!Turns : (Unsent(s)' => Unsent(s)) /\ sending'[s].sid # Other
    BY <1>1, <1>4, <1>7, <2>1 DEF Unsent, Gateway!At, Calm, Homely
  <2>3. \A s \in Gateway!Turns : s > number' => sending'[s].pc = "idle"
    BY <1>1, <1>7, <2>1 DEF Calm, Numbered, Gateway!At
  <2>4. \A s \in Gateway!Turns : sending'[s].pc = "told" /\ sending'[s].ask = "send"
          /\ sending'[s].ok => run[s] # "none"
    BY <1>4, <1>7, <2>1 DEF Calm, Requested, Gateway!At
  <2>5. waiting => number \in Gateway!Turns
    BY <1>3, <1>7 DEF Calm, Numbered, Gateway!TypeOK, Gateway!Turns, Gateway!GatewayAssumption
  <2>6. waiting' /\ ends' = <<>> /\ number \notin muted' =>
          waiting /\ ends = <<>> /\ number \notin muted /\ (sending'[number].pc = "over"
            => Gateway!At(number, "over"))
    BY <1>1, <1>4b, <2>1, <2>5 DEF Gateway!At
  <2>7. Requested' /\ Homely' /\ Owed'
    BY <1>1, <1>3, <1>4a, <1>7, <2>2, <2>3, <2>4, <2>6, CallsMove DEF Calm, Homely
  <2>8. Numbered' BY <1>1, <1>4b, <1>7, <2>3 DEF Calm, Numbered
  <2>9. status # "finished" => t = number
    <3>1. t <= number
      BY <1>1, <1>3, <1>3a, <1>7 DEF Gateway!At, Calm, Numbered, Gateway!TypeOK,
         Gateway!GatewayAssumption
    <3>2. status # "finished" => number <= 1
      BY <1>3, <1>7 DEF Calm, Numbered, Gateway!TypeOK, Gateway!GatewayAssumption
    <3> QED BY <1>3, <1>3a, <3>1, <3>2 DEF Gateway!TypeOK, Gateway!GatewayAssumption
  <2>10. GatewaySingle' /\ Ended' BY <1>1, <1>3, <1>3a, <1>7, <2>9, EndingElse
  <2> QED BY <2>7, <2>8, <2>10 DEF Calm
<1> QED BY <1>1, <1>5, <1>6, <1>7 DEF GatewayIInv

\* The timer ends the turn it was set for, if that still waits.
LEMMA FallbackKeeps == ASSUME Gateway!GatewayAssumption, GatewayIInv, Gateway!Fallback
  PROVE GatewayIInv'
<1> DEFINE e == [by |-> "stop", turn |-> timer]
<1>1. /\ timer # 0 /\ timer' = 0
      /\ IF status = "running" THEN Gateway!EmitError(e) ELSE UNCHANGED <<status, ends>>
      /\ UNCHANGED <<sessionKey, said, talking, sink, listening, sending, frames, held, number, waiting, ending,
                     inbox, wire, run, home, link, closed, gatewayUsed, muted, adrift>>
  BY DEF Gateway!Fallback, Gateway!socket, Gateway!client, Gateway!turns, Gateway!gateway
<1>2. Gateway!TypeOK BY DEF GatewayIInv
<1>3. e \in Gateway!End /\ e.by = "stop" /\ e.turn = timer BY <1>2 DEF Gateway!End, Gateway!TypeOK
<1> HIDE DEF e
<1>4. CASE status # "running"
  <2>1. Gateway!TypeOK' BY <1>1, <1>2, <1>4 DEF Gateway!TypeOK, Gateway!GatewayAssumption
  <2>2. Addressed' BY <1>1, PartsUnmoved DEF GatewayIInv
  <2>3. Calm => Numbered'
    BY <1>1, <1>2, <1>4 DEF Calm, Numbered, Gateway!TypeOK, Gateway!GatewayAssumption
  <2>4. Calm => Calm' BY <1>1, <1>4, <2>3, PartsUnmoved DEF Calm
  <2> QED BY <1>1, <2>1, <2>2, <2>4 DEF GatewayIInv
<1>5. CASE status = "running"
  <2>1. /\ status' = "finished" /\ ends' \in Seq(Gateway!End) /\ (ends # <<>> => ends' # <<>>)
        /\ IF waiting THEN ends' # <<>> ELSE ends' = ends
    BY <1>1, <1>2, <1>3, <1>5, EndEmitted
  <2>2. Gateway!TypeOK' BY <1>1, <1>2, <2>1 DEF Gateway!TypeOK, Gateway!GatewayAssumption
  <2>3. Addressed' BY <1>1, PartsUnmoved DEF GatewayIInv
  <2>4. ASSUME Calm PROVE Calm'
    <3>1. timer = number
      BY <1>1, <1>2, <1>5, <2>4 DEF Calm, Numbered, Gateway!TypeOK, Gateway!GatewayAssumption
    <3>2. GatewaySingle' /\ Ended' BY <1>1, <1>2, <1>3, <1>5, <2>4, <3>1, EndingElse
    <3>3. Numbered'
      BY <1>1, <1>2, <2>1, <2>4 DEF Calm, Numbered, Gateway!TypeOK, Gateway!GatewayAssumption
    <3>4. Owed' BY <1>1, <2>1 DEF Owed
    <3>5. Requested' /\ Homely' BY <1>1, <2>4, PartsUnmoved DEF Calm
    <3> QED BY <3>2, <3>3, <3>4, <3>5 DEF Calm
  <2> QED BY <1>1, <2>2, <2>3, <2>4 DEF GatewayIInv
<1> QED BY <1>4, <1>5

\* A call asks the gateway, once for each step of it.
LEMMA PostKeeps == ASSUME Gateway!GatewayAssumption, GatewayIInv,
                            NEW t \in Gateway!Turns, Gateway!Post(t)
  PROVE GatewayIInv'
<1> DEFINE c == sending[t]
           w == [c EXCEPT !.pc = "wait"]
           r == [turn |-> t, ask |-> c.ask, to |-> sessionKey]
<1>1. /\ Gateway!At(t, "post")
      /\ \/ /\ c.ask = "send" => sessionKey # Nil
            /\ sending' = [sending EXCEPT ![t] = w] /\ inbox' = Append(inbox, r)
         \/ sending' = [sending EXCEPT ![t] = w] /\ UNCHANGED inbox
         \/ sending' = [sending EXCEPT ![t] = Gateway!Refused(c)] /\ UNCHANGED inbox
      /\ UNCHANGED <<sessionKey, said, status, talking, sink, listening, frames, held, number, waiting, ending, ends,
                     timer, wire, run, home, link, closed, gatewayUsed, muted, adrift>>
  BY DEF Gateway!Post, Gateway!Goto, Gateway!socket, Gateway!client, Gateway!turns
<1>2. Gateway!TypeOK /\ c \in Gateway!CallState BY DEF GatewayIInv, Gateway!TypeOK
<1>3. /\ w \in Gateway!CallState /\ w.pc = "wait" /\ w.ask = c.ask /\ w.sid = c.sid
  BY <1>2 DEF Gateway!CallState
<1>4. r \in Gateway!Request /\ r.ask = c.ask /\ r.turn = t /\ r.to = sessionKey
  BY <1>2, CallIs DEF Gateway!Request, Gateway!TypeOK
<1> HIDE DEF c, w, r
<1>5. PICK d \in {w, Gateway!Refused(c)} :
        /\ sending' = [sending EXCEPT ![t] = d]
        /\ \/ UNCHANGED inbox
           \/ d = w /\ (c.ask = "send" => sessionKey # Nil) /\ inbox' = Append(inbox, r)
  BY <1>1
<1>6. d \in Gateway!CallState /\ d.sid = c.sid /\ d.pc \in {"post", "wait", "fail"}
  BY <1>2, <1>3, CallIs
<1>7. sending' \in [Gateway!Turns -> Gateway!CallState] BY <1>2, <1>5, <1>6 DEF Gateway!TypeOK
<1>8. /\ inbox' \in Seq(Gateway!Request)
      /\ inbox' = inbox \/ (Els(inbox') = Els(inbox) \cup {r} /\ d = w /\ (c.ask = "send"
           => sessionKey # Nil)
           /\ \A S : AtMostOnce(inbox, S) /\ (r \in S => Els(inbox) \cap S = {}) => AtMostOnce(inbox', S))
  <2>1. inbox \in Seq(Gateway!Request) BY <1>2 DEF Gateway!TypeOK
  <2>2. CASE inbox' = inbox BY <2>1, <2>2
  <2>3. CASE d = w /\ (c.ask = "send" => sessionKey # Nil) /\ inbox' = Append(inbox, r)
    BY <1>4, <2>1, <2>3, OneMore
  <2> QED BY <1>5, <2>2, <2>3
<1>9. Gateway!TypeOK' BY <1>1, <1>2, <1>7, <1>8 DEF Gateway!TypeOK
<1>10. Addressed' BY <1>1, <1>4, <1>8 DEF GatewayIInv, Addressed
<1>11. ASSUME Calm PROVE Calm'
  <2>1. \A s \in Gateway!Turns : sending'[s] = IF s = t THEN d ELSE sending[s]
    BY <1>2, <1>5 DEF Gateway!TypeOK
  <2>2. \A s \in Gateway!Turns : (Unsent(s)' => Unsent(s)) /\ sending'[s].sid # Other
    BY <1>1, <1>6, <1>11, <2>1 DEF Unsent, Gateway!At, Calm, Homely, c
  <2>3. \A s \in Gateway!Turns : s > number' => sending'[s].pc = "idle"
    BY <1>1, <1>11, <2>1 DEF Calm, Numbered, Gateway!At
  <2>4. \A s \in Gateway!Turns : sending'[s].pc = "told" /\ sending'[s].ask = "send"
          /\ sending'[s].ok => run[s] # "none"
    BY <1>6, <1>11, <2>1 DEF Calm, Requested, Gateway!At
  <2>5. waiting => number \in Gateway!Turns
    BY <1>2, <1>11 DEF Calm, Numbered, Gateway!TypeOK, Gateway!Turns, Gateway!GatewayAssumption
  <2>6. waiting /\ sending'[number].pc = "over" => Gateway!At(number, "over")
    BY <1>6, <2>1, <2>5 DEF Gateway!At
  <2>7. Numbered' /\ Owed'
    BY <1>1, <1>2, <1>7, <1>11, <2>2, <2>3, <2>4, <2>6, CallsMove DEF Calm, Homely
  <2>8. Homely'
    <3>1. \A x \in Els(inbox') : x.to # Other BY <1>4, <1>8, <1>11 DEF Calm, Homely
    <3> QED BY <1>1, <1>11, <2>2, <3>1 DEF Calm, Homely
  <2>9. Requested'
    <3>1. Unsent(t) BY <1>1 DEF Gateway!At, Unsent
    <3>2. run[t] = "none" /\ Els(inbox) \cap Sends(t) = {} BY <1>11, <3>1 DEF Calm, Requested
    <3>3. \A s \in Gateway!Turns : r \in Sends(s) => s = t /\ c.ask = "send" BY <1>4 DEF Sends
    <3>4. ASSUME NEW s \in Gateway!Turns
          PROVE  /\ AtMostOnce(inbox', Sends(s))
                 /\ Unsent(s)' => run[s] = "none" /\ Els(inbox') \cap Sends(s) = {}
                 /\ Els(inbox') \cap Sends(s) # {} => run[s] = "none"
      <4>1. AtMostOnce(inbox, Sends(s)) BY <1>11 DEF Calm, Requested
      <4>2. AtMostOnce(inbox', Sends(s)) BY <1>8, <3>2, <3>3, <4>1
      <4>3. Els(inbox') \cap Sends(s) # {} => run[s] = "none"
        BY <1>8, <1>11, <3>2, <3>3 DEF Calm, Requested
      <4>4. ASSUME Unsent(s)' PROVE run[s] = "none" /\ Els(inbox') \cap Sends(s) = {}
        <5>1. run[s] = "none" /\ Els(inbox) \cap Sends(s) = {}
          BY <1>11, <2>2, <4>4 DEF Calm, Requested
        <5>2. d = w => r \notin Sends(s) BY <1>3, <2>1, <3>3, <4>4 DEF Unsent
        <5> QED BY <1>8, <5>1, <5>2
      <4> QED BY <4>2, <4>3, <4>4
    <3>5. \A s \in Gateway!Turns : Gateway!At(s, "told")' /\ sending'[s].ask = "send"
            /\ sending'[s].ok => run[s] # "none"
      BY <2>4 DEF Gateway!At
    <3> QED BY <1>1, <1>11, <3>4, <3>5 DEF Calm, Requested
  <2> QED BY <1>1, <1>11, <2>7, <2>8, <2>9, PartsUnmoved DEF Calm
<1> QED BY <1>1, <1>9, <1>10, <1>11 DEF GatewayIInv

\* A stop ends the turn there is, and asks to abort its run.
LEMMA StopKeeps == ASSUME Gateway!GatewayAssumption, GatewayIInv, Gateway!Stop PROVE GatewayIInv'
<1> DEFINE r == [turn |-> 0, ask |-> "abort", to |-> sessionKey]
<1>1. /\ number > 0 /\ timer' = number /\ Gateway!Spend("stop")
      /\ inbox' = inbox \/ inbox' = Append(inbox, r)
      /\ UNCHANGED <<sessionKey, said, status, talking, sink, listening, sending, frames, held, number, waiting, ending,
                     ends, wire, run, home, link, closed, muted, adrift>>
  BY DEF Gateway!Stop, Gateway!socket, Gateway!client, Gateway!turns
<1>2. Gateway!TypeOK BY DEF GatewayIInv
<1>3. r \in Gateway!Request /\ r.ask = "abort" /\ r.to = sessionKey
  BY <1>2 DEF Gateway!Request, Gateway!TypeOK
<1> HIDE DEF r
<1>4. /\ inbox' \in Seq(Gateway!Request)
      /\ inbox' = inbox \/ (Els(inbox') = Els(inbox) \cup {r}
           /\ \A S : AtMostOnce(inbox, S) /\ (r \in S => Els(inbox) \cap S = {}) => AtMostOnce(inbox', S))
  <2>1. inbox \in Seq(Gateway!Request) BY <1>2 DEF Gateway!TypeOK
  <2>2. CASE inbox' = inbox BY <2>1, <2>2
  <2>3. CASE inbox' = Append(inbox, r) BY <1>3, <2>1, <2>3, OneMore
  <2> QED BY <1>1, <2>2, <2>3
<1>5. gatewayUsed' \in [Gateway!Kinds -> Nat] BY <1>1, <1>2, GatewaySpending DEF Gateway!Kinds
<1>6. Gateway!TypeOK' BY <1>1, <1>2, <1>4, <1>5 DEF Gateway!TypeOK
<1>7. Addressed' BY <1>1, <1>3, <1>4 DEF GatewayIInv, Addressed
<1>8. ASSUME Calm PROVE Calm'
  <2>1. Numbered' BY <1>1, <1>2, <1>8 DEF Calm, Numbered, Gateway!TypeOK, Gateway!GatewayAssumption
  <2>2. Homely'
    <3>1. \A x \in Els(inbox') : x.to # Other BY <1>3, <1>4, <1>8 DEF Calm, Homely
    <3> QED BY <1>1, <1>8, <3>1 DEF Calm, Homely
  <2>3. Requested'
    <3>1. \A s \in Gateway!Turns : r \notin Sends(s) BY <1>3 DEF Sends
    <3>2. \A s \in Gateway!Turns : Els(inbox') \cap Sends(s) = Els(inbox) \cap Sends(s) BY <1>4, <3>1
    <3>3. \A s \in Gateway!Turns : AtMostOnce(inbox, Sends(s)) => AtMostOnce(inbox', Sends(s)) BY <1>4, <3>1
    <3> QED BY <1>1, <1>8, <3>2, <3>3 DEF Calm, Requested, Gateway!At, Unsent
  <2> QED BY <1>1, <1>8, <2>1, <2>2, <2>3, PartsUnmoved DEF Calm
<1> QED BY <1>1, <1>6, <1>7, <1>8 DEF GatewayIInv

\* All that is pending fails: nothing else was sent by that.
LEMMA Drained ==
  ASSUME Gateway!TypeOK, Gateway!Drain
  PROVE  /\ sending' \in [Gateway!Turns -> Gateway!CallState]
         /\ \A t \in Gateway!Turns : /\ Unsent(t)' = Unsent(t) /\ sending'[t].sid = sending[t].sid
                                     /\ Gateway!At(t, "idle")' = Gateway!At(t, "idle")
                                          /\ Gateway!At(t, "over")' = Gateway!At(t, "over")
                                     /\ sending'[t].pc = "told" /\ sending'[t].ok
                                          => sending'[t] = sending[t]
<1>1. sending' = [t \in Gateway!Turns |-> IF Gateway!At(t, "wait") THEN [sending[t] EXCEPT !.pc
        = "told", !.ok = FALSE] ELSE sending[t]]
  BY DEF Gateway!Drain
<1>2. \A t \in Gateway!Turns : sending[t] \in Gateway!CallState BY DEF Gateway!TypeOK
<1>3. ASSUME NEW t \in Gateway!Turns, sending[t].pc = "wait"
      PROVE  /\ sending'[t] \in Gateway!CallState /\ sending'[t].pc = "told" /\ ~sending'[t].ok
             /\ sending'[t].ask = sending[t].ask /\ sending'[t].sid = sending[t].sid
  BY <1>1, <1>2, <1>3 DEF Gateway!CallState, Gateway!At
<1>4. ASSUME NEW t \in Gateway!Turns, sending[t].pc # "wait" PROVE sending'[t] = sending[t]
  BY <1>1, <1>4 DEF Gateway!At
<1>5. sending' \in [Gateway!Turns -> Gateway!CallState] BY <1>1, <1>2, <1>3, <1>4
<1> QED BY <1>3, <1>4, <1>5 DEF Gateway!At, Unsent

\* What is on the way is lost.
LEMMA Cutting ==
  ASSUME Gateway!GatewayAssumption, Gateway!TypeOK, Addressed, Gateway!Cut, UNCHANGED <<run, home>>
  PROVE  /\ ~link' /\ link' \in BOOLEAN /\ inbox' \in Seq(Gateway!Request)
         /\ Els(inbox') = {} /\ \A S : AtMostOnce(inbox', S)
         /\ wire' \in Seq(Gateway!Answer \cup Gateway!Event) /\ Els(wire') \subseteq Els(wire)
         /\ \A S : AtMostOnce(wire, S) => AtMostOnce(wire', S)
         /\ muted' \subseteq 0 .. MaxTurns
              /\ muted' = muted \cup {t \in Gateway!Turns : run[t] # "none"}
         /\ Addressed'
<1>1. /\ link' = FALSE /\ inbox' = <<>> /\ muted' = muted \cup {t \in Gateway!Turns : run[t] # "none"}
  BY DEF Gateway!Cut
<1>2. PICK n \in 0 .. Len(wire) : wire' = SubSeq(wire, 1, n) BY DEF Gateway!Cut
<1>3. wire \in Seq(Gateway!Answer \cup Gateway!Event) BY DEF Gateway!TypeOK
<1>4. /\ wire' \in Seq(Gateway!Answer \cup Gateway!Event) /\ Els(wire') \subseteq Els(wire)
      /\ \A S : AtMostOnce(wire, S) => AtMostOnce(wire', S)
  BY <1>2, <1>3, InTheBeginning
<1>5. Els(inbox') = {} /\ \A S : AtMostOnce(inbox', S) BY <1>1, Empty
<1>6. muted' \subseteq 0 .. MaxTurns
  <2>1. Gateway!Turns \subseteq 0 .. MaxTurns BY DEF Gateway!Turns, Gateway!GatewayAssumption
  <2> QED BY <1>1, <2>1 DEF Gateway!TypeOK
<1>7. Addressed' BY <1>5 DEF Addressed
<1>8. ~link' /\ link' \in BOOLEAN BY <1>1
<1>9. inbox' \in Seq(Gateway!Request) BY <1>1
<1> QED BY <1>1, <1>4, <1>5, <1>6, <1>7, <1>8, <1>9

\* So the one turn that is owed something is told that it gets nothing.
LEMMA CutCalm ==
  ASSUME Gateway!GatewayAssumption, Gateway!TypeOK, Calm, Addressed, Gateway!Cut,
          sending' \in [Gateway!Turns -> Gateway!CallState],
         UNCHANGED <<sessionKey, status, frames, held, number, waiting, ending, ends, timer, run, home>>,
         \A t \in Gateway!Turns : /\ Unsent(t)' = Unsent(t) /\ sending'[t].sid = sending[t].sid
                                  /\ Gateway!At(t, "idle")' = Gateway!At(t, "idle")
                                       /\ Gateway!At(t, "over")' = Gateway!At(t, "over")
                                  /\ sending'[t].pc = "told" /\ sending'[t].ok
                                       => sending'[t] = sending[t]
  PROVE  Calm'
<1>1. /\ ~link' /\ Els(inbox') = {} /\ \A S : AtMostOnce(inbox', S)
      /\ Els(wire') \subseteq Els(wire) /\ \A S : AtMostOnce(wire, S) => AtMostOnce(wire', S)
      /\ muted' = muted \cup {t \in Gateway!Turns : run[t] # "none"}
  BY Cutting
<1>2. waiting => number \in Gateway!Turns
  BY DEF Calm, Numbered, Gateway!TypeOK, Gateway!Turns, Gateway!GatewayAssumption
<1>3. Numbered' BY DEF Calm, Numbered, Gateway!At
<1>4. Requested' BY <1>1 DEF Calm, Requested, Gateway!At
<1>5. \A t \in Gateway!Turns : (Coming(t)' => Coming(t)) /\ Told(t)' = Told(t)
  BY <1>1 DEF Coming, Told, ByRun
<1>6. GatewaySingle' BY <1>1, <1>5 DEF Calm, GatewaySingle
<1>7. Homely' BY <1>1 DEF Calm, Homely
<1>8. Owed' BY <1>1, <1>2 DEF Calm, Owed
<1>9. Ended' BY PartsUnmoved DEF Calm
<1> QED BY <1>3, <1>4, <1>6, <1>7, <1>8, <1>9 DEF Calm

\* A connection that is closed loses what was on its way.
LEMMA CloseKeeps == ASSUME Gateway!GatewayAssumption, GatewayIInv, Gateway!Close PROVE GatewayIInv'
<1>1. /\ Gateway!Spend("kill") /\ sink' = FALSE /\ closed' \in {TRUE, closed} /\ Gateway!Drain
           /\ Gateway!Cut
      /\ UNCHANGED <<sessionKey, said, status, talking, listening, frames, held, number, waiting, ending, ends,
                     timer, run, home, adrift>>
  BY DEF Gateway!Close, Gateway!client, Gateway!turns
<1>2. Gateway!TypeOK /\ Addressed BY DEF GatewayIInv
<1>3. gatewayUsed' \in [Gateway!Kinds -> Nat] BY <1>1, <1>2, GatewaySpending DEF Gateway!Kinds
<1>4. sending' \in [Gateway!Turns -> Gateway!CallState] BY <1>1, <1>2, Drained
<1>5. /\ ~link' /\ link' \in BOOLEAN /\ inbox' \in Seq(Gateway!Request)
           /\ wire' \in Seq(Gateway!Answer \cup Gateway!Event)
      /\ muted' \subseteq 0 .. MaxTurns /\ Addressed'
  BY <1>1, <1>2, Cutting
<1>6. closed' \in BOOLEAN /\ sink' \in BOOLEAN BY <1>1, <1>2 DEF Gateway!TypeOK
<1>7. Gateway!TypeOK' BY <1>1, <1>2, <1>3, <1>4, <1>5, <1>6 DEF Gateway!TypeOK
<1>8. Calm => Calm' BY <1>1, <1>2, Drained, CutCalm
<1> QED BY <1>1, <1>5, <1>7, <1>8 DEF GatewayIInv

\* So does one that breaks.
LEMMA BreakKeeps == ASSUME Gateway!GatewayAssumption, GatewayIInv, Gateway!Break PROVE GatewayIInv'
<1>1. /\ Gateway!Spend("break") /\ Gateway!Cut
      /\ UNCHANGED <<sessionKey, said, status, talking, sink, listening, sending, frames, held, number, waiting, ending,
                     ends, timer, run, home, closed, adrift>>
  BY DEF Gateway!Break, Gateway!client, Gateway!turns, Gateway!socket
<1>2. Gateway!TypeOK /\ Addressed BY DEF GatewayIInv
<1>3. gatewayUsed' \in [Gateway!Kinds -> Nat] BY <1>1, <1>2, GatewaySpending DEF Gateway!Kinds
<1>5. /\ ~link' /\ link' \in BOOLEAN /\ inbox' \in Seq(Gateway!Request)
           /\ wire' \in Seq(Gateway!Answer \cup Gateway!Event)
      /\ muted' \subseteq 0 .. MaxTurns /\ Addressed'
  BY <1>1, <1>2, Cutting
<1>7. Gateway!TypeOK' BY <1>1, <1>2, <1>3, <1>5 DEF Gateway!TypeOK
<1>8. sending' \in [Gateway!Turns -> Gateway!CallState] BY <1>1, <1>2 DEF Gateway!TypeOK
<1>9. \A t \in Gateway!Turns : Unsent(t)' = Unsent(t) /\ Gateway!At(t, "idle")' = Gateway!At(t, "idle")
                       /\ Gateway!At(t, "over")' = Gateway!At(t, "over")
  BY <1>1 DEF Unsent, Gateway!At
<1>10. Calm => Calm' BY <1>1, <1>2, <1>8, <1>9, CutCalm
<1> QED BY <1>1, <1>5, <1>7, <1>10 DEF GatewayIInv

\* The reader leaves when the wire is empty; who waits is told no.
LEMMA ReaderEndsKeeps == ASSUME Gateway!GatewayAssumption, GatewayIInv, Gateway!ReaderEnds
  PROVE GatewayIInv'
<1>1. /\ listening' = FALSE /\ Gateway!Drain
      /\ UNCHANGED <<sessionKey, said, status, talking, sink, frames, held, number, waiting, ending, ends, timer,
                     inbox, wire, run, home, link, closed, gatewayUsed, muted, adrift>>
  BY DEF Gateway!ReaderEnds, Gateway!client, Gateway!turns, Gateway!gateway
<1>2. Gateway!TypeOK BY DEF GatewayIInv
<1>3. /\ sending' \in [Gateway!Turns -> Gateway!CallState]
      /\ \A t \in Gateway!Turns : /\ Unsent(t)' = Unsent(t) /\ sending'[t].sid = sending[t].sid
                                  /\ Gateway!At(t, "idle")' = Gateway!At(t, "idle")
                                       /\ Gateway!At(t, "over")' = Gateway!At(t, "over")
                                  /\ sending'[t].pc = "told" /\ sending'[t].ok
                                       => sending'[t] = sending[t]
  BY <1>1, <1>2, Drained
<1>4. Gateway!TypeOK' BY <1>1, <1>2, <1>3 DEF Gateway!TypeOK
<1>5. Addressed' BY <1>1, PartsUnmoved DEF GatewayIInv
<1>6. ASSUME Calm PROVE Calm'
  <2>1. \A s \in Gateway!Turns : (Unsent(s)' => Unsent(s)) /\ sending'[s].sid # Other
    BY <1>3, <1>6 DEF Calm, Homely
  <2>2. \A s \in Gateway!Turns : s > number' => sending'[s].pc = "idle"
    BY <1>1, <1>3, <1>6 DEF Calm, Numbered, Gateway!At
  <2>3. \A s \in Gateway!Turns : sending'[s].pc = "told" /\ sending'[s].ask = "send"
          /\ sending'[s].ok => run[s] # "none"
    BY <1>3, <1>6 DEF Calm, Requested, Gateway!At
  <2>4. waiting => number \in Gateway!Turns
    BY <1>2, <1>6 DEF Calm, Numbered, Gateway!TypeOK, Gateway!Turns, Gateway!GatewayAssumption
  <2>5. waiting /\ sending'[number].pc = "over" => Gateway!At(number, "over")
    BY <1>3, <2>4 DEF Gateway!At
  <2>6. Numbered' /\ Requested' /\ Homely' /\ Owed'
    BY <1>1, <1>2, <1>3, <1>6, <2>1, <2>2, <2>3, <2>5, CallsMove DEF Calm, Homely
  <2> QED BY <1>1, <1>6, <2>6, PartsUnmoved DEF Calm
<1> QED BY <1>1, <1>4, <1>5, <1>6 DEF GatewayIInv

\* An answer reaches who waits for it, or nobody.
LEMMA AnswerKeeps ==
  ASSUME Gateway!GatewayAssumption, GatewayIInv, Gateway!Read, Head(wire).kind = "answer"
    PROVE GatewayIInv'
<1> DEFINE f == Head(wire)
           t == f.turn
           d == [pc |-> "told", ask |-> f.ask, ok |-> f.ok, sid |-> f.sid]
<1>1. /\ wire # <<>> /\ wire' = Tail(wire)
      /\ sending' = IF Gateway!At(t, "wait")
           /\ sending[t].ask = f.ask THEN [sending EXCEPT ![t] = d] ELSE sending
      /\ UNCHANGED <<sessionKey, said, status, talking, sink, listening, frames, held, number, waiting, ending, ends,
                     timer, inbox, run, home, link, closed, gatewayUsed, muted, adrift>>
  BY DEF Gateway!Read, Gateway!socket, Gateway!turns
<1>2. Gateway!TypeOK BY DEF GatewayIInv
<1>3. /\ f \in Gateway!Answer \cup Gateway!Event /\ wire' \in Seq(Gateway!Answer \cup Gateway!Event)
           /\ Els(wire) = Els(wire') \cup {f}
      /\ \A S : AtMostOnce(wire, S) => AtMostOnce(wire', S)
  BY <1>1, <1>2, Tailed DEF Gateway!TypeOK
<1>4. f \in Gateway!Answer BY <1>3 DEF Gateway!Event
<1>5. t \in Gateway!Turns /\ f.ask \in Gateway!Asks /\ f.ok \in BOOLEAN /\ f.sid \in Gateway!Keys
  BY <1>4 DEF Gateway!Answer
<1>6. d \in Gateway!CallState /\ d.pc = "told" /\ d.ask = f.ask /\ d.ok = f.ok /\ d.sid = f.sid
  BY <1>5 DEF Gateway!CallState
<1>7. f.kind = "answer" /\ f \in Els(wire) BY <1>3
<1> HIDE DEF f, d
<1>8. sending' \in [Gateway!Turns -> Gateway!CallState] BY <1>1, <1>2, <1>5, <1>6 DEF Gateway!TypeOK
<1>9. Gateway!TypeOK' BY <1>1, <1>2, <1>3, <1>8 DEF Gateway!TypeOK
<1>10. Addressed' BY <1>1, PartsUnmoved DEF GatewayIInv
<1>11. ASSUME Calm PROVE Calm'
  <2>1. \A s \in Gateway!Turns : sending'[s] = sending[s]
          \/ (s = t /\ sending[s].pc = "wait" /\ sending[s].ask = f.ask /\ sending'[s] = d)
    BY <1>1, <1>2 DEF Gateway!TypeOK, Gateway!At
  <2>2. f.sid # Other /\ (f.ask = "send" /\ f.ok => run[t] # "none")
    BY <1>7, <1>11 DEF Calm, Homely, Requested
  <2>3. \A s \in Gateway!Turns : (Unsent(s)' => Unsent(s)) /\ sending'[s].sid # Other
    BY <1>6, <1>11, <2>1, <2>2 DEF Calm, Homely, Unsent
  <2>4. \A s \in Gateway!Turns : s > number' => sending'[s].pc = "idle"
    BY <1>1, <1>11, <2>1 DEF Calm, Numbered
  <2>5. \A s \in Gateway!Turns : sending'[s].pc = "told" /\ sending'[s].ask = "send"
          /\ sending'[s].ok => run[s] # "none"
    BY <1>6, <1>11, <2>1, <2>2 DEF Calm, Requested, Gateway!At
  <2>6. waiting => number \in Gateway!Turns
    BY <1>2, <1>11 DEF Calm, Numbered, Gateway!TypeOK, Gateway!Turns, Gateway!GatewayAssumption
  <2>7. waiting /\ sending'[number].pc = "over" => Gateway!At(number, "over")
    BY <1>6, <2>1, <2>6 DEF Gateway!At
  <2>8. Numbered'
    BY <1>1, <1>2, <1>8, <1>11, <2>3, <2>4, <2>5, CallsMove
  <2>9. Requested'
    <3>1. \A x \in Els(wire') : x \in Els(wire) BY <1>3
    <3> QED BY <1>1, <1>11, <2>3, <2>5, <3>1 DEF Calm, Requested, Gateway!At
  <2>10. Homely' BY <1>1, <1>3, <1>11, <2>3 DEF Calm, Homely
  <2>11. \A s : f \notin Ends(s) BY <1>7 DEF Ends, Gateway!IsEnd
  <2>12. \A s : Els(wire') \cap Ends(s) = Els(wire) \cap Ends(s) BY <1>3, <2>11
  <2>13. \A s : Coming(s)' = Coming(s) /\ Told(s)' = Told(s) BY <1>1, <2>12 DEF Coming, Told
  <2>14. GatewaySingle' BY <1>1, <1>3, <1>11, <2>12, <2>13 DEF Calm, GatewaySingle
  <2>15. Owed' BY <1>1, <1>11, <2>7, <2>13 DEF Calm, Owed, Gateway!At, Gateway!Going
  <2> QED BY <1>1, <1>11, <2>8, <2>9, <2>10, <2>14, <2>15, PartsUnmoved DEF Calm
<1> QED BY <1>1, <1>9, <1>10, <1>11 DEF GatewayIInv

\* A frame goes into the channel; if that is full, its oldest is lost.
LEMMA FrameKeeps ==
  ASSUME Gateway!GatewayAssumption, GatewayIInv, Gateway!Read, Head(wire).kind # "answer"
    PROVE GatewayIInv'
<1> DEFINE f == Head(wire)
           g == Head(frames)
<1>1. /\ wire # <<>> /\ wire' = Tail(wire) /\ f.kind # "answer"
      /\ frames' = IF Len(frames) < FrameCapacity THEN Append(frames, f) ELSE Append(Tail(frames), f)
      /\ muted' = IF Len(frames) < FrameCapacity \/ g.kind = "delta" THEN muted ELSE muted \cup {g.turn}
      /\ UNCHANGED <<sessionKey, said, status, talking, sink, listening, sending, held, number, waiting, ending, ends,
                     timer, inbox, run, home, link, closed, gatewayUsed, adrift>>
  BY DEF Gateway!Read, Gateway!socket, Gateway!turns
<1>2. Gateway!TypeOK BY DEF GatewayIInv
<1>3. /\ f \in Gateway!Answer \cup Gateway!Event /\ wire' \in Seq(Gateway!Answer \cup Gateway!Event)
           /\ Els(wire) = Els(wire') \cup {f}
      /\ \A S : AtMostOnce(wire, S) => AtMostOnce(wire', S) /\ (f \in S => Els(wire') \cap S = {})
  BY <1>1, <1>2, Tailed DEF Gateway!TypeOK
<1>4. f \in Gateway!Event BY <1>1, <1>3 DEF Gateway!Answer
<1>5. frames \in Seq(Gateway!Event) /\ (Len(frames) >= FrameCapacity => frames # <<>>)
  BY <1>2 DEF Gateway!TypeOK, Gateway!GatewayAssumption
<1> HIDE DEF f
<1>6. /\ frames' \in Seq(Gateway!Event) /\ f \in Els(frames')
           /\ Els(frames') \subseteq Els(frames) \cup {f}
      /\ \A x \in Els(frames) : x \in Els(frames') \/ (x = g /\ Len(frames) >= FrameCapacity)
      /\ \A S : AtMostOnce(frames, S) /\ (f \in S => Els(frames) \cap S = {}) => AtMostOnce(frames', S)
      /\ (Len(frames) >= FrameCapacity => g \in Gateway!Event)
  <2>1. CASE Len(frames) < FrameCapacity
    <3>1. frames' = Append(frames, f) BY <1>1, <2>1
    <3>2. ~(Len(frames) >= FrameCapacity) BY <2>1, <1>5 DEF Gateway!GatewayAssumption
    <3> QED BY <1>4, <1>5, <3>1, <3>2, OneMore
  <2>2. CASE ~(Len(frames) < FrameCapacity)
    <3>1. frames' = Append(Tail(frames), f) BY <1>1, <2>2
    <3>2. Len(frames) >= FrameCapacity /\ frames # <<>> BY <1>5, <2>2 DEF Gateway!GatewayAssumption
    <3>3. /\ Tail(frames) \in Seq(Gateway!Event) /\ g \in Gateway!Event
               /\ Els(frames) = Els(Tail(frames)) \cup {g}
          /\ \A S : AtMostOnce(frames, S) => AtMostOnce(Tail(frames), S)
      BY <1>5, <3>2, Tailed
    <3>4. /\ frames' \in Seq(Gateway!Event) /\ Els(frames') = Els(Tail(frames)) \cup {f}
          /\ \A S : AtMostOnce(Tail(frames), S) /\ (f \in S => Els(Tail(frames)) \cap S = {})
               => AtMostOnce(frames', S)
      BY <1>4, <3>1, <3>3, OneMore
    <3> QED BY <3>2, <3>3, <3>4
  <2> QED BY <2>1, <2>2
<1>7. /\ muted \subseteq muted' /\ muted' \subseteq 0 .. MaxTurns
      /\ Len(frames) >= FrameCapacity /\ g.kind # "delta" => g.turn \in muted'
  <2>1. Len(frames) >= FrameCapacity => g.turn \in 0 .. MaxTurns BY <1>6 DEF Gateway!Event
  <2>2. Len(frames) >= FrameCapacity <=> ~(Len(frames) < FrameCapacity)
    BY <1>5 DEF Gateway!GatewayAssumption
  <2> QED BY <1>1, <1>2, <2>1, <2>2 DEF Gateway!TypeOK
<1> HIDE DEF g
<1>8. Gateway!TypeOK' BY <1>1, <1>2, <1>3, <1>6, <1>7 DEF Gateway!TypeOK
<1>9. Addressed' BY <1>1, PartsUnmoved DEF GatewayIInv
<1>10. ASSUME Calm PROVE Calm'
  <2>1. Numbered' /\ Ended' BY <1>1, <1>10, PartsUnmoved DEF Calm
  <2>2. Requested' BY <1>1, <1>3, <1>10 DEF Calm, Requested, Gateway!At, Unsent
  <2>3. Homely' BY <1>1, <1>3, <1>6, <1>10 DEF Calm, Homely
  <2>4. \A s \in Gateway!Turns : Told(s)' = Told(s) BY <1>1 DEF Told, ByRun
  <2>5. \A s \in Gateway!Turns : Coming(s)' => Coming(s) BY <1>1, <1>3, <1>6 DEF Coming
  <2>6. GatewaySingle'
    <3>1. ASSUME NEW s \in Gateway!Turns
          PROVE  /\ AtMostOnce(wire', Ends(s)) /\ AtMostOnce(frames', Ends(s))
                 /\ Els(wire') \cap Ends(s) # {}
                      => Els(frames') \cap Ends(s) = {} /\ held' \notin Ends(s)
                 /\ Els(frames') \cap Ends(s) # {} => held' \notin Ends(s)
      <4>1. /\ AtMostOnce(wire, Ends(s)) /\ AtMostOnce(frames, Ends(s))
            /\ Els(wire) \cap Ends(s) # {} => Els(frames) \cap Ends(s) = {} /\ held \notin Ends(s)
            /\ Els(frames) \cap Ends(s) # {} => held \notin Ends(s)
        BY <1>10 DEF Calm, GatewaySingle
      <4>2. CASE f \in Ends(s)
        <5>1. Els(wire') \cap Ends(s) = {} /\ Els(frames) \cap Ends(s) = {} /\ held \notin Ends(s)
          BY <1>3, <4>1, <4>2
        <5> QED BY <1>1, <1>3, <1>6, <4>1, <5>1
      <4>3. CASE f \notin Ends(s)
        <5>1. Els(frames') \cap Ends(s) \subseteq Els(frames) \cap Ends(s) BY <1>6, <4>3
        <5> QED BY <1>1, <1>3, <1>6, <4>1, <4>3, <5>1
      <4> QED BY <4>2, <4>3
    <3>2. \A s \in Gateway!Turns : Coming(s)' => run'[s] = "over" /\ ~Told(s)'
      BY <1>1, <1>10, <2>4, <2>5 DEF Calm, GatewaySingle
    <3> QED BY <3>1, <3>2 DEF GatewaySingle
  <2>7. Owed'
    <3>1. ASSUME waiting, number \notin muted', Coming(number) PROVE Coming(number)'
      <4>0. Coming(number)' <=> \/ Els(wire') \cap Ends(number) # {}
              \/ Els(frames') \cap Ends(number) # {}
                                \/ held \in Ends(number)
        BY <1>1 DEF Coming, Ends, Gateway!IsEnd
      <4>1. CASE f \in Ends(number) BY <1>6, <4>0, <4>1
      <4>2. CASE f \notin Ends(number) /\ Els(wire) \cap Ends(number) # {} BY <1>3, <4>0, <4>2
      <4>3. CASE held \in Ends(number) BY <4>0, <4>3
      <4>4. ASSUME NEW x \in Els(frames), x \in Ends(number) PROVE Coming(number)'
        <5>1. x.kind = "end" /\ x.turn = number BY <4>4 DEF Ends, Gateway!IsEnd
        <5>2. ~(x = g /\ Len(frames) >= FrameCapacity) BY <1>7, <3>1, <5>1
        <5> QED BY <1>6, <4>0, <4>4, <5>2
      <4> QED BY <3>1, <4>1, <4>2, <4>3, <4>4 DEF Coming
    <3>2. Gateway!Going(number)' = Gateway!Going(number)
            /\ Gateway!At(number, "over")' = Gateway!At(number, "over")
      BY <1>1 DEF Gateway!Going, Gateway!At
    <3> QED BY <1>1, <1>7, <1>10, <3>1, <3>2 DEF Calm, Owed
  <2> QED BY <2>1, <2>2, <2>3, <2>6, <2>7 DEF Calm
<1> QED BY <1>1, <1>8, <1>9, <1>10 DEF GatewayIInv

\* A frame is taken up; of another session there is none, unless adrift.
LEMMA MapKeeps == ASSUME Gateway!GatewayAssumption, GatewayIInv, Gateway!Map PROVE GatewayIInv'
<1> DEFINE f == Head(frames)
           passes == sessionKey \in {Nil, f.session}
<1>1. /\ held = Nil /\ frames # <<>> /\ frames' = Tail(frames)
      /\ held' = IF passes /\ (f.kind = "end" \/ ~talking) THEN f ELSE Nil
      /\ talking' = IF passes THEN f.kind = "delta" ELSE talking
      /\ adrift' = (adrift \/ (sessionKey = Nil /\ f.session = Other))
      /\ UNCHANGED <<sessionKey, said, status, sink, listening, sending, number, waiting, ending, ends,
                     timer, inbox, wire, run, home, link, closed, gatewayUsed, muted>>
  BY DEF Gateway!Map, Gateway!socket, Gateway!turns, Gateway!gateway
<1>2. Gateway!TypeOK BY DEF GatewayIInv
<1>3. /\ f \in Gateway!Event /\ frames' \in Seq(Gateway!Event) /\ Els(frames) = Els(frames') \cup {f}
      /\ \A S : AtMostOnce(frames, S) => AtMostOnce(frames', S) /\ (f \in S => Els(frames') \cap S = {})
  BY <1>1, <1>2, Tailed DEF Gateway!TypeOK
<1>4. f.kind \in {"delta", "end"} /\ f.session \in {Own, Other} BY <1>3 DEF Gateway!Event
<1>4a. f # Nil BY <1>3 DEF Gateway!GatewayAssumption
<1> HIDE DEF f
<1>5. held' \in {f, Nil} /\ talking' \in BOOLEAN /\ adrift' \in BOOLEAN
  BY <1>1, <1>2 DEF Gateway!TypeOK
<1>6. Gateway!TypeOK' BY <1>1, <1>2, <1>3, <1>5 DEF Gateway!TypeOK
<1>7. Addressed' BY <1>1, PartsUnmoved DEF GatewayIInv
<1>8. ASSUME Calm, ~adrift' PROVE Calm'
  <2>1. Numbered' /\ Requested' /\ Ended' BY <1>1, <1>8, PartsUnmoved DEF Calm
  <2>2. f.turn = 0 <=> f.session = Other BY <1>3, <1>4, <1>8 DEF Calm, Homely
  <2>3. passes => f.session = Own /\ f.turn # 0
    BY <1>1, <1>4, <1>8, <2>2 DEF Calm, Homely, Gateway!TypeOK
  <2>4. f.session = Own => passes BY <1>2, <1>8 DEF Gateway!TypeOK, Gateway!Keys, Calm, Homely
  <2>5. Homely' BY <1>1, <1>3, <1>8, <2>3 DEF Calm, Homely
  <2>6. \A s \in Gateway!Turns : Told(s)' = Told(s) BY <1>1 DEF Told, ByRun
  <2>7. \A s : Nil \notin Ends(s) BY DEF Ends, Gateway!GatewayAssumption
  <2>8. \A s \in Gateway!Turns : f \in Ends(s) => held' = f
    BY <1>1, <1>4, <2>2, <2>4 DEF Ends, Gateway!IsEnd, Gateway!Turns, Gateway!GatewayAssumption
  <2>9. GatewaySingle'
    <3>1. ASSUME NEW s \in Gateway!Turns
          PROVE  /\ AtMostOnce(wire', Ends(s)) /\ AtMostOnce(frames', Ends(s))
                 /\ Els(wire') \cap Ends(s) # {}
                      => Els(frames') \cap Ends(s) = {} /\ held' \notin Ends(s)
                 /\ Els(frames') \cap Ends(s) # {} => held' \notin Ends(s)
                 /\ Coming(s)' => Coming(s)
      BY <1>1, <1>3, <1>5, <1>8, <2>7 DEF Calm, GatewaySingle, Coming
    <3>2. \A s \in Gateway!Turns : Coming(s)' => run'[s] = "over" /\ ~Told(s)'
      BY <1>1, <1>8, <2>6, <3>1 DEF Calm, GatewaySingle
    <3> QED BY <3>1, <3>2 DEF GatewaySingle
  <2>10. Owed'
    <3>1. waiting => number \in Gateway!Turns
      BY <1>2, <1>8 DEF Calm, Numbered, Gateway!TypeOK, Gateway!Turns, Gateway!GatewayAssumption
    <3>2. ASSUME waiting, Coming(number) PROVE Coming(number)'
      BY <1>1, <1>3, <2>7, <2>8, <3>1, <3>2 DEF Coming, Ends, Gateway!IsEnd
    <3>3. Gateway!Going(number)' = Gateway!Going(number)
            /\ Gateway!At(number, "over")' = Gateway!At(number, "over")
      BY <1>1 DEF Gateway!Going, Gateway!At
    <3> QED BY <1>1, <1>8, <3>2, <3>3 DEF Calm, Owed
  <2> QED BY <2>1, <2>5, <2>9, <2>10 DEF Calm
<1> QED BY <1>1, <1>6, <1>7, <1>8 DEF GatewayIInv

\* An end is told, once; by then its run was begun, and is over.
LEMMA GatewayTellKeeps == ASSUME Gateway!GatewayAssumption, GatewayIInv, Gateway!Tell PROVE GatewayIInv'
<1> DEFINE t == held.turn
           e == ByRun(t)
<1>1. /\ held # Nil /\ held' = Nil
      /\ UNCHANGED <<said, talking, sink, listening, sending, frames, number, waiting, ending, timer, inbox,
                     wire, run, home, link, closed, gatewayUsed, muted, adrift>>
      /\ \/ held.kind = "end" /\ status' = "finished" /\ sessionKey' \in {sessionKey, held.session}
              /\ ends' = IF waiting THEN Append(ends, e) ELSE ends
         \/ held.kind # "end" /\ status' = (IF status = "finished" THEN status ELSE "running")
              /\ sessionKey' = held.session /\ ends' = ends
  BY DEF Gateway!Tell, Gateway!Broadcast, Gateway!Transition, ByRun, Gateway!socket, Gateway!turns,
     Gateway!gateway
<1>2. Gateway!TypeOK /\ held \in Gateway!Event BY <1>1 DEF GatewayIInv, Gateway!TypeOK
<1>3. held.session \in Gateway!Keys /\ t \in 0 .. MaxTurns /\ held.kind \in {"delta", "end"}
  BY <1>2 DEF Gateway!Event, Gateway!Keys
<1>4. e \in Gateway!End /\ e.by = "run" /\ e.turn = t /\ \A s : e = ByRun(s) => s = t
  BY <1>3 DEF Gateway!End, ByRun
<1> HIDE DEF e
<1>5. /\ ends' \in Seq(Gateway!End) /\ Els(ends') \subseteq Els(ends) \cup {e}
      /\ waiting /\ held.kind = "end" => ends' # <<>>
      /\ held.kind # "end" \/ ~waiting => ends' = ends
  <2>1. ends \in Seq(Gateway!End) BY <1>2 DEF Gateway!TypeOK
  <2>2. CASE held.kind = "end" /\ waiting
    <3>1. ends' = Append(ends, e) BY <1>1, <2>2
    <3> QED BY <1>4, <2>1, <2>2, <3>1, OneMore
  <2>3. CASE ~(held.kind = "end" /\ waiting)
    <3>1. ends' = ends BY <1>1, <2>3
    <3> QED BY <2>1, <2>3, <3>1
  <2> QED BY <2>2, <2>3
<1>6. Gateway!TypeOK' BY <1>1, <1>2, <1>3, <1>5 DEF Gateway!TypeOK
<1>7. Addressed' BY <1>1, PartsUnmoved DEF GatewayIInv
<1>8. ASSUME Calm PROVE Calm'
  <2>1. held.session = Own /\ t \in Gateway!Turns
    BY <1>1, <1>3, <1>8 DEF Calm, Homely, Gateway!Turns, Gateway!GatewayAssumption
  <2>2. Requested' BY <1>1, <1>8, PartsUnmoved DEF Calm
  <2>3. Homely' BY <1>1, <1>8, <2>1 DEF Calm, Homely, Gateway!GatewayAssumption
  <2>4. \A s \in Gateway!Turns : Nil \notin Ends(s) BY DEF Ends, Gateway!GatewayAssumption
  <2>5. \A s \in Gateway!Turns : held \in Ends(s) => s = t BY DEF Ends, Gateway!IsEnd
  <2>6. held.kind = "end" => held \in Ends(t) BY <1>2 DEF Ends, Gateway!IsEnd
  <2>7. CASE held.kind # "end"
    <3>1. ends' = ends BY <1>5, <2>7
    <3>2. \A s \in Gateway!Turns : Told(s)' = Told(s) BY <1>1, <3>1 DEF Told, ByRun
    <3>3. \A s : held \notin Ends(s) BY <2>7 DEF Ends, Gateway!IsEnd
    <3>4. \A s \in Gateway!Turns : Coming(s)' = Coming(s) BY <1>1, <2>4, <3>3 DEF Coming
    <3>5. GatewaySingle' BY <1>1, <1>8, <2>4, <3>2, <3>4 DEF Calm, GatewaySingle
    <3>6. Numbered' BY <1>1, <1>8, <2>7, <3>1 DEF Calm, Numbered
    <3>7. waiting => number \in Gateway!Turns
      BY <1>2, <1>8 DEF Calm, Numbered, Gateway!TypeOK, Gateway!Turns, Gateway!GatewayAssumption
    <3>8. waiting => Coming(number)' = Coming(number) BY <1>1, <3>4, <3>7
    <3>9. Owed' BY <1>1, <1>8, <3>1, <3>8 DEF Calm, Owed, Gateway!Going, Gateway!At
    <3>10. Ended' BY <1>1, <1>8, <3>1, PartsUnmoved DEF Calm
    <3> QED BY <2>2, <2>3, <3>5, <3>6, <3>9, <3>10 DEF Calm
  <2>8. CASE held.kind = "end"
    <3>1. /\ run[t] = "over" /\ ~Told(t) /\ Els(wire) \cap Ends(t) = {} /\ Els(frames) \cap Ends(t) = {}
      BY <1>8, <2>1, <2>6, <2>8 DEF Calm, GatewaySingle, Coming
    <3>2. \A s \in Gateway!Turns : Told(s)' => Told(s) \/ s = t BY <1>1, <1>4, <1>5 DEF Told, ByRun
    <3>3. \A s \in Gateway!Turns : Coming(s)' => Coming(s) /\ s # t BY <1>1, <2>4, <3>1 DEF Coming
    <3>4. GatewaySingle' BY <1>1, <1>8, <2>4, <3>2, <3>3 DEF Calm, GatewaySingle
    <3>5. Numbered' BY <1>1, <1>8, <2>8 DEF Calm, Numbered
    <3>6. Owed' BY <1>1, <1>5, <2>8 DEF Owed
    <3>7. t \in 1 .. number
      <4>1. ~(sending[t].pc = "idle") BY <1>8, <2>1, <3>1 DEF Calm, Requested, Unsent
      <4> QED
        BY <1>2, <1>8, <2>1, <4>1 DEF Calm, Numbered, Gateway!Turns, Gateway!TypeOK,
           Gateway!GatewayAssumption
    <3>8. \A x \in Els(ends') : IF x.by = "run" THEN x.turn \in 1 .. number ELSE x.turn = number
      BY <1>4, <1>5, <1>8, <3>7 DEF Calm, Ended
    <3>9. \A s \in Gateway!Turns : ~(ending[s] = ByRun(s) /\ ByRun(s) \in Els(ends'))
      BY <1>4, <1>5, <1>8, <3>1 DEF Calm, Ended, Told
    <3>10. \A s \in Gateway!Turns : Told(s)' => run[s] = "over" BY <1>8, <3>1, <3>2 DEF Calm, Ended
    <3>11. Ended' BY <1>1, <1>8, <3>8, <3>9, <3>10 DEF Calm, Ended, Gateway!EndIsOwn, ByRun
    <3> QED BY <2>2, <2>3, <3>4, <3>5, <3>6, <3>11 DEF Calm
  <2> QED BY <2>7, <2>8
<1> QED BY <1>1, <1>6, <1>7, <1>8 DEF GatewayIInv

\* A frame that is no end joins the wire.
LEMMA WireGrows ==
  ASSUME Gateway!GatewayAssumption, Gateway!TypeOK, Calm,
           NEW f \in Gateway!Answer \cup Gateway!Event, wire' = Append(wire, f),
         f.kind = "answer" => f.sid # Other /\ (f.ask = "send" /\ f.ok => run'[f.turn] # "none"),
         f.kind # "answer"
           => (f.turn = 0 <=> f.session = Other), \A s \in Gateway!Turns : f \notin Ends(s),
         UNCHANGED <<sessionKey, sending, number, timer, waiting, ends, status, frames, held, ending, muted>>,
         link => link', run' \in [Gateway!Turns -> {"none", "going", "spoke", "over"}],
         \A s \in Gateway!Turns : run'[s] = run[s] \/ (run'[s] \in {"going", "spoke"}
           /\ run[s] # "over" /\ link)
  PROVE  /\ wire' \in Seq(Gateway!Answer \cup Gateway!Event)
         /\ Numbered' /\ GatewaySingle' /\ Owed' /\ Ended'
         /\ UNCHANGED <<inbox, home>> /\ (\A s \in Gateway!Turns : run[s] = "none" => run'[s] = "none")
              => Requested' /\ Homely'
         /\ \A x \in Els(wire') : x.kind = "answer" =>
              x.sid # Other /\ (x.ask = "send" /\ x.ok => run'[x.turn] # "none")
         /\ \A x \in Els(wire') \cup Els(frames') : x.kind # "answer"
              => (x.turn = 0 <=> x.session = Other)
<1>0. wire \in Seq(Gateway!Answer \cup Gateway!Event) BY DEF Gateway!TypeOK
<1>1. /\ wire' \in Seq(Gateway!Answer \cup Gateway!Event) /\ Els(wire') = Els(wire) \cup {f}
      /\ \A S : AtMostOnce(wire, S) /\ (f \in S => Els(wire) \cap S = {}) => AtMostOnce(wire', S)
  BY <1>0, OneMore
<1>2. Numbered' BY PartsUnmoved DEF Calm
<1>3. \A s \in Gateway!Turns : Told(s)' = Told(s) BY DEF Told, ByRun
<1>4. \A s \in Gateway!Turns : Els(wire') \cap Ends(s) = Els(wire) \cap Ends(s) BY <1>1
<1>5. \A s \in Gateway!Turns : Coming(s)' = Coming(s) BY <1>4 DEF Coming
<1>6. \A s \in Gateway!Turns : run[s] = "over" => run'[s] = "over" OBVIOUS
<1>7. GatewaySingle' BY <1>1, <1>3, <1>4, <1>5, <1>6 DEF Calm, GatewaySingle
<1>8. Owed'
  <2>1. waiting => number \in Gateway!Turns
    BY DEF Calm, Numbered, Gateway!TypeOK, Gateway!Turns, Gateway!GatewayAssumption
  <2>2. waiting => Coming(number)' = Coming(number) BY <1>5, <2>1
  <2>3. waiting /\ Gateway!At(number, "over") /\ run[number] # "none" => run'[number] # "none" BY <2>1
  <2> QED BY <2>1, <2>2, <2>3 DEF Calm, Owed, Gateway!Going, Gateway!At
<1>9. Ended' BY <1>3, <1>6 DEF Calm, Ended, Gateway!EndIsOwn, ByRun
<1>10. \A x \in Gateway!Answer : x.turn \in Gateway!Turns BY DEF Gateway!Answer
<1>11. \A x \in Els(wire) : x.kind = "answer" => x \in Gateway!Answer
  <2>1. \A x \in Els(wire) : x \in Gateway!Answer \cup Gateway!Event BY DEF Gateway!TypeOK, Els
  <2> QED BY <2>1 DEF Gateway!Event
<1>12. \A x \in Els(wire') : x.kind = "answer" =>
         x.sid # Other /\ (x.ask = "send" /\ x.ok => run'[x.turn] # "none")
  BY <1>1, <1>10, <1>11 DEF Calm, Homely, Requested
<1>13. \A x \in Els(wire') \cup Els(frames') : x.kind # "answer" => (x.turn = 0 <=> x.session = Other)
  BY <1>1 DEF Calm, Homely
<1>14. ASSUME UNCHANGED <<inbox, home>>, \A s \in Gateway!Turns : run[s] = "none" => run'[s] = "none"
       PROVE  Requested' /\ Homely'
  <2>1. Requested' BY <1>12, <1>14 DEF Calm, Requested, Gateway!At, Unsent
  <2>2. Homely' BY <1>12, <1>13, <1>14 DEF Calm, Homely
  <2> QED BY <2>1, <2>2
<1> QED BY <1>1, <1>2, <1>7, <1>8, <1>9, <1>12, <1>13, <1>14

\* A frame of another session belongs to no turn.
LEMMA ForeignKeeps == ASSUME Gateway!GatewayAssumption, GatewayIInv, Gateway!Foreign PROVE GatewayIInv'
<1>1. PICK kind \in {"delta", "end"} : wire' = Append(wire, Gateway!Frame(kind, 0, Other))
  BY DEF Gateway!Foreign
<1> DEFINE f == Gateway!Frame(kind, 0, Other)
<1>2. /\ Gateway!Spend("foreign")
      /\ UNCHANGED <<sessionKey, said, status, talking, sink, listening, sending, frames, held, number, waiting, ending,
                     ends, timer, inbox, run, home, link, closed, muted, adrift>>
  BY DEF Gateway!Foreign, Gateway!socket, Gateway!client, Gateway!turns
<1>3. Gateway!TypeOK BY DEF GatewayIInv
<1>4. f \in Gateway!Event /\ f.kind = kind /\ f.turn = 0 /\ f.session = Other
  BY DEF Gateway!Frame, Gateway!Event, Gateway!GatewayAssumption
<1>5. \A s \in Gateway!Turns : f \notin Ends(s)
  BY <1>4 DEF Ends, Gateway!IsEnd, Gateway!Turns, Gateway!GatewayAssumption
<1>6. wire' = Append(wire, f) /\ f.kind # "answer" BY <1>1, <1>4
<1> HIDE DEF f
<1>7. gatewayUsed' \in [Gateway!Kinds -> Nat] BY <1>2, <1>3, GatewaySpending DEF Gateway!Kinds
<1>8. wire' \in Seq(Gateway!Answer \cup Gateway!Event) BY <1>3, <1>4, <1>6, OneMore DEF Gateway!TypeOK
<1>9. Gateway!TypeOK' BY <1>2, <1>3, <1>7, <1>8 DEF Gateway!TypeOK
<1>10. Addressed' BY <1>2, PartsUnmoved DEF GatewayIInv
<1>11. run' \in [Gateway!Turns -> {"none", "going", "spoke", "over"}] BY <1>2, <1>3 DEF Gateway!TypeOK
<1>12. Calm => Calm' BY <1>2, <1>3, <1>4, <1>5, <1>6, <1>11, WireGrows DEF Calm
<1> QED BY <1>2, <1>9, <1>10, <1>12 DEF GatewayIInv

\* The end of a run that goes on is the only one of it.
LEMMA RunEnds ==
  ASSUME Gateway!GatewayAssumption, Gateway!TypeOK, Addressed, Calm,
           NEW t \in Gateway!Turns, Gateway!Going(t),
         run' = [run EXCEPT ![t] = "over"], wire' = Append(wire, Gateway!Frame("end", t, home[t])),
         inbox' \in Seq(Gateway!Request), Els(inbox') \subseteq Els(inbox),
         \A S : AtMostOnce(inbox, S) => AtMostOnce(inbox', S),
         UNCHANGED <<sessionKey, sending, number, timer, waiting, ends, status, frames, held, ending, muted, home,
                     link>>
  PROVE  Calm'
<1> DEFINE f == Gateway!Frame("end", t, home[t])
<1>1. home[t] = Own /\ run[t] # "none" /\ run[t] # "over"
  BY DEF Addressed, Calm, Homely, Gateway!TypeOK, Gateway!Keys, Gateway!Going
<1>2. f \in Gateway!Event /\ f.kind = "end" /\ f.turn = t /\ f.session = Own /\ t # 0
  BY <1>1 DEF Gateway!Frame, Gateway!Event, Gateway!Turns, Gateway!GatewayAssumption
<1>3. wire' = Append(wire, f) OBVIOUS
<1> HIDE DEF f
<1>4. /\ Els(wire') = Els(wire) \cup {f}
      /\ \A S : AtMostOnce(wire, S) /\ (f \in S => Els(wire) \cap S = {}) => AtMostOnce(wire', S)
  BY <1>2, <1>3, OneMore DEF Gateway!TypeOK
<1>5. \A s \in Gateway!Turns : run'[s] = IF s = t THEN "over" ELSE run[s] BY DEF Gateway!TypeOK
<1>6. \A s \in Gateway!Turns : f \in Ends(s) <=> s = t BY <1>2 DEF Ends, Gateway!IsEnd
<1>7. \A s \in Gateway!Turns : Told(s)' = Told(s) BY DEF Told, ByRun
<1>8. ~Coming(t) /\ ~Told(t) BY <1>1 DEF Calm, GatewaySingle, Ended
<1>9. Numbered' BY PartsUnmoved DEF Calm
<1>10. Requested'
  <2>1. \A x \in Els(wire') : x \in Els(wire) \/ x.kind # "answer" BY <1>2, <1>4
  <2>2. \A s \in Gateway!Turns : run'[s] = "none" <=> run[s] = "none" BY <1>1, <1>5
  <2>3. \A x \in Els(wire') : x.kind = "answer" /\ x.ask = "send" /\ x.ok => run'[x.turn] # "none"
    <3>1. ASSUME NEW x \in Els(wire), x.kind = "answer", x.ask = "send", x.ok
      PROVE run'[x.turn] # "none"
      <4>1. x \in Gateway!Answer \cup Gateway!Event BY DEF Gateway!TypeOK, Els
      <4>2. x.turn \in Gateway!Turns BY <3>1, <4>1 DEF Gateway!Answer, Gateway!Event
      <4> QED BY <2>2, <3>1, <4>2 DEF Calm, Requested
    <3> QED BY <2>1, <3>1
  <2> QED BY <2>2, <2>3 DEF Calm, Requested, Gateway!At, Unsent
<1>11. GatewaySingle'
  <2>1. ASSUME NEW s \in Gateway!Turns
        PROVE  /\ AtMostOnce(wire', Ends(s)) /\ AtMostOnce(frames', Ends(s))
               /\ Els(wire') \cap Ends(s) # {} => Els(frames') \cap Ends(s) = {} /\ held' \notin Ends(s)
               /\ Els(frames') \cap Ends(s) # {} => held' \notin Ends(s)
               /\ Coming(s)' => Coming(s) \/ s = t
    BY <1>4, <1>6, <1>8 DEF Calm, GatewaySingle, Coming
  <2>2. \A s \in Gateway!Turns : Coming(s)' => run'[s] = "over" /\ ~Told(s)'
    BY <1>5, <1>7, <1>8, <2>1 DEF Calm, GatewaySingle
  <2> QED BY <2>1, <2>2 DEF GatewaySingle
<1>12. Homely' BY <1>2, <1>4 DEF Calm, Homely, Gateway!GatewayAssumption
<1>13. Owed'
  <2>1. waiting => number \in Gateway!Turns
    BY DEF Calm, Numbered, Gateway!TypeOK, Gateway!Turns, Gateway!GatewayAssumption
  <2>2. \A s \in Gateway!Turns : Coming(s) => Coming(s)' BY <1>4 DEF Coming
  <2>3. Coming(t)' BY <1>4, <1>6 DEF Coming
  <2>4. waiting /\ number = t => Coming(number)' BY <2>3
  <2>5. waiting /\ number # t => run'[number] = run[number] /\ (Coming(number) => Coming(number)')
    BY <1>5, <2>1, <2>2
  <2>6. waiting /\ number = t => run'[number] # "none" BY <1>5, <2>1
  <2> QED BY <2>4, <2>5, <2>6 DEF Calm, Owed, Gateway!Going, Gateway!At
<1>14. Ended' BY <1>5, <1>7 DEF Calm, Ended, Gateway!EndIsOwn, ByRun
<1> QED BY <1>9, <1>10, <1>11, <1>12, <1>13, <1>14 DEF Calm

\* A run that goes on speaks, or ends.
LEMMA SpeakKeeps == ASSUME Gateway!GatewayAssumption, GatewayIInv,
                             NEW t \in Gateway!Turns, Gateway!Speak(t)
  PROVE GatewayIInv'
<1> DEFINE f == Gateway!Frame("delta", t, home[t])
           g == Gateway!Frame("end", t, home[t])
<1>1. /\ Gateway!Going(t) /\ link
      /\ \/ run[t] = "going" /\ run' = [run EXCEPT ![t] = "spoke"] /\ wire' = Append(wire, f)
         \/ run' = [run EXCEPT ![t] = "over"] /\ wire' = Append(wire, g)
      /\ UNCHANGED <<sessionKey, said, status, talking, sink, listening, sending, frames, held, number, waiting, ending,
                     ends, timer, inbox, home, link, closed, gatewayUsed, muted, adrift>>
  BY DEF Gateway!Speak, Gateway!socket, Gateway!client, Gateway!turns
<1>2. Gateway!TypeOK /\ Addressed BY DEF GatewayIInv
<1>3. home[t] \in {Own, Other} BY <1>1, <1>2 DEF Addressed, Gateway!TypeOK, Gateway!Keys, Gateway!Going
<1>4. f \in Gateway!Event /\ g \in Gateway!Event /\ f.kind = "delta" /\ f.turn = t
        /\ f.session = home[t] /\ t # 0
  BY <1>3 DEF Gateway!Frame, Gateway!Event, Gateway!Turns, Gateway!GatewayAssumption
<1>5. wire' \in Seq(Gateway!Answer \cup Gateway!Event)
  <2>1. wire \in Seq(Gateway!Answer \cup Gateway!Event) BY <1>2 DEF Gateway!TypeOK
  <2>2. PICK x \in Gateway!Event : wire' = Append(wire, x) BY <1>1, <1>4
  <2> QED BY <2>1, <2>2, OneMore
<1>6. run' \in [Gateway!Turns -> {"none", "going", "spoke", "over"}] BY <1>1, <1>2 DEF Gateway!TypeOK
<1>7. Gateway!TypeOK' BY <1>1, <1>2, <1>5, <1>6 DEF Gateway!TypeOK
<1>8. Addressed'
  <2>1. \A s \in Gateway!Turns : run'[s] # "none" => run[s] # "none"
    BY <1>1, <1>2 DEF Gateway!TypeOK, Gateway!Going
  <2> QED BY <1>1, <1>2, <2>1 DEF Addressed
<1>9. ASSUME Calm PROVE Calm'
  <2>1. CASE run[t] = "going" /\ run' = [run EXCEPT ![t] = "spoke"] /\ wire' = Append(wire, f)
    <3>1. \A s \in Gateway!Turns : f \notin Ends(s) BY <1>4 DEF Ends, Gateway!IsEnd
    <3>2. \A s \in Gateway!Turns : run'[s] = IF s = t THEN "spoke" ELSE run[s]
      BY <1>2, <2>1 DEF Gateway!TypeOK
    <3>3. home[t] = Own BY <1>3, <1>9 DEF Calm, Homely
    <3>4. f \in Gateway!Answer \cup Gateway!Event /\ f.kind # "answer"
            /\ (f.turn = 0 <=> f.session = Other)
      BY <1>4, <3>3 DEF Gateway!GatewayAssumption
    <3>5. \A s \in Gateway!Turns : run'[s] = run[s] \/ (run'[s] \in {"going", "spoke"}
            /\ run[s] # "over" /\ link)
      BY <1>1, <2>1, <3>2
    <3>6. \A s \in Gateway!Turns : run[s] = "none" => run'[s] = "none" BY <2>1, <3>2
    <3> HIDE DEF f
    <3> QED BY <1>1, <1>2, <1>6, <1>9, <2>1, <3>1, <3>4, <3>5, <3>6, WireGrows DEF Calm
  <2>2. CASE run' = [run EXCEPT ![t] = "over"] /\ wire' = Append(wire, g)
    <3>1. inbox' \in Seq(Gateway!Request) /\ Els(inbox') \subseteq Els(inbox)
            /\ \A S : AtMostOnce(inbox, S) => AtMostOnce(inbox', S)
      BY <1>1, <1>2 DEF Gateway!TypeOK
    <3> QED BY <1>1, <1>2, <1>9, <2>2, <3>1, RunEnds
  <2> QED BY <1>1, <2>1, <2>2
<1> QED BY <1>1, <1>7, <1>8, <1>9 DEF GatewayIInv

\* What is left of the requests when one is taken.
LEMMA Taken ==
  ASSUME Gateway!TypeOK, inbox # <<>>, inbox' = Tail(inbox)
  PROVE  /\ inbox' \in Seq(Gateway!Request) /\ Head(inbox) \in Gateway!Request
              /\ Head(inbox) \in Els(inbox)
         /\ Els(inbox') \subseteq Els(inbox)
         /\ \A S : AtMostOnce(inbox, S) => AtMostOnce(inbox', S) /\ (Head(inbox) \in S => Els(inbox') \cap S = {})
         /\ IF Head(inbox).ask = "abort" THEN Head(inbox).turn = 0
            ELSE Head(inbox).turn \in Gateway!Turns /\ Head(inbox).ask \in Gateway!Asks
         /\ Head(inbox).to \in Gateway!Keys
<1>1. /\ inbox' \in Seq(Gateway!Request) /\ Head(inbox) \in Gateway!Request
           /\ Els(inbox) = Els(inbox') \cup {Head(inbox)}
      /\ \A S : AtMostOnce(inbox, S) => AtMostOnce(inbox', S) /\ (Head(inbox) \in S => Els(inbox') \cap S = {})
  BY Tailed DEF Gateway!TypeOK
<1>2. \A r \in Gateway!Request :
        /\ IF r.ask = "abort" THEN r.turn = 0
           ELSE r.turn \in Gateway!Turns /\ r.ask \in Gateway!Asks
        /\ r.to \in Gateway!Keys
  BY DEF Gateway!Request, Gateway!Asks
<1> QED BY <1>1, <1>2

\* Answers say nothing of what is still asked.
LEMMA ReplyIs ==
  ASSUME NEW r, r.turn \in Gateway!Turns, r.ask \in Gateway!Asks, NEW ok \in BOOLEAN,
           NEW sid \in Gateway!Keys
  PROVE  /\ Gateway!Reply(r, ok, sid) \in Gateway!Answer /\ Gateway!Reply(r, ok, sid).kind = "answer"
         /\ Gateway!Reply(r, ok, sid).turn = r.turn /\ Gateway!Reply(r, ok, sid).ask = r.ask
         /\ Gateway!Reply(r, ok, sid).ok = ok /\ Gateway!Reply(r, ok, sid).sid = sid
         /\ \A s : Gateway!Reply(r, ok, sid) \notin Ends(s)
BY DEF Gateway!Reply, Gateway!Answer, Ends, Gateway!IsEnd

\* A refused request starts no run.
LEMMA RefusedKeeps == ASSUME Gateway!GatewayAssumption, GatewayIInv, Gateway!Refuse PROVE GatewayIInv'
<1> DEFINE r == Head(inbox)
<1>1. /\ inbox # <<>> /\ r.ask # "abort" /\ Gateway!Spend("refuse") /\ inbox' = Tail(inbox)
      /\ UNCHANGED <<sessionKey, said, status, talking, sink, listening, sending, frames, held, number, waiting, ending,
                     ends, timer, run, home, link, closed, muted, adrift>>
  BY DEF Gateway!Refuse, Gateway!socket, Gateway!client, Gateway!turns
<1>2. PICK ok \in {FALSE, r.ask = "reset"} : wire' = Append(wire, Gateway!Reply(r, ok, Nil))
  BY DEF Gateway!Refuse
<1>3. Gateway!TypeOK /\ Addressed BY DEF GatewayIInv
<1>4. /\ inbox' \in Seq(Gateway!Request) /\ Els(inbox') \subseteq Els(inbox)
           /\ r.turn \in Gateway!Turns /\ r.ask \in Gateway!Asks
      /\ \A S : AtMostOnce(inbox, S) => AtMostOnce(inbox', S)
  BY <1>1, <1>3, Taken
<1> DEFINE f == Gateway!Reply(r, ok, Nil)
<1>5. ok \in BOOLEAN /\ (ok => r.ask # "send") OBVIOUS
<1>6. Nil \in Gateway!Keys /\ Nil # Other BY DEF Gateway!Keys, Gateway!GatewayAssumption
<1>7. /\ f \in Gateway!Answer /\ f.kind = "answer" /\ f.ask = r.ask /\ f.ok = ok /\ f.sid = Nil
      /\ \A s : f \notin Ends(s)
  BY <1>4, <1>5, <1>6, ReplyIs
<1>8. wire' = Append(wire, f) BY <1>2
<1> HIDE DEF f, r
<1>9. gatewayUsed' \in [Gateway!Kinds -> Nat] BY <1>1, <1>3, GatewaySpending DEF Gateway!Kinds
<1>10. wire' \in Seq(Gateway!Answer \cup Gateway!Event) BY <1>3, <1>7, <1>8, OneMore DEF Gateway!TypeOK
<1>11. Gateway!TypeOK' BY <1>1, <1>3, <1>4, <1>9, <1>10 DEF Gateway!TypeOK
<1>12. Addressed' BY <1>1, <1>3, <1>4 DEF Addressed
<1>13. ASSUME Calm PROVE Calm'
  <2>1. run' \in [Gateway!Turns -> {"none", "going", "spoke", "over"}] BY <1>1, <1>3 DEF Gateway!TypeOK
  <2>2. /\ Numbered' /\ GatewaySingle' /\ Owed' /\ Ended'
        /\ \A x \in Els(wire') : x.kind = "answer" =>
             x.sid # Other /\ (x.ask = "send" /\ x.ok => run'[x.turn] # "none")
        /\ \A x \in Els(wire') \cup Els(frames') : x.kind # "answer"
             => (x.turn = 0 <=> x.session = Other)
    BY <1>1, <1>3, <1>5, <1>6, <1>7, <1>8, <1>13, <2>1, WireGrows
  <2>3. Requested' BY <1>1, <1>4, <1>13, <2>2 DEF Calm, Requested, Gateway!At, Unsent
  <2>4. Homely' BY <1>1, <1>4, <1>13, <2>2 DEF Calm, Homely
  <2> QED BY <2>2, <2>3, <2>4 DEF Calm
<1> QED BY <1>1, <1>11, <1>12, <1>13 DEF GatewayIInv

\* An abort ends one run of the session, or finds none.
LEMMA AbortKeeps == ASSUME Gateway!GatewayAssumption, GatewayIInv, Gateway!Serve, Head(inbox).ask
                             = "abort"
  PROVE GatewayIInv'
<1> DEFINE r == Head(inbox)
<1>1. /\ link /\ inbox # <<>> /\ inbox' = Tail(inbox)
      /\ \/ \E t \in Gateway!Turns : Gateway!Going(t) /\ home[t] = r.to
              /\ run' = [run EXCEPT ![t] = "over"]
                             /\ wire' = Append(wire, Gateway!Frame("end", t, home[t]))
         \/ UNCHANGED <<run, wire>>
      /\ UNCHANGED <<sessionKey, said, status, talking, sink, listening, sending, frames, held, number, waiting, ending,
                     ends, timer, home, link, closed, gatewayUsed, muted, adrift>>
  BY DEF Gateway!Serve, Gateway!socket, Gateway!client, Gateway!turns
<1>2. Gateway!TypeOK /\ Addressed BY DEF GatewayIInv
<1>3. /\ inbox' \in Seq(Gateway!Request) /\ Els(inbox') \subseteq Els(inbox)
           /\ \A S : AtMostOnce(inbox, S) => AtMostOnce(inbox', S)
  BY <1>1, <1>2, Taken
<1> HIDE DEF r
<1>4. CASE UNCHANGED <<run, wire>>
  <2>1. Gateway!TypeOK' BY <1>1, <1>2, <1>3, <1>4 DEF Gateway!TypeOK
  <2>2. Addressed' BY <1>1, <1>2, <1>3, <1>4 DEF Addressed
  <2>3. Calm => Requested' BY <1>1, <1>3, <1>4 DEF Calm, Requested, Gateway!At, Unsent
  <2>4. Calm => Homely' BY <1>1, <1>3, <1>4 DEF Calm, Homely
  <2>5. Calm => Calm' BY <1>1, <1>4, <2>3, <2>4, PartsUnmoved DEF Calm
  <2> QED BY <1>1, <2>1, <2>2, <2>5 DEF GatewayIInv
<1>5. ASSUME NEW t \in Gateway!Turns, Gateway!Going(t), run' = [run EXCEPT ![t] = "over"],
             wire' = Append(wire, Gateway!Frame("end", t, home[t]))
      PROVE  GatewayIInv'
  <2>1. home[t] \in {Own, Other}
    BY <1>2, <1>5 DEF Addressed, Gateway!TypeOK, Gateway!Keys, Gateway!Going
  <2>2. Gateway!Frame("end", t, home[t]) \in Gateway!Event
    BY <2>1 DEF Gateway!Frame, Gateway!Event, Gateway!Turns, Gateway!GatewayAssumption
  <2>3. wire' \in Seq(Gateway!Answer \cup Gateway!Event)
    BY <1>2, <1>5, <2>2, OneMore DEF Gateway!TypeOK
  <2>4. run' \in [Gateway!Turns -> {"none", "going", "spoke", "over"}] BY <1>2, <1>5 DEF Gateway!TypeOK
  <2>5. Gateway!TypeOK' BY <1>1, <1>2, <1>3, <2>3, <2>4 DEF Gateway!TypeOK
  <2>6. \A s \in Gateway!Turns : run'[s] # "none" => run[s] # "none"
    BY <1>2, <1>5 DEF Gateway!TypeOK, Gateway!Going
  <2>7. Addressed' BY <1>1, <1>2, <1>3, <2>6 DEF Addressed
  <2>8. Calm => Calm' BY <1>1, <1>2, <1>3, <1>5, RunEnds
  <2> QED BY <1>1, <2>5, <2>7, <2>8 DEF GatewayIInv
<1> QED BY <1>1, <1>4, <1>5

\* A granted request is answered; a message starts its run, the first of it.
LEMMA GrantKeeps == ASSUME Gateway!GatewayAssumption, GatewayIInv, Gateway!Serve, Head(inbox).ask # "abort"
  PROVE GatewayIInv'
<1> DEFINE r == Head(inbox)
           t == r.turn
           sid == CASE r.ask = "resolve" -> r.to [] r.ask = "reset" -> Own [] r.ask = "send" -> Nil
<1>1. /\ link /\ inbox # <<>> /\ inbox' = Tail(inbox)
           /\ wire' = Append(wire, Gateway!Reply(r, TRUE, sid))
      /\ run' = IF r.ask = "send" THEN [run EXCEPT ![t] = "going"] ELSE run
      /\ home' = IF r.ask = "send" THEN [home EXCEPT ![t] = r.to] ELSE home
      /\ UNCHANGED <<sessionKey, said, status, talking, sink, listening, sending, frames, held, number, waiting, ending,
                     ends, timer, link, closed, gatewayUsed, muted, adrift>>
  BY DEF Gateway!Serve, Gateway!socket, Gateway!client, Gateway!turns
<1>2. Gateway!TypeOK /\ Addressed BY DEF GatewayIInv
<1>3. /\ inbox' \in Seq(Gateway!Request) /\ Els(inbox') \subseteq Els(inbox)
      /\ r \in Gateway!Request /\ r \in Els(inbox) /\ t \in Gateway!Turns /\ r.ask \in Gateway!Asks
           /\ r.to \in Gateway!Keys
      /\ \A S : AtMostOnce(inbox, S) => AtMostOnce(inbox', S) /\ (r \in S => Els(inbox') \cap S = {})
  BY <1>1, <1>2, Taken
<1>4. sid \in Gateway!Keys /\ sid \in {r.to, Own, Nil} BY <1>3 DEF Gateway!Keys, Gateway!Asks
<1> HIDE DEF sid
<1> HIDE DEF r
<1> DEFINE yes == TRUE
           f == Gateway!Reply(r, yes, sid)
<1>a. yes \in BOOLEAN OBVIOUS
<1>b. wire' = Append(wire, f) BY <1>1
<1> HIDE DEF yes
<1>5. /\ f \in Gateway!Answer /\ f.kind = "answer" /\ f.turn = t /\ f.ask = r.ask /\ f.sid = sid
      /\ \A s : f \notin Ends(s)
  BY <1>3, <1>4, <1>a, ReplyIs
<1>6. wire' = Append(wire, f) BY <1>b
<1> HIDE DEF f
<1>7. wire' \in Seq(Gateway!Answer \cup Gateway!Event) BY <1>2, <1>5, <1>6, OneMore DEF Gateway!TypeOK
<1>8. /\ run' \in [Gateway!Turns -> {"none", "going", "spoke", "over"}]
           /\ home' \in [Gateway!Turns -> Gateway!Keys]
      /\ \A s \in Gateway!Turns : run'[s] = IF r.ask = "send" /\ s = t THEN "going" ELSE run[s]
      /\ \A s \in Gateway!Turns : home'[s] = IF r.ask = "send" /\ s = t THEN r.to ELSE home[s]
  BY <1>1, <1>2, <1>3 DEF Gateway!TypeOK
<1>9. Gateway!TypeOK' BY <1>1, <1>2, <1>3, <1>7, <1>8 DEF Gateway!TypeOK
<1>10. Addressed' BY <1>2, <1>3, <1>8 DEF Addressed
<1>11. ASSUME Calm PROVE Calm'
  <2>1. r.ask = "send" => r \in Sends(t) BY <1>3 DEF Sends
  <2>2. r.ask = "send" => run[t] = "none" /\ ~Unsent(t) /\ Els(inbox') \cap Sends(t) = {}
    BY <1>3, <1>11, <2>1 DEF Calm, Requested
  <2>3. r.to # Other /\ sid # Other BY <1>3, <1>4, <1>11 DEF Calm, Homely, Gateway!GatewayAssumption
  <2>4. f.ask = "send" /\ f.ok => run'[f.turn] # "none" BY <1>3, <1>5, <1>8
  <2>5. \A s \in Gateway!Turns : run'[s] = run[s] \/ (run'[s] \in {"going", "spoke"}
          /\ run[s] # "over" /\ link)
    BY <1>1, <1>8, <2>2
  <2>6. /\ Numbered' /\ GatewaySingle' /\ Owed' /\ Ended'
        /\ \A x \in Els(wire') : x.kind = "answer" =>
             x.sid # Other /\ (x.ask = "send" /\ x.ok => run'[x.turn] # "none")
        /\ \A x \in Els(wire') \cup Els(frames') : x.kind # "answer"
             => (x.turn = 0 <=> x.session = Other)
    BY <1>1, <1>2, <1>5, <1>6, <1>8, <1>11, <2>3, <2>4, <2>5, WireGrows
  <2>7. Requested'
    <3>1. ASSUME NEW s \in Gateway!Turns
          PROVE  /\ AtMostOnce(inbox', Sends(s))
                 /\ Unsent(s) => run'[s] = "none" /\ Els(inbox') \cap Sends(s) = {}
                 /\ Els(inbox') \cap Sends(s) # {} => run'[s] = "none"
                 /\ Gateway!At(s, "told") /\ sending[s].ask = "send" /\ sending[s].ok
                      => run'[s] # "none"
      BY <1>3, <1>8, <1>11, <2>2 DEF Calm, Requested
    <3> QED BY <1>1, <2>6, <3>1 DEF Requested, Gateway!At, Unsent
  <2>8. Homely' BY <1>1, <1>3, <1>8, <1>11, <2>3, <2>6 DEF Calm, Homely
  <2> QED BY <2>6, <2>7, <2>8 DEF Calm
<1> QED BY <1>1, <1>9, <1>10, <1>11 DEF GatewayIInv

\* At the beginning nothing was sent.
LEMMA GatewayInitial == ASSUME Gateway!GatewayAssumption, Gateway!Init PROVE GatewayIInv
<1> USE DEF Gateway!Init
<1>1. Els(inbox) = {} /\ Els(wire) = {} /\ Els(frames) = {} /\ Els(ends) = {}
      /\ \A S : AtMostOnce(inbox, S) /\ AtMostOnce(wire, S) /\ AtMostOnce(frames, S)
  BY Empty
<1>2. sending \in [Gateway!Turns -> Gateway!CallState]
  BY DEF Gateway!CallState, Gateway!Asks, Gateway!Keys
<1>3. Gateway!TypeOK
  <2>1. 0 \in 0 .. MaxTurns BY DEF Gateway!GatewayAssumption
  <2>2. inbox \in Seq(Gateway!Request) /\ wire \in Seq(Gateway!Answer \cup Gateway!Event)
          /\ frames \in Seq(Gateway!Event) /\ ends \in Seq(Gateway!End)
    OBVIOUS
  <2> QED BY <1>2, <2>1, <2>2 DEF Gateway!TypeOK, Gateway!Keys
<1>4. Addressed BY <1>1 DEF Addressed
<1>5. \A t \in Gateway!Turns : ~Told(t) /\ ~Coming(t)
  <2>1. \A t \in Gateway!Turns : Nil # ByRun(t)
    BY DEF ByRun, Gateway!End, Gateway!Turns, Gateway!GatewayAssumption
  <2>2. \A t \in Gateway!Turns : Nil \notin Ends(t) BY DEF Ends, Gateway!GatewayAssumption
  <2> QED BY <1>1, <2>1, <2>2 DEF Told, Coming
<1>6. Numbered BY DEF Numbered, Gateway!GatewayAssumption, Gateway!Turns
<1>7. Requested BY <1>1 DEF Requested, Unsent, Gateway!At
<1>8. GatewaySingle BY <1>1, <1>5 DEF GatewaySingle, Coming
<1>9. Homely BY <1>1 DEF Homely, Gateway!GatewayAssumption
<1>10. Owed BY DEF Owed
<1>11. Ended BY <1>1, <1>5 DEF Ended, Gateway!EndIsOwn
<1> QED BY <1>3, <1>4, <1>6, <1>7, <1>8, <1>9, <1>10, <1>11 DEF GatewayIInv, Calm

\* Every step of the turns keeps the invariant.
LEMMA GatewayInductive == ASSUME Gateway!GatewayAssumption PROVE Gateway!Spec => []GatewayIInv
<1>1. Gateway!Init => GatewayIInv BY GatewayInitial
<1>2. GatewayIInv /\ [Gateway!Next]_(Gateway!vars) => GatewayIInv'
  <2> SUFFICES ASSUME GatewayIInv, [Gateway!Next]_(Gateway!vars) PROVE GatewayIInv' OBVIOUS
  <2>1. CASE UNCHANGED Gateway!vars
    <3>1. Gateway!TypeOK' BY <2>1 DEF Gateway!vars, GatewayIInv, Gateway!TypeOK
    <3>2. Addressed' BY <2>1, PartsUnmoved DEF Gateway!vars, GatewayIInv
    <3>3. Calm => Calm' BY <2>1, PartsUnmoved DEF Gateway!vars, Calm
    <3> QED BY <2>1, <3>1, <3>2, <3>3 DEF Gateway!vars, GatewayIInv
  <2>2. CASE Gateway!Next
    <3>1. CASE Gateway!Begin \/ Gateway!Hear BY <3>1, TurnBeginKeeps, HearKeeps
    <3>2. ASSUME NEW t \in Gateway!Turns, Gateway!Enter(t) \/ Gateway!Post(t) \/ Gateway!Resume(t)
                   \/ Gateway!Timeout(t) \/ Gateway!Fail(t) \/ Gateway!Speak(t)
          PROVE  GatewayIInv'
      BY <3>2, MessageKeeps, PostKeeps, ResumeKeeps, TimeoutKeeps, FailKeeps, SpeakKeeps
    <3>3. CASE Gateway!Stop \/ Gateway!Fallback \/ Gateway!Close
      BY <3>3, StopKeeps, FallbackKeeps, CloseKeeps
    <3>4. CASE Gateway!Break \/ Gateway!ReaderEnds BY <3>4, BreakKeeps, ReaderEndsKeeps
    <3>5. CASE Gateway!Read BY <3>5, AnswerKeeps, FrameKeeps
    <3>6. CASE Gateway!Map \/ Gateway!Tell BY <3>6, MapKeeps, GatewayTellKeeps
    <3>7. CASE Gateway!Serve BY <3>7, AbortKeeps, GrantKeeps
    <3>8. CASE Gateway!Refuse \/ Gateway!Foreign BY <3>8, RefusedKeeps, ForeignKeeps
    <3> QED BY <2>2, <3>1, <3>2, <3>3, <3>4, <3>5, <3>6, <3>7, <3>8 DEF Gateway!Next
  <2> QED BY <2>1, <2>2
<1> QED BY <1>1, <1>2, PTL DEF Gateway!Spec

\* Elements of a sequence are at places of it.
LEMMA Placed == ASSUME NEW s, NEW t, Els(s) \cap Ends(t) # {}
  PROVE \E k \in DOMAIN s : Gateway!IsEnd(s[k], t)
BY DEF Els, Ends

\* The turns by themselves have ends of their own.
LEMMA HaveEnds == ASSUME Gateway!GatewayAssumption
  PROVE Gateway!Spec => [](Gateway!TypeOK /\ Gateway!TurnHasItsEnd)
<1>1. ASSUME GatewayIInv PROVE Gateway!TypeOK /\ Gateway!TurnHasItsEnd
  <2>1. ASSUME Calm PROVE Gateway!WaitIsOwed /\ Gateway!EndIsOwn /\ Gateway!MessageIsHome
    <3>1. Gateway!EndIsOwn BY <2>1 DEF Calm, Ended
    <3>2. Gateway!MessageIsHome
      BY <1>1, <2>1 DEF GatewayIInv, Gateway!TypeOK, Gateway!Keys, Calm, Homely, Gateway!MessageIsHome
    <3>3. Coming(number) => \/ \E k \in DOMAIN wire : Gateway!IsEnd(wire[k], number)
                            \/ \E k \in DOMAIN frames : Gateway!IsEnd(frames[k], number)
                            \/ held # Nil /\ Gateway!IsEnd(held, number)
      BY Placed DEF Coming, Ends, Gateway!GatewayAssumption
    <3>4. Gateway!WaitIsOwed BY <2>1, <3>3 DEF Calm, Owed, Gateway!WaitIsOwed, Gateway!At
    <3> QED BY <3>1, <3>2, <3>4
  <2> QED BY <1>1, <2>1 DEF GatewayIInv, Gateway!TurnHasItsEnd
<1> QED BY <1>1, GatewayInductive, PTL

\* The group implements the service.
LEMMA GatewayImplemented == AgentsSpec => Gateway!Spec
<1>1. AgentsInit => Gateway!Init BY DEF AgentsInit
<1>2. [AgentsNext]_agentsVars => [Gateway!Next]_(Gateway!vars)
  BY DEF AgentsNext, agentsVars, gatewayVars, Gateway!vars
<1> QED BY <1>1, <1>2, PTL DEF AgentsSpec, Gateway!Spec

\* For any number of turns, and a channel of any length: unless a session spoke
\* before this one had a key, a turn that waits will hear its end or is among
\* those whose end nobody will tell; no run ends the turn of another, and no
\* message goes to another session (aionui-ai-agent, manager/openclaw:
\* agent/mod.rs, event_mapper.rs, connection.rs).
THEOREM TurnsHaveEnds == ASSUME AgentsAssumption PROVE AgentsSpec => []TurnHasItsEnd
<1>1. Gateway!GatewayAssumption BY DEF AgentsAssumption
<1>2. Gateway!Spec => [](Gateway!TypeOK /\ Gateway!TurnHasItsEnd)
  BY <1>1, HaveEnds
<1>3. Gateway!TurnHasItsEnd => TurnHasItsEnd BY DEF TurnHasItsEnd
<1> QED BY <1>2, <1>3, GatewayImplemented, PTL

-----------------------------------------------------------------------------
\* Every variable of every service of the group stays of its type.
THEOREM AgentsTyped == ASSUME AgentsAssumption PROVE AgentsSpec => []AgentsTypeOK
<1>1. /\ Permission!PermissionAssumption
      /\ Acp!AcpAssumption
      /\ Gateway!GatewayAssumption
  BY DEF AgentsAssumption
<1>2. Permission!Spec => [](Permission!TypeOK /\ Permission!AskIsHeard)
  BY <1>1, Heard
<1>3. Acp!Spec => [](Acp!TypeOK /\ Acp!RowIsLastObserved /\ Acp!ObservedIsActual)
  BY <1>1, Observed
<1>4. Gateway!Spec => [](Gateway!TypeOK /\ Gateway!TurnHasItsEnd)
  BY <1>1, HaveEnds
<1>5. Permission!TypeOK /\ Acp!TypeOK /\ Gateway!TypeOK => AgentsTypeOK
  BY DEF AgentsTypeOK
<1> QED
  BY <1>2, <1>3, <1>4, <1>5,
     PermissionImplemented, AcpImplemented, GatewayImplemented, PTL
=============================================================================
