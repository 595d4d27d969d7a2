---------------------------- MODULE AccessProofs ----------------------------
(***************************************************************************)
(* Proofs about Access, one service after the other; each ends in          *)
(* theorems on the whole group, which implements each of its services.     *)
(*                                                                         *)
(* Plugins: an update is confirmed to the platform only by a loop that     *)
(* handed on what it had read before, so the invariant says of every loop  *)
(* what lies between what is confirmed and what it reads next; and of the  *)
(* manager that a loop it does not manage was told to stop.                *)
(* Bridge: the events of a connection, written and waiting, are in order   *)
(* and, with the lost ones, all that were forwarded since it registered.   *)
(* Accounts: a token logged out is on the blacklist or its secret was      *)
(* replaced; and the row has the secret in force unless the one change of  *)
(* a password is about to store it.                                        *)
(* Chats: what each message and request carries from one statement to the  *)
(* next is still there when it writes; conversations have no gaps in their *)
(* numbers, so that a new one is nobody's; and two calls deal with codes   *)
(* of one person only if that was noticed.                                 *)
(***************************************************************************)
EXTENDS Access, SequenceTheorems, FiniteSetTheorems, TLAPS

-----------------------------------------------------------------------------
(* The plugins of the channels: ChannelPlugins.                            *)

\* What a loop has behind it and what it has in hand.
BehindIn(s, n) == s.offset <= n + 1 /\ \A i \in 1 .. Len(s.batch) : s.batch[i] <= n
HandedOn(s, a) ==
  /\ \A n \in Nat \ {0} : n < s.offset => n \in a
  /\ \A i \in 1 .. Len(s.batch), n \in Nat \ {0} :
       n < s.batch[i] => n \in a \/ \E j \in 1 .. i - 1 : s.batch[j] = n

Reads == \A l \in Plugins!Loops : loop[l] # Nil => BehindIn(loop[l], handed)

\* Without a credential test, what a loop has read past was handed over.
HandsOver ==
  pluginUsed["test"] = 0 =>
    /\ 1 .. confirmed \subseteq arrived
    /\ \A l \in Plugins!Loops : loop[l] # Nil => ~loop[l].test /\ HandedOn(loop[l], arrived)
    /\ \A c \in Pair : pluginCall[c] # Nil => pluginCall[c].kind # "test"

\* A loop that nothing will end, and a request that is not a test.
PluginFree(l) == loop[l] # Nil /\ loop[l].pc # "gone" /\ ~loop[l].stop /\ ~loop[l].test
Managing(c) == pluginCall[c] # Nil /\ pluginCall[c].kind # "test"

Stages ==
  \A c \in Pair : pluginCall[c] # Nil =>
    /\ pluginCall[c].kind = "test" => pluginCall[c].pc = "connect"
    /\ pluginCall[c].pc = "record"
         => pluginCall[c].loop \in Plugins!Loops /\ loop[pluginCall[c].loop] # Nil

PluginHeld == active # Nil => loop[active] # Nil

\* A loop that goes on has not failed too often.
Patient == \A l \in Plugins!Loops : loop[l] # Nil /\ loop[l].pc # "gone" => loop[l].errors < MaxErrors

PluginDownIsEmpty == ~pluginUp
  => active = Nil /\ (\A l \in Plugins!Loops : ~PluginFree(l)) /\ \A c \in Pair : pluginCall[c] = Nil

\* Requests that do not cross: while one is under way there is no instance and
\* no loop but the one it has just started.
OneManages ==
  ~pluginCrossed =>
    /\ \A c \in Pair : Managing(c) =>
         /\ \A d \in Pair : Managing(d) => d = c
         /\ active = Nil
         /\ pluginCall[c].pc \in {"connect", "record"} => pluginRow # Nil /\ pluginRow.enabled
         /\ \A l \in Plugins!Loops : PluginFree(l)
              => pluginCall[c].pc = "record" /\ pluginCall[c].loop = l
    /\ (\A c \in Pair : ~Managing(c)) =>
         \A l \in Plugins!Loops : PluginFree(l) => active = l /\ pluginRow # Nil /\ pluginRow.enabled

PluginIInv == Plugins!TypeOK /\ PluginHeld /\ Patient /\ Stages /\ Reads /\ HandsOver
  /\ PluginDownIsEmpty /\ OneManages

-----------------------------------------------------------------------------

\* At the start no plugin is there and nothing was sent.
LEMMA PluginInitial == ASSUME Plugins!PluginAssumption, Plugins!Init PROVE PluginIInv
<1>1. Plugins!TypeOK
  <2>1. handed \in 0 .. MaxUpdates /\ confirmed \in 0 .. handed
    BY DEF Plugins!PluginAssumption, Plugins!Init
  <2>2. /\ pluginRow \in Plugins!Row \cup {Nil} /\ active \in Plugins!Loops \cup {Nil}
        /\ loop \in [Plugins!Loops -> Plugins!LoopState \cup {Nil}]
             /\ pluginCall \in [Pair -> Plugins!CallState \cup {Nil}]
        /\ arrived \subseteq 1 .. handed /\ pluginUp \in BOOLEAN
             /\ pluginUsed \in [Plugins!Kinds -> Nat] /\ pluginCrossed \in BOOLEAN
    BY DEF Plugins!Init
  <2> QED BY <2>1, <2>2 DEF Plugins!TypeOK
<1>2. PluginHeld /\ Patient /\ Stages /\ Reads /\ HandsOver /\ PluginDownIsEmpty /\ OneManages
  BY DEF Plugins!Init, PluginHeld, Patient, Stages, Reads, HandsOver, PluginDownIsEmpty, OneManages,
     PluginFree, Managing
<1> QED BY <1>1, <1>2 DEF PluginIInv

\* The counts of events stay counts.
LEMMA PluginSpent == ASSUME Plugins!TypeOK, NEW kind \in Plugins!Kinds, Plugins!Spend(kind)
  PROVE  pluginUsed' \in [Plugins!Kinds -> Nat] /\ (pluginUsed'["test"] = 0
           => kind # "test" /\ pluginUsed["test"] = 0)
<1>1. pluginUsed' = [pluginUsed EXCEPT ![kind] = @ + 1] BY DEF Plugins!Spend
<1>2. pluginUsed \in [Plugins!Kinds -> Nat] /\ "test" \in Plugins!Kinds
  BY DEF Plugins!TypeOK, Plugins!Kinds
<1> QED BY <1>1, <1>2

\* A loop that starts is numbered, and new in every respect.
FreshLoop(test) ==
  [pc |-> "check", offset |-> 0, batch |-> <<>>, errors |-> 0, owned |-> ~test, stop |-> FALSE,
   test |-> test]

\* What a new loop starts with.
LEMMA FreshFacts ==
  ASSUME Plugins!PluginAssumption, NEW test \in BOOLEAN
  PROVE  /\ FreshLoop(test) \in Plugins!LoopState /\ FreshLoop(test).test = test /\ FreshLoop(test).errors = 0
         /\ \A n \in Nat : BehindIn(FreshLoop(test), n)
         /\ \A a : HandedOn(FreshLoop(test), a)
<1>1. FreshLoop(test) \in Plugins!LoopState BY DEF FreshLoop, Plugins!LoopState, Plugins!PluginAssumption
<1>2. /\ FreshLoop(test).batch = <<>> /\ FreshLoop(test).offset = 0 /\ FreshLoop(test).test = test
      /\ FreshLoop(test).errors = 0
  BY DEF FreshLoop
<1>3. \A n \in Nat : BehindIn(FreshLoop(test), n) BY <1>2 DEF BehindIn
<1>4. \A a : HandedOn(FreshLoop(test), a) BY <1>2 DEF HandedOn
<1> QED BY <1>1, <1>2, <1>3, <1>4

\* A loop that starts is one not used before.
LEMMA Starting ==
  ASSUME Plugins!PluginAssumption, Plugins!TypeOK, NEW test \in BOOLEAN, Plugins!StartLoop(test)
  PROVE  /\ Plugins!Started + 1 \in Plugins!Loops
         /\ loop' = [loop EXCEPT ![Plugins!Started + 1] = FreshLoop(test)]
<1>1. IsFiniteSet(Plugins!Loops) BY FS_Interval DEF Plugins!PluginAssumption, Plugins!Loops
<1>2. {l \in Plugins!Loops : loop[l] # Nil} \subseteq Plugins!Loops OBVIOUS
<1>3. Plugins!Started \in Nat
  BY <1>1, <1>2, FS_Subset, FS_CardinalityType
  DEF Plugins!Started, Plugins!Cardinality, Cardinality, Plugins!IsFiniteSet, IsFiniteSet
<1>4. Plugins!Started < MaxLoops /\ MaxLoops \in Nat BY DEF Plugins!StartLoop, Plugins!PluginAssumption
<1> QED BY <1>3, <1>4 DEF Plugins!StartLoop, FreshLoop, Plugins!Loops

\* A step that leaves the loops what they have read keeps what is said of that.
LEMMA ReadsKept ==
  ASSUME Reads, HandsOver, UNCHANGED <<handed, confirmed, arrived>>,
         \A l \in Plugins!Loops : loop'[l] # Nil =>
           /\ loop[l] # Nil
           /\ loop'[l].offset = loop[l].offset /\ loop'[l].batch = loop[l].batch
                /\ loop'[l].test = loop[l].test,
         pluginUsed'["test"] = 0 => pluginUsed["test"] = 0,
         pluginUsed'["test"] = 0 => \A c \in Pair : pluginCall'[c] # Nil => pluginCall'[c].kind # "test"
  PROVE  Reads' /\ HandsOver'
<1>1. Reads' BY DEF Reads, BehindIn
<1>2. HandsOver' BY DEF HandsOver, HandedOn
<1> QED BY <1>1, <1>2

\* A request that goes on keeps its kind.
LEMMA Going ==
  ASSUME Plugins!PluginAssumption, PluginIInv, NEW c \in Pair, pluginCall[c] # Nil,
         NEW step \in {"stopping", "write", "connect", "record"}, Plugins!Goto(c, step)
  PROVE  /\ pluginCall' \in [Pair -> Plugins!CallState \cup {Nil}] /\ pluginCall'[c] # Nil
         /\ pluginCall'[c].kind = pluginCall[c].kind /\ pluginCall'[c].pc = step
              /\ pluginCall'[c].loop = pluginCall[c].loop
         /\ \A d \in Pair : d # c => pluginCall'[d] = pluginCall[d]
         /\ \A d \in Pair : Managing(d)' <=> Managing(d)
<1> DEFINE new == [pluginCall[c] EXCEPT !.pc = step]
<1>1. pluginCall[c] \in Plugins!CallState BY DEF PluginIInv, Plugins!TypeOK
<1>2. new \in Plugins!CallState /\ new.pc = step /\ new.kind = pluginCall[c].kind
        /\ new.loop = pluginCall[c].loop
  BY <1>1 DEF Plugins!CallState
<1>3. new # Nil BY <1>2 DEF Plugins!PluginAssumption
<1>4. pluginCall' = [pluginCall EXCEPT ![c] = new] BY DEF Plugins!Goto, PluginIInv, Plugins!TypeOK
<1> HIDE DEF new
<1>5. /\ pluginCall' \in [Pair -> Plugins!CallState \cup {Nil}]
      /\ \A d \in Pair : pluginCall'[d] = IF d = c THEN new ELSE pluginCall[d]
  BY <1>2, <1>4 DEF PluginIInv, Plugins!TypeOK
<1> QED BY <1>2, <1>3, <1>5 DEF Managing

\* No credential test is among the requests that stay or go.
LEMMA NoTestComes ==
  ASSUME HandsOver, pluginUsed'["test"] = 0 => pluginUsed["test"] = 0,
         \A d \in Pair : \/ pluginCall'[d] = pluginCall[d]
                         \/ pluginCall'[d] = Nil
                         \/ (pluginCall[d] # Nil /\ pluginCall'[d].kind = pluginCall[d].kind)
  PROVE  pluginUsed'["test"] = 0 => \A d \in Pair : pluginCall'[d] # Nil => pluginCall'[d].kind # "test"
BY DEF HandsOver

\* The instance there is is taken out: no loop is left that nothing will end.
LEMMA TakeOutKeeps ==
  ASSUME Plugins!PluginAssumption, PluginIInv, NEW c \in Pair, Plugins!Enable(c) \/ Plugins!Disable(c)
    PROVE PluginIInv'
<1> USE DEF PluginIInv
<1>0. PICK kind \in {"enable", "disable"} : Plugins!Spend(kind) /\ Plugins!TakeOut(c, kind)
  BY DEF Plugins!Enable, Plugins!Disable
<1>1. pluginUp /\ pluginCall[c] = Nil /\ UNCHANGED <<pluginRow, handed, confirmed, arrived, pluginUp>>
  BY DEF Plugins!Enable, Plugins!Disable
<1> DEFINE new == [kind |-> kind, loop |-> active, pc |-> IF active = Nil THEN "write" ELSE "stopping"]
<1>2. /\ active' = Nil /\ pluginCall' = [pluginCall EXCEPT ![c] = new]
      /\ loop' = (IF active = Nil THEN loop ELSE [loop EXCEPT ![active].stop = TRUE])
      /\ pluginCrossed' = (pluginCrossed \/ \E d \in Pair : pluginCall[d] # Nil)
  BY <1>0 DEF Plugins!TakeOut
<1>3. new \in Plugins!CallState /\ new # Nil /\ new.kind = kind /\ new.pc \in {"write", "stopping"}
  BY DEF Plugins!CallState, Plugins!TypeOK, Plugins!PluginAssumption
<1> HIDE DEF new
<1>4. /\ pluginCall' \in [Pair -> Plugins!CallState \cup {Nil}]
      /\ \A d \in Pair : pluginCall'[d] = IF d = c THEN new ELSE pluginCall[d]
  BY <1>2, <1>3 DEF Plugins!TypeOK
<1>5. /\ loop' \in [Plugins!Loops -> Plugins!LoopState \cup {Nil}]
      /\ \A l \in Plugins!Loops : loop'[l] # Nil <=> loop[l] # Nil
      /\ \A l \in Plugins!Loops : loop'[l] # Nil =>
           /\ loop'[l].offset = loop[l].offset /\ loop'[l].batch = loop[l].batch
           /\ loop'[l].test = loop[l].test /\ loop'[l].pc = loop[l].pc
           /\ loop'[l].stop = (loop[l].stop \/ l = active)
           /\ loop'[l].errors = loop[l].errors
  <2>1. CASE active = Nil
    <3>1. active \notin Plugins!Loops BY <2>1 DEF Plugins!PluginAssumption, Plugins!Loops
    <3>2. \A l \in Plugins!Loops : loop[l] # Nil => loop[l].stop \in BOOLEAN
      BY DEF Plugins!TypeOK, Plugins!LoopState
    <3> QED BY <1>2, <2>1, <3>1, <3>2 DEF Plugins!TypeOK
  <2>2. CASE active # Nil
    <3> DEFINE told == [loop[active] EXCEPT !.stop = TRUE]
    <3>1. active \in Plugins!Loops /\ loop[active] \in Plugins!LoopState
      BY <2>2 DEF Plugins!TypeOK, PluginHeld
    <3>2. /\ told \in Plugins!LoopState /\ told.offset = loop[active].offset
               /\ told.batch = loop[active].batch
          /\ told.test = loop[active].test /\ told.pc = loop[active].pc /\ told.stop = TRUE
          /\ told.errors = loop[active].errors
      BY <3>1 DEF Plugins!LoopState
    <3>3. told # Nil BY <3>2 DEF Plugins!PluginAssumption
    <3>4. loop' = [loop EXCEPT ![active] = told] BY <1>2, <2>2 DEF Plugins!TypeOK
    <3> HIDE DEF told
    <3>5. loop' \in [Plugins!Loops -> Plugins!LoopState \cup {Nil}]
          /\ \A l \in Plugins!Loops : loop'[l] = IF l = active THEN told ELSE loop[l]
      BY <3>2, <3>4 DEF Plugins!TypeOK
    <3>6. \A l \in Plugins!Loops : loop[l] # Nil => loop[l].stop \in BOOLEAN
      BY DEF Plugins!TypeOK, Plugins!LoopState
    <3> QED BY <2>2, <3>2, <3>3, <3>5, <3>6 DEF PluginHeld
  <2> QED BY <2>1, <2>2
<1>6. pluginUsed' \in [Plugins!Kinds -> Nat] /\ (pluginUsed'["test"] = 0 => pluginUsed["test"] = 0)
  BY <1>0, PluginSpent DEF Plugins!Kinds
<1>7. Plugins!TypeOK'
  <2>1. pluginCrossed' \in BOOLEAN BY <1>2 DEF Plugins!TypeOK
  <2> QED BY <1>1, <1>2, <1>4, <1>5, <1>6, <2>1 DEF Plugins!TypeOK
<1>8. PluginHeld' /\ Patient' /\ Stages' BY <1>2, <1>3, <1>4, <1>5 DEF PluginHeld, Patient, Stages
<1>9. pluginUsed'["test"] = 0 => \A d \in Pair : pluginCall'[d] # Nil => pluginCall'[d].kind # "test"
  BY <1>3, <1>4, <1>6 DEF HandsOver
<1>10. Reads' /\ HandsOver' BY <1>1, <1>5, <1>6, <1>9, ReadsKept
<1>11. PluginDownIsEmpty' BY <1>1 DEF PluginDownIsEmpty
<1>12. OneManages'
  <2> SUFFICES ASSUME ~pluginCrossed' PROVE OneManages' BY DEF OneManages
  <2>1. ~pluginCrossed /\ \A d \in Pair : pluginCall[d] = Nil BY <1>2
  <2>2. \A l \in Plugins!Loops : PluginFree(l) => active = l BY <2>1 DEF OneManages, Managing
  <2>3. \A l \in Plugins!Loops : ~PluginFree(l)' BY <1>5, <2>2 DEF PluginFree
  <2>4. \A d \in Pair : pluginCall'[d] # Nil => d = c BY <1>4, <2>1
  <2> QED BY <1>2, <1>3, <1>4, <2>3, <2>4 DEF OneManages, Managing
<1> QED BY <1>7, <1>8, <1>10, <1>11, <1>12

\* The steps of the manager that neither start nor stop a loop.
LEMMA StoppedKeeps == ASSUME Plugins!PluginAssumption, PluginIInv, NEW c \in Pair, Plugins!Stopped(c)
  PROVE PluginIInv'
<1> USE DEF PluginIInv
<1>1. /\ pluginCall[c] # Nil /\ pluginCall[c].pc = "stopping" /\ Plugins!Goto(c, "write")
      /\ UNCHANGED <<pluginRow, active, loop, handed, confirmed, arrived, pluginUp, pluginUsed, pluginCrossed>>
  BY DEF Plugins!Stopped, Plugins!At
<1>2. /\ pluginCall' \in [Pair -> Plugins!CallState \cup {Nil}] /\ pluginCall'[c] # Nil
      /\ pluginCall'[c].kind = pluginCall[c].kind /\ pluginCall'[c].pc = "write"
      /\ \A d \in Pair : d # c => pluginCall'[d] = pluginCall[d]
      /\ \A d \in Pair : Managing(d)' <=> Managing(d)
  BY <1>1, Going
<1>3. Plugins!TypeOK' BY <1>1, <1>2 DEF Plugins!TypeOK
<1>4. PluginHeld' /\ Patient' /\ Stages' BY <1>1, <1>2 DEF PluginHeld, Patient, Stages
<1>5. Reads' /\ HandsOver' BY <1>1, <1>2, NoTestComes, ReadsKept
<1>6. PluginDownIsEmpty' BY <1>1 DEF PluginDownIsEmpty
<1>7. OneManages' BY <1>1, <1>2 DEF OneManages, PluginFree, Managing
<1> QED BY <1>3, <1>4, <1>5, <1>6, <1>7

\* Storing the row of a plugin keeps the invariant.
LEMMA UpsertKeeps == ASSUME Plugins!PluginAssumption, PluginIInv, NEW c \in Pair, Plugins!Upsert(c)
  PROVE PluginIInv'
<1> USE DEF PluginIInv
<1>1. /\ pluginCall[c] # Nil /\ pluginCall[c].pc = "write" /\ pluginCall[c].kind = "enable"
           /\ Plugins!Goto(c, "connect")
      /\ pluginRow' = [enabled |-> TRUE, status |-> "created"]
      /\ UNCHANGED <<active, loop, handed, confirmed, arrived, pluginUp, pluginUsed, pluginCrossed>>
  BY DEF Plugins!Upsert, Plugins!At
<1>2. /\ pluginCall' \in [Pair -> Plugins!CallState \cup {Nil}] /\ pluginCall'[c] # Nil
      /\ pluginCall'[c].kind = pluginCall[c].kind /\ pluginCall'[c].pc = "connect"
      /\ \A d \in Pair : d # c => pluginCall'[d] = pluginCall[d]
      /\ \A d \in Pair : Managing(d)' <=> Managing(d)
  BY <1>1, Going
<1>3. pluginRow' \in Plugins!Row /\ pluginRow' # Nil /\ pluginRow'.enabled
  <2>1. [enabled |-> TRUE, status |-> "created"] \in Plugins!Row BY DEF Plugins!Row
  <2>2. pluginRow'.enabled = TRUE BY <1>1
  <2> QED BY <1>1, <2>1, <2>2 DEF Plugins!PluginAssumption
<1>4. Plugins!TypeOK' BY <1>1, <1>2, <1>3 DEF Plugins!TypeOK
<1>5. PluginHeld' /\ Patient' /\ Stages' BY <1>1, <1>2 DEF PluginHeld, Patient, Stages
<1>6. Reads' /\ HandsOver' BY <1>1, <1>2, NoTestComes, ReadsKept
<1>7. PluginDownIsEmpty' BY <1>1, <1>2 DEF PluginDownIsEmpty
<1>8. OneManages'
  <2> SUFFICES ASSUME ~pluginCrossed PROVE OneManages' BY <1>1 DEF OneManages
  <2>1. Managing(c) BY <1>1 DEF Managing
  <2>2. (\A d \in Pair : Managing(d)
          => d = c) /\ active = Nil /\ \A l \in Plugins!Loops : ~PluginFree(l)
    BY <1>1, <2>1 DEF OneManages
  <2>3. \A l \in Plugins!Loops : ~PluginFree(l)' BY <1>1, <2>2 DEF PluginFree
  <2> QED BY <1>1, <1>2, <1>3, <2>1, <2>2, <2>3 DEF OneManages
<1> QED BY <1>4, <1>5, <1>6, <1>7, <1>8

\* A request that is over.
LEMMA Overs ==
  ASSUME Plugins!PluginAssumption, PluginIInv, NEW c \in Pair, Plugins!Over(c)
  PROVE  /\ pluginCall' \in [Pair -> Plugins!CallState \cup {Nil}]
         /\ \A d \in Pair : pluginCall'[d] = IF d = c THEN Nil ELSE pluginCall[d]
         /\ \A d \in Pair : Managing(d)' <=> Managing(d) /\ d # c
BY DEF Plugins!Over, PluginIInv, Plugins!TypeOK, Managing

\* A plugin switched off, or one that cannot connect, keeps the invariant.
LEMMA PluginEndsKeep ==
  ASSUME Plugins!PluginAssumption, PluginIInv,
           NEW c \in Pair, Plugins!SwitchOff(c) \/ Plugins!ConnectFails(c)
    PROVE PluginIInv'
<1> USE DEF PluginIInv
<1>1. /\ pluginCall[c] # Nil /\ pluginCall[c].pc \in {"write", "connect"} /\ pluginCall[c].kind # "test"
      /\ Plugins!Over(c)
           /\ UNCHANGED <<active, loop, handed, confirmed, arrived, pluginUp, pluginCrossed>>
  BY DEF Plugins!SwitchOff, Plugins!ConnectFails, Plugins!At
<1>2. pluginUsed' \in [Plugins!Kinds -> Nat] /\ (pluginUsed'["test"] = 0 => pluginUsed["test"] = 0)
  <2>1. CASE Plugins!SwitchOff(c) BY <2>1 DEF Plugins!SwitchOff, Plugins!TypeOK
  <2>2. CASE Plugins!ConnectFails(c) BY <2>2, PluginSpent DEF Plugins!ConnectFails, Plugins!Kinds
  <2> QED BY <2>1, <2>2
<1>3. /\ pluginCall' \in [Pair -> Plugins!CallState \cup {Nil}]
      /\ \A d \in Pair : pluginCall'[d] = IF d = c THEN Nil ELSE pluginCall[d]
      /\ \A d \in Pair : Managing(d)' <=> Managing(d) /\ d # c
  BY <1>1, Overs
<1>4. pluginRow' \in Plugins!Row \cup {Nil}
  <2>1. [enabled |-> FALSE, status |-> "stopped"] \in Plugins!Row BY DEF Plugins!Row
  <2>2. pluginRow # Nil => [pluginRow EXCEPT !.status = "error"] \in Plugins!Row
    BY DEF Plugins!Row, Plugins!TypeOK
  <2> QED BY <2>1, <2>2 DEF Plugins!SwitchOff, Plugins!ConnectFails
<1>5. Plugins!TypeOK' BY <1>1, <1>2, <1>3, <1>4 DEF Plugins!TypeOK
<1>6. PluginHeld' /\ Patient' /\ Stages' BY <1>1, <1>3 DEF PluginHeld, Patient, Stages
<1>7. Reads' /\ HandsOver' BY <1>1, <1>2, <1>3, NoTestComes, ReadsKept
<1>8. PluginDownIsEmpty' BY <1>1, <1>3 DEF PluginDownIsEmpty, PluginFree
<1>9. OneManages'
  <2> SUFFICES ASSUME ~pluginCrossed PROVE OneManages' BY <1>1 DEF OneManages
  <2>1. Managing(c) BY <1>1 DEF Managing
  <2>2. (\A d \in Pair : Managing(d)
          => d = c) /\ active = Nil /\ \A l \in Plugins!Loops : ~PluginFree(l)
    BY <1>1, <2>1 DEF OneManages
  <2>3. \A l \in Plugins!Loops : ~PluginFree(l)' BY <1>1, <2>2 DEF PluginFree
  <2> QED BY <1>1, <1>3, <2>2, <2>3 DEF OneManages
<1> QED BY <1>5, <1>6, <1>7, <1>8, <1>9

\* The start of a test keeps the invariant.
LEMMA TestKeeps == ASSUME Plugins!PluginAssumption, PluginIInv, NEW c \in Pair, Plugins!Test(c)
  PROVE PluginIInv'
<1> USE DEF PluginIInv
<1> DEFINE new == [kind |-> "test", pc |-> "connect", loop |-> Nil]
<1>1. /\ pluginUp /\ pluginCall[c] = Nil /\ pluginCall' = [pluginCall EXCEPT ![c] = new]
      /\ UNCHANGED <<pluginRow, active, loop, handed, confirmed, arrived, pluginUp, pluginCrossed>>
  BY DEF Plugins!Test
<1>2. pluginUsed' \in [Plugins!Kinds -> Nat] /\ pluginUsed'["test"] # 0
  BY PluginSpent DEF Plugins!Test, Plugins!Kinds
<1>3. new \in Plugins!CallState /\ new # Nil /\ new.kind = "test" /\ new.pc = "connect"
  BY DEF Plugins!CallState, Plugins!PluginAssumption
<1> HIDE DEF new
<1>4. /\ pluginCall' \in [Pair -> Plugins!CallState \cup {Nil}]
      /\ \A d \in Pair : pluginCall'[d] = IF d = c THEN new ELSE pluginCall[d]
      /\ \A d \in Pair : Managing(d)' <=> Managing(d)
  BY <1>1, <1>3 DEF Plugins!TypeOK, Managing
<1>5. Plugins!TypeOK' BY <1>1, <1>2, <1>4 DEF Plugins!TypeOK
<1>6. PluginHeld' /\ Patient' /\ Stages' BY <1>1, <1>3, <1>4 DEF PluginHeld, Patient, Stages
<1>7. Reads' /\ HandsOver' BY <1>1, <1>2 DEF Reads, HandsOver
<1>8. PluginDownIsEmpty' BY <1>1 DEF PluginDownIsEmpty
<1>9. OneManages' BY <1>1, <1>3, <1>4 DEF OneManages, PluginFree, Managing
<1> QED BY <1>5, <1>6, <1>7, <1>8, <1>9

\* A loop that starts has read nothing, and takes nothing from the others.
LEMMA StartReads ==
  ASSUME Plugins!PluginAssumption, PluginIInv, NEW test \in BOOLEAN, Plugins!StartLoop(test),
         UNCHANGED <<handed, confirmed, arrived, pluginUsed>>, pluginUsed["test"] = 0 => ~test,
         pluginUsed["test"] = 0 => \A d \in Pair : pluginCall'[d] # Nil => pluginCall'[d].kind # "test"
  PROVE  /\ Plugins!Started + 1 \in Plugins!Loops
         /\ loop' \in [Plugins!Loops -> Plugins!LoopState \cup {Nil}]
         /\ \A l \in Plugins!Loops : l # Plugins!Started + 1 => loop'[l] = loop[l]
         /\ loop'[Plugins!Started + 1] # Nil /\ loop'[Plugins!Started + 1].test = test
         /\ Patient' /\ Reads' /\ HandsOver'
<1> USE DEF PluginIInv
<1>1. /\ Plugins!Started + 1 \in Plugins!Loops
           /\ loop' = [loop EXCEPT ![Plugins!Started + 1] = FreshLoop(test)]
  BY Starting
<1>2. /\ FreshLoop(test) \in Plugins!LoopState /\ FreshLoop(test).test = test /\ FreshLoop(test).errors = 0
      /\ BehindIn(FreshLoop(test), handed) /\ HandedOn(FreshLoop(test), arrived)
  BY FreshFacts DEF Plugins!TypeOK
<1>3. FreshLoop(test) # Nil BY <1>2 DEF Plugins!PluginAssumption
<1>4. /\ loop' \in [Plugins!Loops -> Plugins!LoopState \cup {Nil}]
      /\ \A l \in Plugins!Loops : loop'[l] = IF l = Plugins!Started + 1 THEN FreshLoop(test) ELSE loop[l]
  BY <1>1, <1>2 DEF Plugins!TypeOK
<1>5. Reads'
  <2>1. \A l \in Plugins!Loops : loop'[l] # Nil => BehindIn(loop'[l], handed) BY <1>2, <1>4 DEF Reads
  <2> QED BY <2>1 DEF Reads, BehindIn
<1>6. HandsOver'
  <2>1. pluginUsed["test"] = 0 => \A l \in Plugins!Loops : loop'[l] # Nil
          => ~loop'[l].test /\ HandedOn(loop'[l], arrived)
    BY <1>2, <1>4 DEF HandsOver
  <2> QED BY <2>1 DEF HandsOver, HandedOn
<1>7. Patient' BY <1>2, <1>4 DEF Patient, Plugins!PluginAssumption
<1> QED BY <1>1, <1>2, <1>3, <1>4, <1>5, <1>6, <1>7

\* The start of a plugin that is enabled keeps the invariant.
LEMMA ConnectKeeps == ASSUME Plugins!PluginAssumption, PluginIInv, NEW c \in Pair, Plugins!Connect(c)
  PROVE PluginIInv'
<1> USE DEF PluginIInv
<1> DEFINE k == Plugins!Started + 1
           new == [pluginCall[c] EXCEPT !.pc = "record", !.loop = k]
<1>1. /\ pluginCall[c] # Nil /\ pluginCall[c].pc = "connect" /\ pluginCall[c].kind # "test"
           /\ Plugins!StartLoop(FALSE)
      /\ pluginCall' = [pluginCall EXCEPT ![c] = new]
      /\ UNCHANGED <<pluginRow, active, handed, confirmed, arrived, pluginUp, pluginUsed, pluginCrossed>>
  BY DEF Plugins!Connect, Plugins!At, Plugins!TypeOK
<1>2. k \in Plugins!Loops BY <1>1, Starting
<1>3. new \in Plugins!CallState /\ new.kind = pluginCall[c].kind /\ new.pc = "record" /\ new.loop = k
  <2>1. pluginCall[c] \in Plugins!CallState BY <1>1 DEF Plugins!TypeOK
  <2> QED BY <1>2, <2>1 DEF Plugins!CallState
<1>4. new # Nil BY <1>3 DEF Plugins!PluginAssumption
<1> HIDE DEF new
<1>5. /\ pluginCall' \in [Pair -> Plugins!CallState \cup {Nil}]
      /\ \A d \in Pair : pluginCall'[d] = IF d = c THEN new ELSE pluginCall[d]
  BY <1>1, <1>3 DEF Plugins!TypeOK
<1>6. pluginUsed["test"] = 0 => \A d \in Pair : pluginCall'[d] # Nil => pluginCall'[d].kind # "test"
  BY <1>1, <1>3, <1>5 DEF HandsOver
<1>7. /\ loop' \in [Plugins!Loops -> Plugins!LoopState \cup {Nil}]
      /\ \A l \in Plugins!Loops : l # k => loop'[l] = loop[l]
      /\ loop'[k] # Nil /\ Patient' /\ Reads' /\ HandsOver'
  BY <1>1, <1>6, StartReads
<1> HIDE DEF k
<1>8. Plugins!TypeOK' BY <1>1, <1>5, <1>7 DEF Plugins!TypeOK
<1>9. PluginHeld'
  <2>1. active # Nil => active \in Plugins!Loops BY DEF Plugins!TypeOK
  <2> QED BY <1>1, <1>7, <2>1 DEF PluginHeld
<1>10. Stages' BY <1>1, <1>2, <1>3, <1>5, <1>7 DEF Stages
<1>11. PluginDownIsEmpty' BY <1>1 DEF PluginDownIsEmpty
<1>12. OneManages'
  <2> SUFFICES ASSUME ~pluginCrossed PROVE OneManages' BY <1>1 DEF OneManages
  <2>1. Managing(c) BY <1>1 DEF Managing
  <2>2. /\ \A d \in Pair : Managing(d) => d = c
        /\ active = Nil /\ pluginRow # Nil /\ pluginRow.enabled
             /\ \A l \in Plugins!Loops : ~PluginFree(l)
    BY <1>1, <2>1 DEF OneManages
  <2>3. \A d \in Pair : Managing(d)' <=> d = c BY <1>1, <1>3, <1>4, <1>5, <2>2 DEF Managing
  <2>4. \A l \in Plugins!Loops : PluginFree(l)' => l = k BY <1>7, <2>2 DEF PluginFree
  <2> QED BY <1>1, <1>3, <1>5, <2>2, <2>3, <2>4 DEF OneManages
<1> QED BY <1>7, <1>8, <1>9, <1>10, <1>11, <1>12

\* The end of a test keeps the invariant.
LEMMA TestedKeeps == ASSUME Plugins!PluginAssumption, PluginIInv, NEW c \in Pair, Plugins!Tested(c)
  PROVE PluginIInv'
<1> USE DEF PluginIInv
<1> DEFINE k == Plugins!Started + 1
<1>1. /\ pluginCall[c] # Nil /\ pluginCall[c].kind = "test" /\ Plugins!StartLoop(TRUE)
           /\ Plugins!Over(c)
      /\ UNCHANGED <<pluginRow, active, handed, confirmed, arrived, pluginUp, pluginUsed, pluginCrossed>>
  BY DEF Plugins!Tested, Plugins!At
<1>2. pluginUsed["test"] # 0 BY <1>1 DEF HandsOver
<1>3. /\ pluginCall' \in [Pair -> Plugins!CallState \cup {Nil}]
      /\ \A d \in Pair : pluginCall'[d] = IF d = c THEN Nil ELSE pluginCall[d]
      /\ \A d \in Pair : Managing(d)' <=> Managing(d)
  BY <1>1, Overs DEF Managing
<1>4. /\ k \in Plugins!Loops /\ loop' \in [Plugins!Loops -> Plugins!LoopState \cup {Nil}]
      /\ \A l \in Plugins!Loops : l # k => loop'[l] = loop[l]
      /\ loop'[k] # Nil /\ loop'[k].test /\ Patient' /\ Reads' /\ HandsOver'
  BY <1>1, <1>2, StartReads
<1> HIDE DEF k
<1>5. Plugins!TypeOK' BY <1>1, <1>3, <1>4 DEF Plugins!TypeOK
<1>6. PluginHeld'
  <2>1. active # Nil => active \in Plugins!Loops BY DEF Plugins!TypeOK
  <2> QED BY <1>1, <1>4, <2>1 DEF PluginHeld
<1>7. Stages' BY <1>3, <1>4 DEF Stages
<1>8. \A l \in Plugins!Loops : PluginFree(l)' => PluginFree(l) BY <1>4 DEF PluginFree
<1>9. PluginDownIsEmpty' BY <1>1 DEF PluginDownIsEmpty
<1>10. OneManages' BY <1>1, <1>3, <1>8 DEF OneManages, Managing
<1> QED BY <1>4, <1>5, <1>6, <1>7, <1>9, <1>10

\* The instance goes into the map.
LEMMA RecordKeeps == ASSUME Plugins!PluginAssumption, PluginIInv, NEW c \in Pair, Plugins!Record(c)
  PROVE PluginIInv'
<1> USE DEF PluginIInv
<1>1. /\ pluginCall[c] # Nil /\ pluginCall[c].pc = "record" /\ active' = pluginCall[c].loop
           /\ Plugins!Over(c)
      /\ pluginRow' = (IF pluginRow = Nil THEN Nil ELSE [pluginRow EXCEPT !.status = "running"])
      /\ loop' = (IF active = Nil THEN loop ELSE [loop EXCEPT ![active].owned = FALSE])
      /\ UNCHANGED <<handed, confirmed, arrived, pluginUp, pluginUsed, pluginCrossed>>
  BY DEF Plugins!Record, Plugins!At
<1>2. pluginCall[c].kind # "test" /\ pluginCall[c].loop \in Plugins!Loops
        /\ loop[pluginCall[c].loop] # Nil
  BY <1>1 DEF Stages
<1>3. /\ pluginCall' \in [Pair -> Plugins!CallState \cup {Nil}]
      /\ \A d \in Pair : pluginCall'[d] = IF d = c THEN Nil ELSE pluginCall[d]
      /\ \A d \in Pair : Managing(d)' <=> Managing(d) /\ d # c
  BY <1>1, Overs
<1>4. /\ loop' \in [Plugins!Loops -> Plugins!LoopState \cup {Nil}]
      /\ \A l \in Plugins!Loops : loop'[l] # Nil <=> loop[l] # Nil
      /\ \A l \in Plugins!Loops : loop'[l] # Nil =>
           /\ loop'[l].offset = loop[l].offset /\ loop'[l].batch = loop[l].batch
           /\ loop'[l].test = loop[l].test /\ loop'[l].pc = loop[l].pc
           /\ loop'[l].stop = loop[l].stop /\ loop'[l].errors = loop[l].errors
  <2>1. CASE active = Nil BY <1>1, <2>1 DEF Plugins!TypeOK
  <2>2. CASE active # Nil
    <3> DEFINE dropped == [loop[active] EXCEPT !.owned = FALSE]
    <3>1. active \in Plugins!Loops /\ loop[active] \in Plugins!LoopState
      BY <2>2 DEF Plugins!TypeOK, PluginHeld
    <3>2. /\ dropped \in Plugins!LoopState /\ dropped.offset = loop[active].offset
          /\ dropped.batch = loop[active].batch /\ dropped.test = loop[active].test
          /\ dropped.pc = loop[active].pc /\ dropped.stop = loop[active].stop
          /\ dropped.errors = loop[active].errors
      BY <3>1 DEF Plugins!LoopState
    <3>3. dropped # Nil BY <3>2 DEF Plugins!PluginAssumption
    <3>4. loop' = [loop EXCEPT ![active] = dropped] BY <1>1, <2>2 DEF Plugins!TypeOK
    <3> HIDE DEF dropped
    <3>5. loop' \in [Plugins!Loops -> Plugins!LoopState \cup {Nil}]
          /\ \A l \in Plugins!Loops : loop'[l] = IF l = active THEN dropped ELSE loop[l]
      BY <3>2, <3>4 DEF Plugins!TypeOK
    <3> QED BY <2>2, <3>2, <3>3, <3>5 DEF PluginHeld
  <2> QED BY <2>1, <2>2
<1>5. pluginRow' \in Plugins!Row \cup {Nil} /\ (pluginRow # Nil
        => pluginRow' # Nil /\ pluginRow'.enabled = pluginRow.enabled)
  <2>1. CASE pluginRow = Nil BY <1>1, <2>1
  <2>2. CASE pluginRow # Nil
    <3>1. pluginRow \in Plugins!Row BY <2>2 DEF Plugins!TypeOK
    <3>2. pluginRow' \in Plugins!Row /\ pluginRow'.enabled = pluginRow.enabled
      BY <1>1, <2>2, <3>1 DEF Plugins!Row
    <3> QED BY <3>2 DEF Plugins!PluginAssumption
  <2> QED BY <2>1, <2>2
<1>6. Plugins!TypeOK' BY <1>1, <1>2, <1>3, <1>4, <1>5 DEF Plugins!TypeOK
<1>7. PluginHeld' /\ Patient' /\ Stages' BY <1>1, <1>2, <1>3, <1>4 DEF PluginHeld, Patient, Stages
<1>8. Reads' /\ HandsOver' BY <1>1, <1>3, <1>4, NoTestComes, ReadsKept
<1>9. PluginDownIsEmpty' BY <1>1 DEF PluginDownIsEmpty
<1>10. OneManages'
  <2> SUFFICES ASSUME ~pluginCrossed PROVE OneManages' BY <1>1 DEF OneManages
  <2>1. Managing(c) BY <1>1, <1>2 DEF Managing
  <2>2. /\ \A d \in Pair : Managing(d) => d = c
        /\ pluginRow # Nil /\ pluginRow.enabled /\ \A l \in Plugins!Loops : PluginFree(l)
             => pluginCall[c].loop = l
    BY <1>1, <2>1 DEF OneManages
  <2>3. \A d \in Pair : ~Managing(d)' BY <1>3, <2>2
  <2>4. \A l \in Plugins!Loops : PluginFree(l)' => active' = l BY <1>1, <1>4, <2>2 DEF PluginFree
  <2> QED BY <1>5, <2>2, <2>3, <2>4 DEF OneManages
<1> QED BY <1>6, <1>7, <1>8, <1>9, <1>10

\* A crash takes the loops, and keeps the invariant.
LEMMA PluginCrashKeeps == ASSUME Plugins!PluginAssumption, PluginIInv, Plugins!Crash PROVE PluginIInv'
<1> USE DEF PluginIInv
<1> DEFINE ended(l) == [loop[l] EXCEPT !.pc = "gone"]
<1>1. /\ active' = Nil /\ UNCHANGED <<pluginRow, handed, confirmed, arrived, pluginCrossed>>
      /\ loop' = [l \in Plugins!Loops |-> IF loop[l] = Nil THEN Nil ELSE ended(l)]
      /\ pluginCall' = [c \in Pair |-> Nil] /\ pluginUp' = FALSE
  BY DEF Plugins!Crash
<1>2. \A l \in Plugins!Loops : loop[l] # Nil =>
        /\ ended(l) \in Plugins!LoopState /\ ended(l) # Nil /\ ended(l).pc = "gone"
        /\ ended(l).offset = loop[l].offset /\ ended(l).batch = loop[l].batch
        /\ ended(l).test = loop[l].test
  <2> SUFFICES ASSUME NEW l \in Plugins!Loops, loop[l] # Nil
               PROVE  /\ ended(l) \in Plugins!LoopState /\ ended(l) # Nil /\ ended(l).pc = "gone"
                      /\ ended(l).offset = loop[l].offset /\ ended(l).batch = loop[l].batch
                      /\ ended(l).test = loop[l].test
    OBVIOUS
  <2>1. loop[l] \in Plugins!LoopState BY DEF Plugins!TypeOK
  <2>2. /\ ended(l) \in Plugins!LoopState /\ ended(l).pc = "gone"
        /\ ended(l).offset = loop[l].offset /\ ended(l).batch = loop[l].batch
        /\ ended(l).test = loop[l].test
    BY <2>1 DEF Plugins!LoopState
  <2> QED BY <2>2 DEF Plugins!PluginAssumption
<1> HIDE DEF ended
<1>3. pluginUsed' \in [Plugins!Kinds -> Nat] /\ (pluginUsed'["test"] = 0 => pluginUsed["test"] = 0)
  BY PluginSpent DEF Plugins!Crash, Plugins!Kinds
<1>4. Plugins!TypeOK'
  <2>1. loop' \in [Plugins!Loops -> Plugins!LoopState \cup {Nil}] BY <1>1, <1>2
  <2>2. pluginCall' \in [Pair -> Plugins!CallState \cup {Nil}]
          /\ active' \in Plugins!Loops \cup {Nil} /\ pluginUp' \in BOOLEAN
    BY <1>1
  <2> QED BY <1>1, <1>3, <2>1, <2>2 DEF Plugins!TypeOK
<1>5. PluginHeld' /\ Patient' /\ Stages' BY <1>1, <1>2 DEF PluginHeld, Patient, Stages
<1>6. pluginUsed'["test"] = 0 => \A c \in Pair : pluginCall'[c] # Nil => pluginCall'[c].kind # "test"
  BY <1>1
<1>7. Reads' /\ HandsOver' BY <1>1, <1>2, <1>3, <1>6, ReadsKept
<1>8. \A l \in Plugins!Loops : ~PluginFree(l)' BY <1>1, <1>2 DEF PluginFree
<1>9. \A c \in Pair : pluginCall'[c] = Nil BY <1>1
<1>10. PluginDownIsEmpty' BY <1>1, <1>8, <1>9 DEF PluginDownIsEmpty
<1>11. OneManages' BY <1>8, <1>9 DEF OneManages, Managing
<1> QED BY <1>4, <1>5, <1>7, <1>10, <1>11

\* The start after a crash keeps the invariant.
LEMMA RestartKeeps == ASSUME Plugins!PluginAssumption, PluginIInv, NEW c \in Pair, Plugins!Restart(c)
  PROVE PluginIInv'
<1> USE DEF PluginIInv
<1> DEFINE new == [kind |-> "restore", pc |-> "connect", loop |-> Nil]
<1>1. /\ ~pluginUp /\ pluginUp' = TRUE
      /\ pluginCall' = (IF pluginRow # Nil
           /\ pluginRow.enabled THEN [pluginCall EXCEPT ![c] = new] ELSE pluginCall)
      /\ UNCHANGED <<pluginRow, active, loop, handed, confirmed, arrived, pluginUsed, pluginCrossed>>
  BY DEF Plugins!Restart
<1>2. new \in Plugins!CallState /\ new # Nil /\ new.kind = "restore" /\ new.pc = "connect"
  BY DEF Plugins!CallState, Plugins!PluginAssumption
<1> HIDE DEF new
<1>3. active = Nil /\ (\A l \in Plugins!Loops : ~PluginFree(l)) /\ \A d \in Pair : pluginCall[d] = Nil
  BY <1>1 DEF PluginDownIsEmpty
<1>4. /\ pluginCall' \in [Pair -> Plugins!CallState \cup {Nil}]
      /\ \A d \in Pair : pluginCall'[d] # Nil
           => d = c /\ pluginCall'[d] = new /\ pluginRow # Nil /\ pluginRow.enabled
  BY <1>1, <1>2, <1>3 DEF Plugins!TypeOK
<1>5. pluginUp' \in BOOLEAN BY <1>1
<1>6. Plugins!TypeOK' BY <1>1, <1>4, <1>5 DEF Plugins!TypeOK
<1>7. PluginHeld' /\ Patient' /\ Stages' BY <1>1, <1>2, <1>4 DEF PluginHeld, Patient, Stages
<1>8. pluginUsed'["test"] = 0 => \A d \in Pair : pluginCall'[d] # Nil => pluginCall'[d].kind # "test"
  BY <1>2, <1>4
<1>9. Reads' /\ HandsOver' BY <1>1, <1>8, ReadsKept
<1>10. PluginDownIsEmpty' BY <1>1 DEF PluginDownIsEmpty
<1>11. OneManages' BY <1>1, <1>2, <1>3, <1>4 DEF OneManages, PluginFree, Managing
<1> QED BY <1>6, <1>7, <1>9, <1>10, <1>11

-----------------------------------------------------------------------------
\* A step of a loop l, which becomes what it is from then on.
Becomes(l, s) == loop[l] # Nil /\ s \in Plugins!LoopState /\ loop' = [loop EXCEPT ![l] = s]

\* A loop that takes a step, and the others that do not.
LEMMA StepOfALoop ==
  ASSUME Plugins!PluginAssumption, PluginIInv, NEW l \in Plugins!Loops, NEW s, Becomes(l, s),
         UNCHANGED <<pluginRow, active, pluginCall, pluginUp, pluginCrossed>>,
         s.test = loop[l].test, s.stop = loop[l].stop, loop[l].pc # "gone",
         s.pc # "gone" => s.errors < MaxErrors
  PROVE  /\ loop' \in [Plugins!Loops -> Plugins!LoopState \cup {Nil}] /\ s # Nil
         /\ \A m \in Plugins!Loops : loop'[m] = IF m = l THEN s ELSE loop[m]
         /\ PluginHeld' /\ Patient' /\ Stages' /\ PluginDownIsEmpty' /\ OneManages'
<1> USE DEF PluginIInv
<1>1. /\ loop' \in [Plugins!Loops -> Plugins!LoopState \cup {Nil}] /\ s # Nil
      /\ \A m \in Plugins!Loops : loop'[m] = IF m = l THEN s ELSE loop[m]
  BY DEF Plugins!TypeOK, Becomes, Plugins!PluginAssumption
<1>2. PluginHeld' BY <1>1 DEF PluginHeld, Plugins!TypeOK
<1>3. Stages' BY <1>1 DEF Stages
<1>4. \A m \in Plugins!Loops : PluginFree(m)' => PluginFree(m) BY <1>1 DEF PluginFree, Becomes
<1>5. PluginDownIsEmpty' BY <1>4 DEF PluginDownIsEmpty
<1>6. OneManages' BY <1>4 DEF OneManages, Managing
<1>7. Patient' BY <1>1 DEF Patient
<1> QED BY <1>1, <1>2, <1>3, <1>5, <1>6, <1>7

\* The steps of a loop that read nothing.
LEMMA LoopTurnsKeep ==
  ASSUME Plugins!PluginAssumption, PluginIInv,
           NEW l \in Plugins!Loops, Plugins!Check(l) \/ Plugins!FetchFails(l) \/ Plugins!Backoff(l)
    PROVE PluginIInv'
<1> USE DEF PluginIInv
<1>1. loop[l] # Nil /\ loop[l].pc # "gone" /\ loop[l] \in Plugins!LoopState
  BY DEF Plugins!Check, Plugins!FetchFails, Plugins!Backoff, Plugins!In, Plugins!TypeOK
<1>2. UNCHANGED <<pluginRow, active, pluginCall, handed, pluginUp, pluginCrossed, confirmed, arrived>>
  BY DEF Plugins!Check, Plugins!FetchFails, Plugins!Backoff, Plugins!still
<1>3. pluginUsed' \in [Plugins!Kinds -> Nat] /\ (pluginUsed'["test"] = 0 => pluginUsed["test"] = 0)
  <2>1. CASE Plugins!FetchFails(l) BY <2>1, PluginSpent DEF Plugins!FetchFails, Plugins!Kinds
  <2>2. CASE Plugins!Check(l) \/ Plugins!Backoff(l)
    BY <2>2 DEF Plugins!Check, Plugins!Backoff, Plugins!TypeOK
  <2> QED BY <2>1, <2>2
<1>4. PICK s : /\ Becomes(l, s) /\ s.offset = loop[l].offset /\ s.batch = loop[l].batch
               /\ s.test = loop[l].test /\ s.stop = loop[l].stop
               /\ s.pc # "gone" => s.errors < MaxErrors
  <2>1. CASE Plugins!Check(l)
    <3> DEFINE s == [loop[l] EXCEPT !.pc = IF loop[l].stop THEN "gone" ELSE "fetch"]
    <3>1. /\ s \in Plugins!LoopState /\ s.offset = loop[l].offset /\ s.batch = loop[l].batch
          /\ s.test = loop[l].test /\ s.stop = loop[l].stop
          /\ s.pc # "gone" => s.errors < MaxErrors
      BY <1>1 DEF Plugins!LoopState, Patient
    <3>2. loop' = [loop EXCEPT ![l] = s] BY <2>1 DEF Plugins!Check, Plugins!TypeOK
    <3> QED BY <1>1, <3>1, <3>2 DEF Becomes
  <2>2. CASE Plugins!Backoff(l)
    <3> DEFINE s == [loop[l] EXCEPT !.pc = IF loop[l].stop \/ ~loop[l].owned THEN "gone" ELSE "check"]
    <3>1. /\ s \in Plugins!LoopState /\ s.offset = loop[l].offset /\ s.batch = loop[l].batch
          /\ s.test = loop[l].test /\ s.stop = loop[l].stop
          /\ s.pc # "gone" => s.errors < MaxErrors
      BY <1>1 DEF Plugins!LoopState, Patient
    <3>2. loop' = [loop EXCEPT ![l] = s] BY <2>2 DEF Plugins!Backoff, Plugins!TypeOK
    <3> QED BY <1>1, <3>1, <3>2 DEF Becomes
  <2>3. CASE Plugins!FetchFails(l)
    <3> DEFINE s == [loop[l] EXCEPT !.errors = @ + 1,
                                    !.pc = IF loop[l].errors + 1 >= MaxErrors THEN "gone" ELSE "backoff"]
    <3>0. loop[l].errors \in Nat /\ loop[l].errors + 1 \in 0 .. MaxErrors
      BY <1>1 DEF Plugins!LoopState, Patient, Plugins!PluginAssumption
    <3>1. /\ s \in Plugins!LoopState /\ s.offset = loop[l].offset /\ s.batch = loop[l].batch
          /\ s.test = loop[l].test /\ s.stop = loop[l].stop
      BY <1>1, <3>0 DEF Plugins!LoopState
    <3>3. s.pc # "gone" => s.errors < MaxErrors
      <4>1. s.pc = (IF loop[l].errors + 1 >= MaxErrors THEN "gone" ELSE "backoff")
            /\ s.errors = loop[l].errors + 1
        BY <1>1 DEF Plugins!LoopState
      <4> QED BY <3>0, <4>1 DEF Plugins!PluginAssumption
    <3>2. loop' = [loop EXCEPT ![l] = s] BY <2>3 DEF Plugins!FetchFails, Plugins!TypeOK
    <3> QED BY <1>1, <3>1, <3>2, <3>3 DEF Becomes
  <2> QED BY <2>1, <2>2, <2>3
<1>5. /\ loop' \in [Plugins!Loops -> Plugins!LoopState \cup {Nil}]
      /\ \A m \in Plugins!Loops : loop'[m] = IF m = l THEN s ELSE loop[m]
      /\ PluginHeld' /\ Patient' /\ Stages' /\ PluginDownIsEmpty' /\ OneManages'
  BY <1>1, <1>2, <1>4, StepOfALoop
<1>6. Plugins!TypeOK' BY <1>2, <1>3, <1>5 DEF Plugins!TypeOK
<1>7. pluginUsed'["test"] = 0 => \A c \in Pair : pluginCall'[c] # Nil => pluginCall'[c].kind # "test"
  BY <1>2, <1>3 DEF HandsOver
<1>8. Reads' /\ HandsOver' BY <1>1, <1>2, <1>3, <1>4, <1>5, <1>7, ReadsKept
<1> QED BY <1>5, <1>6, <1>8

\* What the platform forgets on a fetch was handed over, and what it returns
\* comes right after.
LEMMA FetchKeeps == ASSUME Plugins!PluginAssumption, PluginIInv,
                             NEW l \in Plugins!Loops, Plugins!Fetch(l)
  PROVE PluginIInv'
<1> USE DEF PluginIInv
<1> DEFINE below == IF loop[l].offset = 0 THEN 0 ELSE loop[l].offset - 1
           done == IF below > confirmed THEN below ELSE confirmed
           returned == [i \in 1 .. (handed - done) |-> done + i]
           s == [loop[l] EXCEPT !.errors = 0, !.pc = "handle", !.batch = returned]
<1>1. /\ loop[l] # Nil /\ loop[l].pc = "fetch" /\ loop[l] \in Plugins!LoopState
      /\ confirmed' = done
           /\ UNCHANGED <<pluginRow, active, pluginCall, handed, pluginUp, pluginCrossed, arrived, pluginUsed>>
  BY DEF Plugins!Fetch, Plugins!In, Plugins!still, Plugins!TypeOK
<1>2. loop' = [loop EXCEPT ![l] = s] BY DEF Plugins!Fetch, Plugins!TypeOK
<1>3. /\ handed \in Nat /\ confirmed \in Nat /\ confirmed <= handed /\ handed <= MaxUpdates
      /\ loop[l].offset \in Nat /\ MaxUpdates \in Nat
  BY <1>1 DEF Plugins!TypeOK, Plugins!LoopState, Plugins!PluginAssumption
<1>4. loop[l].offset <= handed + 1 BY <1>1 DEF Reads, BehindIn
<1>5. /\ done \in 0 .. handed /\ (done = confirmed \/ done = loop[l].offset - 1)
      /\ loop[l].offset <= done + 1
  BY <1>3, <1>4
<1> HIDE DEF done
<1>6. returned \in Seq(Plugins!Updates) /\ Len(returned) = handed - done
        /\ \A i \in 1 .. Len(returned) : returned[i] = done + i
  <2>1. handed - done \in Nat /\ \A i \in 1 .. (handed - done) : done + i \in Plugins!Updates
    BY <1>3, <1>5 DEF Plugins!Updates
  <2> QED BY <2>1, SeqDef, LenProperties
<1> HIDE DEF returned
<1>7. /\ s \in Plugins!LoopState /\ s.offset = loop[l].offset /\ s.batch = returned /\ s.errors = 0
      /\ s.test = loop[l].test /\ s.stop = loop[l].stop
  <2>1. 0 \in 0 .. MaxErrors BY DEF Plugins!PluginAssumption
  <2> QED BY <1>1, <1>6, <2>1 DEF Plugins!LoopState
<1> HIDE DEF s
<1>8. Becomes(l, s) BY <1>1, <1>2, <1>7 DEF Becomes
<1>9. /\ loop' \in [Plugins!Loops -> Plugins!LoopState \cup {Nil}] /\ s # Nil
      /\ \A m \in Plugins!Loops : loop'[m] = IF m = l THEN s ELSE loop[m]
      /\ PluginHeld' /\ Patient' /\ Stages' /\ PluginDownIsEmpty' /\ OneManages'
  BY <1>1, <1>7, <1>8, StepOfALoop DEF Plugins!PluginAssumption
<1>10. Plugins!TypeOK' BY <1>1, <1>5, <1>9 DEF Plugins!TypeOK
<1>11. Reads'
  <2>1. BehindIn(s, handed) BY <1>3, <1>4, <1>5, <1>6, <1>7 DEF BehindIn
  <2>2. \A m \in Plugins!Loops : loop'[m] # Nil => BehindIn(loop'[m], handed) BY <1>9, <2>1 DEF Reads
  <2> QED BY <1>1, <2>2 DEF Reads, BehindIn
<1>12. HandsOver'
  <2> SUFFICES ASSUME pluginUsed["test"] = 0
               PROVE  /\ 1 .. confirmed' \subseteq arrived'
                      /\ \A m \in Plugins!Loops : loop'[m] # Nil
                           => ~loop'[m].test /\ HandedOn(loop'[m], arrived)
                      /\ \A c \in Pair : pluginCall'[c] # Nil => pluginCall'[c].kind # "test"
    BY <1>1 DEF HandsOver, HandedOn
  <2>1. /\ 1 .. confirmed \subseteq arrived
        /\ \A m \in Plugins!Loops : loop[m] # Nil => ~loop[m].test /\ HandedOn(loop[m], arrived)
        /\ \A c \in Pair : pluginCall[c] # Nil => pluginCall[c].kind # "test"
    BY DEF HandsOver
  <2>2. \A n \in Nat \ {0} : n < loop[l].offset => n \in arrived BY <1>1, <2>1 DEF HandedOn
  <2>3. \A n \in Nat \ {0} : n <= done => n \in arrived BY <1>3, <1>5, <2>1, <2>2
  <2>4. HandedOn(s, arrived)
    <3>1. ASSUME NEW i \in 1 .. Len(s.batch), NEW n \in Nat \ {0}, n < s.batch[i]
          PROVE  n \in arrived \/ \E j \in 1 .. i - 1 : s.batch[j] = n
      <4>1. i \in Nat /\ i <= handed - done /\ s.batch[i] = done + i BY <1>3, <1>5, <1>6, <1>7, <3>1
      <4>2. CASE n <= done BY <2>3, <4>2
      <4>3. CASE n > done
        <5>1. n - done \in 1 .. i - 1 BY <1>5, <3>1, <4>1, <4>3
        <5>2. n - done \in 1 .. Len(returned) BY <1>3, <1>5, <1>6, <4>1, <5>1
        <5>3. s.batch[n - done] = done + (n - done) BY <1>6, <1>7, <5>2
        <5> QED BY <1>5, <5>1, <5>3
      <4> QED BY <1>5, <4>2, <4>3
    <3> QED BY <1>7, <2>2, <3>1 DEF HandedOn
  <2>5. 1 .. confirmed' \subseteq arrived' BY <1>1, <1>5, <2>3
  <2> QED BY <1>1, <1>7, <1>9, <2>1, <2>4, <2>5
<1> QED BY <1>9, <1>10, <1>11, <1>12

\* What is handed over is all that the offset moves past.
LEMMA HandleKeeps == ASSUME Plugins!PluginAssumption, PluginIInv,
                              NEW l \in Plugins!Loops, Plugins!Handle(l)
  PROVE PluginIInv'
<1> USE DEF PluginIInv
<1>1. /\ loop[l] # Nil /\ loop[l].pc = "handle" /\ loop[l] \in Plugins!LoopState
      /\ loop[l].errors < MaxErrors
      /\ UNCHANGED <<pluginRow, active, pluginCall, handed, pluginUp, pluginCrossed, confirmed, pluginUsed>>
  BY DEF Plugins!Handle, Plugins!In, Plugins!still, Plugins!TypeOK, Patient
<1>2. CASE loop[l].batch = <<>>
  <2> DEFINE s == [loop[l] EXCEPT !.pc = "check"]
  <2>1. /\ s \in Plugins!LoopState /\ s.offset = loop[l].offset /\ s.batch = loop[l].batch
        /\ s.test = loop[l].test /\ s.stop = loop[l].stop /\ s.errors = loop[l].errors
    BY <1>1 DEF Plugins!LoopState
  <2>2. loop' = [loop EXCEPT ![l] = s] /\ UNCHANGED arrived BY <1>2 DEF Plugins!Handle, Plugins!TypeOK
  <2> HIDE DEF s
  <2>3. Becomes(l, s) BY <1>1, <2>1, <2>2 DEF Becomes
  <2>4. /\ loop' \in [Plugins!Loops -> Plugins!LoopState \cup {Nil}]
        /\ \A m \in Plugins!Loops : loop'[m] = IF m = l THEN s ELSE loop[m]
        /\ PluginHeld' /\ Patient' /\ Stages' /\ PluginDownIsEmpty' /\ OneManages'
    BY <1>1, <2>1, <2>3, StepOfALoop
  <2>5. Plugins!TypeOK' BY <1>1, <2>2, <2>4 DEF Plugins!TypeOK
  <2>6. pluginUsed'["test"] = 0 => \A c \in Pair : pluginCall'[c] # Nil => pluginCall'[c].kind # "test"
    BY <1>1 DEF HandsOver
  <2>7. Reads' /\ HandsOver' BY <1>1, <2>1, <2>2, <2>4, <2>6, ReadsKept
  <2> QED BY <2>4, <2>5, <2>7
<1>3. CASE loop[l].batch # <<>>
  <2> DEFINE b == loop[l].batch
             n == Head(b)
             s == [loop[l] EXCEPT !.batch = Tail(b), !.offset = n + 1]
  <2>1. b \in Seq(Plugins!Updates) BY <1>1 DEF Plugins!LoopState
  <2>2. /\ n = b[1] /\ n \in Plugins!Updates /\ 1 \in 1 .. Len(b) /\ Tail(b) \in Seq(Plugins!Updates)
        /\ Len(b) \in Nat /\ Len(Tail(b)) = Len(b) - 1
        /\ \A i \in 1 .. Len(Tail(b)) : Tail(b)[i] = b[i + 1]
    <3>1. n \in Plugins!Updates /\ Tail(b) \in Seq(Plugins!Updates) /\ Len(Tail(b)) = Len(b) - 1
          /\ \A i \in 1 .. Len(Tail(b)) : Tail(b)[i] = b[i + 1]
      BY <1>3, <2>1, HeadTailProperties
    <3>2. n = b[1] BY <1>3, <2>1
    <3>3. Len(b) \in Nat /\ Len(b) # 0 BY <1>3, <2>1, EmptySeq, LenProperties
    <3> QED BY <3>1, <3>2, <3>3
  <2>3. loop' = [loop EXCEPT ![l] = s] BY <1>3 DEF Plugins!Handle, Plugins!TypeOK
  <2>4. arrived' = IF loop[l].test THEN arrived ELSE arrived \cup {n} BY <1>3 DEF Plugins!Handle
  <2>5. n \in Nat /\ 1 <= n /\ n <= handed /\ handed \in Nat
    <3>1. n <= handed BY <1>1, <2>2 DEF Reads, BehindIn
    <3> QED BY <2>2, <3>1 DEF Plugins!TypeOK, Plugins!Updates, Plugins!PluginAssumption
  <2> HIDE DEF n, b
  <2>6. /\ s \in Plugins!LoopState /\ s.offset = n + 1 /\ s.batch = Tail(b) /\ s.errors = loop[l].errors
        /\ s.test = loop[l].test /\ s.stop = loop[l].stop
    <3>1. n + 1 \in Nat /\ Tail(b) \in Seq(Plugins!Updates) BY <2>2, <2>5
    <3> QED BY <1>1, <3>1 DEF Plugins!LoopState
  <2> HIDE DEF s
  <2>7. Becomes(l, s) BY <1>1, <2>3, <2>6 DEF Becomes
  <2>8. /\ loop' \in [Plugins!Loops -> Plugins!LoopState \cup {Nil}]
        /\ \A m \in Plugins!Loops : loop'[m] = IF m = l THEN s ELSE loop[m]
        /\ PluginHeld' /\ Patient' /\ Stages' /\ PluginDownIsEmpty' /\ OneManages'
    BY <1>1, <2>6, <2>7, StepOfALoop
  <2>9. Plugins!TypeOK'
    <3>1. arrived' \subseteq 1 .. handed' BY <1>1, <2>4, <2>5 DEF Plugins!TypeOK
    <3> QED BY <1>1, <2>8, <3>1 DEF Plugins!TypeOK
  <2>10. Reads'
    <3>1. \A i \in 1 .. Len(b) : b[i] <= handed BY <1>1 DEF Reads, BehindIn, b
    <3>2. \A i \in 1 .. Len(Tail(b)) : i + 1 \in 1 .. Len(b) BY <2>2
    <3>3. BehindIn(s, handed) BY <2>2, <2>5, <2>6, <3>1, <3>2 DEF BehindIn
    <3>4. \A m \in Plugins!Loops : loop'[m] # Nil => BehindIn(loop'[m], handed) BY <2>8, <3>3 DEF Reads
    <3> QED BY <1>1, <3>4 DEF Reads, BehindIn
  <2>11. HandsOver'
    <3> SUFFICES ASSUME pluginUsed["test"] = 0
                 PROVE  /\ 1 .. confirmed' \subseteq arrived'
                        /\ \A m \in Plugins!Loops : loop'[m] # Nil
                             => ~loop'[m].test /\ HandedOn(loop'[m], arrived')
                        /\ \A c \in Pair : pluginCall'[c] # Nil => pluginCall'[c].kind # "test"
      BY <1>1 DEF HandsOver, HandedOn
    <3>1. /\ 1 .. confirmed \subseteq arrived
          /\ \A m \in Plugins!Loops : loop[m] # Nil => ~loop[m].test /\ HandedOn(loop[m], arrived)
          /\ \A c \in Pair : pluginCall[c] # Nil => pluginCall[c].kind # "test"
      BY DEF HandsOver
    <3>2. arrived' = arrived \cup {n} BY <1>1, <2>4, <3>1
    <3>3. HandedOn(loop[l], arrived) BY <1>1, <3>1
    <3>4. \A k \in Nat \ {0} : k < n => k \in arrived
      <4> SUFFICES ASSUME NEW k \in Nat \ {0}, k < n PROVE k \in arrived OBVIOUS
      <4>1. k \in arrived \/ \E j \in 1 .. 1 - 1 : b[j] = k BY <2>2, <3>3 DEF HandedOn, b
      <4> QED BY <4>1
    <3>5. \A k \in Nat \ {0} : k < s.offset => k \in arrived' BY <2>5, <2>6, <3>2, <3>4
    <3>6. ASSUME NEW i \in 1 .. Len(s.batch), NEW k \in Nat \ {0}, k < s.batch[i]
          PROVE  k \in arrived' \/ \E j \in 1 .. i - 1 : s.batch[j] = k
      <4>1. i \in Nat /\ i + 1 \in 1 .. Len(b) /\ s.batch[i] = b[i + 1] BY <2>2, <2>6
      <4>2. k \in arrived \/ \E j \in 1 .. (i + 1) - 1 : b[j] = k BY <3>3, <3>6, <4>1 DEF HandedOn, b
      <4>3. ASSUME NEW j \in 1 .. (i + 1) - 1, b[j] = k
            PROVE  k \in arrived' \/ \E h \in 1 .. i - 1 : s.batch[h] = k
        <5>1. CASE j = 1 BY <2>2, <3>2, <4>3, <5>1
        <5>2. CASE j # 1
          <6>1. j - 1 \in 1 .. i - 1 /\ j - 1 \in 1 .. Len(Tail(b)) BY <2>2, <2>6, <4>1, <5>2
          <6>2. s.batch[j - 1] = b[(j - 1) + 1] BY <2>2, <2>6, <6>1
          <6>3. (j - 1) + 1 = j OBVIOUS
          <6> QED BY <4>3, <6>1, <6>2, <6>3
        <5> QED BY <5>1, <5>2
      <4> QED BY <3>2, <4>2, <4>3
    <3>7. HandedOn(s, arrived') BY <3>5, <3>6 DEF HandedOn
    <3>8. \A m \in Plugins!Loops : loop[m] # Nil => HandedOn(loop[m], arrived')
      BY <3>1, <3>2 DEF HandedOn
    <3> QED BY <1>1, <2>6, <2>8, <3>1, <3>2, <3>7, <3>8
  <2> QED BY <2>8, <2>9, <2>10, <2>11
<1> QED BY <1>2, <1>3

\* A person who writes keeps the invariant.
LEMMA PluginWriteKeeps == ASSUME Plugins!PluginAssumption, PluginIInv, Plugins!Write PROVE PluginIInv'
<1> USE DEF PluginIInv
<1>1. /\ handed < MaxUpdates /\ handed' = handed + 1
      /\ UNCHANGED <<pluginRow, active, loop, pluginCall, confirmed, arrived, pluginUp, pluginUsed, pluginCrossed>>
  BY DEF Plugins!Write
<1>2. /\ handed \in Nat /\ handed' \in 0 .. MaxUpdates /\ confirmed \in 0 .. handed'
      /\ arrived \subseteq 1 .. handed'
  BY <1>1 DEF Plugins!TypeOK, Plugins!PluginAssumption
<1>3. Plugins!TypeOK' BY <1>1, <1>2 DEF Plugins!TypeOK
<1>4. PluginHeld' /\ Patient' /\ Stages' /\ PluginDownIsEmpty' /\ OneManages'
  BY <1>1 DEF PluginHeld, Patient, Stages, PluginDownIsEmpty, OneManages, PluginFree, Managing
<1>5. Reads'
  <2> SUFFICES ASSUME NEW l \in Plugins!Loops, loop[l] # Nil PROVE BehindIn(loop[l], handed + 1)
    BY <1>1 DEF Reads, BehindIn
  <2>1. loop[l].offset \in Nat /\ loop[l].batch \in Seq(Plugins!Updates)
    BY DEF Plugins!TypeOK, Plugins!LoopState
  <2>2. loop[l].offset <= handed + 1 /\ \A i \in 1 .. Len(loop[l].batch) : loop[l].batch[i] <= handed
    BY DEF Reads, BehindIn
  <2>3. \A i \in 1 .. Len(loop[l].batch) : loop[l].batch[i] \in Nat
    <3>1. \A i \in 1 .. Len(loop[l].batch) : loop[l].batch[i] \in Plugins!Updates BY <2>1, ElementOfSeq
    <3> QED BY <3>1 DEF Plugins!Updates, Plugins!PluginAssumption
  <2> QED BY <1>2, <2>1, <2>2, <2>3 DEF BehindIn
<1>6. HandsOver' BY <1>1 DEF HandsOver, HandedOn
<1> QED BY <1>3, <1>4, <1>5, <1>6

\* Every step of the plugins keeps the invariant.
LEMMA PluginInductive == ASSUME Plugins!PluginAssumption, PluginIInv, [Plugins!Next]_(Plugins!vars)
  PROVE PluginIInv'
<1>1. CASE UNCHANGED Plugins!vars
  <2> USE <1>1 DEF Plugins!vars
  <2>1. Plugins!TypeOK' /\ PluginHeld' /\ Patient'
    BY DEF PluginIInv, Plugins!TypeOK, PluginHeld, Patient
  <2>2. Stages' /\ Reads' BY DEF PluginIInv, Stages, Reads, BehindIn
  <2>3. HandsOver' BY DEF PluginIInv, HandsOver, HandedOn
  <2>4. PluginDownIsEmpty' /\ OneManages'
    BY DEF PluginIInv, PluginDownIsEmpty, OneManages, PluginFree, Managing
  <2> QED BY <2>1, <2>2, <2>3, <2>4 DEF PluginIInv
<1>2. ASSUME NEW c \in Pair,
             \/ Plugins!Enable(c) \/ Plugins!Disable(c) \/ Plugins!Stopped(c) \/ Plugins!Upsert(c)
               \/ Plugins!SwitchOff(c)
             \/ Plugins!Connect(c) \/ Plugins!ConnectFails(c) \/ Plugins!Record(c)
               \/ Plugins!Test(c) \/ Plugins!Tested(c) \/ Plugins!Restart(c)
      PROVE  PluginIInv'
  BY <1>2, TakeOutKeeps, StoppedKeeps, UpsertKeeps, PluginEndsKeep, ConnectKeeps, RecordKeeps, TestKeeps,
     TestedKeeps, RestartKeeps
<1>3. CASE Plugins!Crash \/ Plugins!Write BY <1>3, PluginCrashKeeps, PluginWriteKeeps
<1>4. ASSUME NEW l \in Plugins!Loops, Plugins!Check(l) \/ Plugins!Fetch(l) \/ Plugins!FetchFails(l)
               \/ Plugins!Backoff(l) \/ Plugins!Handle(l)
      PROVE  PluginIInv'
  BY <1>4, LoopTurnsKeep, FetchKeeps, HandleKeeps
<1> QED BY <1>1, <1>2, <1>3, <1>4 DEF Plugins!Next

\* The plugins by themselves have the two properties.
LEMMA PluginsHold == ASSUME Plugins!PluginAssumption
  PROVE Plugins!Spec => [](Plugins!TypeOK /\ Plugins!NoUpdateLost /\ Plugins!OffStaysOff)
<1>1. PluginIInv => Plugins!TypeOK /\ Plugins!NoUpdateLost
  BY DEF PluginIInv, HandsOver, Plugins!NoUpdateLost
<1>2. PluginIInv => Plugins!OffStaysOff
  BY DEF PluginIInv, OneManages, Plugins!OffStaysOff, PluginFree, Managing
<1> QED BY <1>1, <1>2, PluginInitial, PluginInductive, PTL DEF Plugins!Spec

\* The group implements the service.
LEMMA PluginsImplemented == AccessSpec => Plugins!Spec
<1>1. AccessInit => Plugins!Init BY DEF AccessInit
<1>2. [AccessNext]_accessVars => [Plugins!Next]_(Plugins!vars)
  BY DEF AccessNext, accessVars, pluginVars, Plugins!vars
<1> QED BY <1>1, <1>2, PTL DEF AccessSpec, Plugins!Spec

\* However requests, failures and crashes cross, for any number of updates,
\* loops and retries: as long as no token was tested, an update that the
\* platform was told to forget has reached the orchestrator
\* (plugins/telegram/plugin.rs).
THEOREM UpdatesAreHandedOn == ASSUME AccessAssumption PROVE AccessSpec => []NoUpdateLost
<1>1. Plugins!PluginAssumption BY DEF AccessAssumption
<1>2. Plugins!Spec => [](Plugins!TypeOK /\ Plugins!NoUpdateLost /\ Plugins!OffStaysOff)
  BY <1>1, PluginsHold
<1>3. Plugins!NoUpdateLost => NoUpdateLost BY DEF NoUpdateLost
<1> QED BY <1>2, <1>3, PluginsImplemented, PTL

\* While no request is at work and none crossed, a loop that goes on is the
\* one the manager holds, and the row of the plugin is on (manager.rs).
THEOREM StaysOff == ASSUME AccessAssumption PROVE AccessSpec => []OffStaysOff
<1>1. Plugins!PluginAssumption BY DEF AccessAssumption
<1>2. Plugins!Spec => [](Plugins!TypeOK /\ Plugins!NoUpdateLost /\ Plugins!OffStaysOff)
  BY <1>1, PluginsHold
<1>3. Plugins!OffStaysOff => OffStaysOff BY DEF OffStaysOff
<1> QED BY <1>2, <1>3, PluginsImplemented, PTL

-----------------------------------------------------------------------------
(* The connections of the web client: Realtime.                            *)

\* A connection as it is after n events were forwarded; alive says whether the
\* bridge still runs.
Sound(s, n, alive) ==
  /\ Bridge!EventsOf(s) \subseteq 1 .. n /\ s.dropped \subseteq 1 .. n /\ s.joined \in 0 .. n
  /\ Bridge!InOrder(s)
  /\ s.pc = "new" => ~s.known /\ ~s.sending /\ s.queue = <<>> /\ s.got = <<>> /\ s.dropped = {}
  /\ alive /\ s.known /\ s.sending => Bridge!EventsOf(s) = (s.joined + 1 .. n) \ s.dropped

BridgeFits(s) == s \in Bridge!ConnState /\ Len(s.queue) <= Buffer

BridgeIInv == Bridge!TypeOK /\ \A c \in Conns : Sound(conn[c], Bridge!Forwarded, bridge.alive)

-----------------------------------------------------------------------------
\* A queue with a frame more or less.

\* A frame is an event or a word of the connection.
LEMMA FrameFacts ==
  /\ \A f \in Bridge!Frames : f[1] = "event" => f[2] \in Bridge!Events
  /\ \A n \in Bridge!Events : <<"event", n>> \in Bridge!Frames /\ <<"event", n>>[1] = "event"
       /\ <<"event", n>>[2] = n
  /\ \A k \in {"ping", "reply", "expired", "close"} : <<k, 0>> \in Bridge!Frames
       /\ <<k, 0>>[1] # "event"
BY DEF Bridge!Frames

\* Order when something is put behind a queue.
LEMMA Joining ==
  ASSUME NEW q \in Seq(Bridge!Frames), NEW f \in Bridge!Frames
  PROVE  /\ Append(q, f) \in Seq(Bridge!Frames) /\ Len(Append(q, f)) = Len(q) + 1
         /\ f[1] # "event" => Bridge!Waiting(Append(q, f)) = Bridge!Waiting(q)
         /\ f[1] = "event" => Bridge!Waiting(Append(q, f)) = Bridge!Waiting(q) \cup {Len(q) + 1}
         /\ \A i \in Bridge!Waiting(q) : Append(q, f)[i] = q[i] /\ i \in Nat /\ i < Len(q) + 1
         /\ Append(q, f)[Len(q) + 1] = f
<1>1. /\ Append(q, f) \in Seq(Bridge!Frames) /\ Len(Append(q, f)) = Len(q) + 1
      /\ \A i \in 1 .. Len(q) : Append(q, f)[i] = q[i]
      /\ Append(q, f)[Len(q) + 1] = f
  BY AppendProperties
<1>2. /\ Len(q) \in Nat /\ DOMAIN q = 1 .. Len(q) /\ DOMAIN Append(q, f) = 1 .. Len(q) + 1
  BY <1>1, LenProperties
<1>3. \A i \in 1 .. Len(q) + 1 : i \in 1 .. Len(q) \/ i = Len(q) + 1 BY <1>2
<1> QED BY <1>1, <1>2, <1>3 DEF Bridge!Waiting

\* Order when the head of a queue is taken.
LEMMA HeadLeaves ==
  ASSUME NEW q \in Seq(Bridge!Frames), q # <<>>
  PROVE  /\ Head(q) \in Bridge!Frames /\ Head(q) = q[1] /\ Tail(q) \in Seq(Bridge!Frames)
              /\ Len(Tail(q)) = Len(q) - 1
         /\ \A i \in Bridge!Waiting(Tail(q)) : i \in Nat /\ i >= 1 /\ i + 1 \in Bridge!Waiting(q)
              /\ Tail(q)[i] = q[i + 1]
         /\ \A i \in Bridge!Waiting(q) : i \in Nat /\ (i = 1 \/ i - 1 \in Bridge!Waiting(Tail(q)))
         /\ 1 \in Bridge!Waiting(q) <=> Head(q)[1] = "event"
<1>1. /\ Head(q) \in Bridge!Frames /\ Tail(q) \in Seq(Bridge!Frames) /\ Len(Tail(q)) = Len(q) - 1
      /\ \A i \in 1 .. Len(Tail(q)) : Tail(q)[i] = q[i + 1]
  BY HeadTailProperties
<1>2. Head(q) = q[1] OBVIOUS
<1>3. /\ Len(q) \in Nat /\ Len(q) # 0 /\ DOMAIN q = 1 .. Len(q) /\ DOMAIN Tail(q) = 1 .. Len(q) - 1
  BY <1>1, LenProperties, EmptySeq
<1>4. \A i \in Bridge!Waiting(Tail(q)) : i \in Nat /\ i >= 1 /\ i + 1 \in Bridge!Waiting(q)
        /\ Tail(q)[i] = q[i + 1]
  BY <1>1, <1>3 DEF Bridge!Waiting
<1>5. ASSUME NEW i \in Bridge!Waiting(q), i # 1 PROVE i \in Nat /\ i - 1 \in Bridge!Waiting(Tail(q))
  <2>1. i \in 1 .. Len(q) /\ q[i][1] = "event" BY <1>3 DEF Bridge!Waiting
  <2>2. i - 1 \in 1 .. Len(q) - 1 /\ (i - 1) + 1 = i BY <1>3, <1>5, <2>1
  <2>3. Tail(q)[i - 1] = q[i] BY <1>1, <1>3, <2>2
  <2> QED BY <1>3, <2>1, <2>2, <2>3 DEF Bridge!Waiting
<1>6. 1 \in Bridge!Waiting(q) <=> Head(q)[1] = "event" BY <1>2, <1>3 DEF Bridge!Waiting
<1>7. \A i \in Bridge!Waiting(q) : i \in Nat BY <1>3 DEF Bridge!Waiting
<1>8. \A i \in Bridge!Waiting(q) : i \in Nat /\ (i = 1 \/ i - 1 \in Bridge!Waiting(Tail(q)))
  BY <1>5, <1>7
<1> QED BY <1>1, <1>2, <1>4, <1>6, <1>8

-----------------------------------------------------------------------------
\* What the helpers do to a connection.

\* Putting a frame keeps a connection sound.
LEMMA FramePutKeeps ==
  ASSUME Bridge!RealtimeAssumption, NEW s, BridgeFits(s),
           NEW k \in {"ping", "reply", "expired", "close"}
  PROVE  /\ BridgeFits(Bridge!Put(s, <<k, 0>>))
              /\ Bridge!EventsOf(Bridge!Put(s, <<k, 0>>)) = Bridge!EventsOf(s)
         /\ Bridge!InOrder(s) => Bridge!InOrder(Bridge!Put(s, <<k, 0>>))
         /\ Bridge!Put(s, <<k, 0>>) = [s EXCEPT !.queue = Bridge!Put(s, <<k, 0>>).queue]
<1> DEFINE f == <<k, 0>>
           t == Bridge!Put(s, f)
<1>0. s \in Bridge!ConnState /\ Len(s.queue) <= Buffer /\ s.queue \in Seq(Bridge!Frames)
        /\ f \in Bridge!Frames /\ f[1] # "event"
  BY FrameFacts DEF BridgeFits, Bridge!ConnState
<1> HIDE DEF f
<1>1. CASE ~Bridge!HasRoom(s)
  <2>1. t = s BY <1>1 DEF Bridge!Put
  <2>2. s = [s EXCEPT !.queue = s.queue] BY <1>0 DEF Bridge!ConnState
  <2> QED BY <2>1, <2>2 DEF f
<1>2. CASE Bridge!HasRoom(s)
  <2> DEFINE q == Append(s.queue, f)
  <2>1. /\ q \in Seq(Bridge!Frames) /\ Len(q) = Len(s.queue) + 1
             /\ Bridge!Waiting(q) = Bridge!Waiting(s.queue)
        /\ \A i \in Bridge!Waiting(s.queue) : q[i] = s.queue[i]
    BY <1>0, Joining
  <2>2. t = [s EXCEPT !.queue = q] BY <1>2 DEF Bridge!Put
  <2> HIDE DEF q
  <2>3. t \in Bridge!ConnState /\ t.queue = q /\ t.got = s.got BY <1>0, <2>1, <2>2 DEF Bridge!ConnState
  <2>4. Len(s.queue) \in Nat /\ Len(s.queue) + 1 <= Buffer
    BY <1>0, <1>2, LenProperties DEF Bridge!HasRoom, Bridge!RealtimeAssumption
  <2>5. Bridge!EventsOf(t) = Bridge!EventsOf(s) BY <2>1, <2>3 DEF Bridge!EventsOf
  <2>6. Bridge!InOrder(s) => Bridge!InOrder(t) BY <2>1, <2>3 DEF Bridge!InOrder
  <2> QED BY <2>1, <2>2, <2>3, <2>4, <2>5, <2>6 DEF BridgeFits, f
<1> QED BY <1>1, <1>2

\* Putting the next event keeps a connection sound.
LEMMA PutEvent ==
  ASSUME Bridge!RealtimeAssumption, NEW s, BridgeFits(s), Bridge!HasRoom(s), NEW n \in Bridge!Events,
         Bridge!InOrder(s), Bridge!EventsOf(s) \subseteq 1 .. n - 1
  PROVE  /\ BridgeFits(Bridge!Put(s, <<"event", n>>))
              /\ Bridge!EventsOf(Bridge!Put(s, <<"event", n>>)) = Bridge!EventsOf(s) \cup {n}
         /\ Bridge!InOrder(Bridge!Put(s, <<"event", n>>))
         /\ Bridge!Put(s, <<"event", n>>) = [s EXCEPT !.queue = Bridge!Put(s, <<"event", n>>).queue]
<1> DEFINE f == <<"event", n>>
           t == Bridge!Put(s, f)
           q == Append(s.queue, f)
           last == Len(s.queue) + 1
<1>1. /\ s \in Bridge!ConnState /\ Len(s.queue) <= Buffer /\ s.queue \in Seq(Bridge!Frames)
           /\ s.got \in Seq(Bridge!Events)
      /\ f \in Bridge!Frames /\ f[1] = "event" /\ f[2] = n
  BY FrameFacts DEF BridgeFits, Bridge!ConnState
<1> HIDE DEF f
<1>2. /\ q \in Seq(Bridge!Frames) /\ Len(q) = last
           /\ Bridge!Waiting(q) = Bridge!Waiting(s.queue) \cup {last}
      /\ \A i \in Bridge!Waiting(s.queue) : q[i] = s.queue[i] /\ i \in Nat /\ i < last
      /\ q[last] = f
  BY <1>1, Joining
<1>3. t = [s EXCEPT !.queue = q] BY DEF Bridge!Put
<1> HIDE DEF q
<1>4. t \in Bridge!ConnState /\ t.queue = q /\ t.got = s.got BY <1>1, <1>2, <1>3 DEF Bridge!ConnState
<1>5. Len(s.queue) \in Nat /\ last <= Buffer
  BY <1>1, LenProperties DEF Bridge!HasRoom, Bridge!RealtimeAssumption
<1> HIDE DEF last
<1>6. Bridge!EventsOf(t) = Bridge!EventsOf(s) \cup {n} BY <1>1, <1>2, <1>4 DEF Bridge!EventsOf
<1>7. Bridge!InOrder(t)
  <2>1. \A i \in DOMAIN s.got : s.got[i] \in Bridge!EventsOf(s) BY DEF Bridge!EventsOf, Bridge!ToSet
  <2>2. \A i \in Bridge!Waiting(s.queue) : s.queue[i][2] \in Bridge!EventsOf(s) BY DEF Bridge!EventsOf
  <2>3. \A x \in Bridge!EventsOf(s) : x < n BY DEF Bridge!Events, Bridge!RealtimeAssumption
  <2>4. \A i \in DOMAIN t.got, j \in Bridge!Waiting(t.queue) : t.got[i] < t.queue[j][2]
    BY <1>1, <1>2, <1>4, <2>1, <2>3 DEF Bridge!InOrder
  <2>5. \A i, j \in Bridge!Waiting(t.queue) : i < j => t.queue[i][2] < t.queue[j][2]
    <3> SUFFICES ASSUME NEW i \in Bridge!Waiting(q), NEW j \in Bridge!Waiting(q), i < j
                 PROVE  q[i][2] < q[j][2]
      BY <1>4
    <3>1. i \in Bridge!Waiting(s.queue) BY <1>2, <1>5 DEF last
    <3>2. CASE j = last BY <1>1, <1>2, <2>2, <2>3, <3>1, <3>2
    <3>3. CASE j \in Bridge!Waiting(s.queue) BY <1>2, <3>1, <3>3 DEF Bridge!InOrder
    <3> QED BY <1>2, <3>2, <3>3
  <2> QED BY <1>4, <2>4, <2>5 DEF Bridge!InOrder
<1> QED BY <1>2, <1>3, <1>4, <1>5, <1>6, <1>7 DEF BridgeFits, f

\* A frame is written: the events are those they were, in their order.
BridgeWritten(s) ==
  LET f == Head(s.queue) IN
  [s EXCEPT !.queue = Tail(@), !.got = IF f[1] = "event" THEN Append(@, f[2]) ELSE @,
            !.told = @ \/ f[1] = "close"]

\* Writing the head of a queue to the socket keeps a connection sound.
LEMMA BridgeWriteKeeps ==
  ASSUME Bridge!RealtimeAssumption, NEW s, BridgeFits(s), s.queue # <<>>, NEW t, t = BridgeWritten(s)
  PROVE  /\ BridgeFits(t) /\ Bridge!EventsOf(t) = Bridge!EventsOf(s) /\ (Bridge!InOrder(s)
              => Bridge!InOrder(t))
         /\ t.pc = s.pc /\ t.known = s.known /\ t.sending = s.sending
         /\ t.joined = s.joined /\ t.dropped = s.dropped
<1> DEFINE f == Head(s.queue)
           g == IF f[1] = "event" THEN Append(s.got, f[2]) ELSE s.got
           told == s.told \/ f[1] = "close"
           last == Len(s.got) + 1
<1>1. /\ s \in Bridge!ConnState /\ Len(s.queue) <= Buffer /\ s.queue \in Seq(Bridge!Frames)
           /\ s.got \in Seq(Bridge!Events)
      /\ s.told \in BOOLEAN
  BY DEF BridgeFits, Bridge!ConnState
<1>2. /\ f \in Bridge!Frames /\ f = s.queue[1] /\ Tail(s.queue) \in Seq(Bridge!Frames)
      /\ Len(Tail(s.queue)) = Len(s.queue) - 1
      /\ \A i \in Bridge!Waiting(Tail(s.queue)) :
           i \in Nat /\ i >= 1 /\ i + 1 \in Bridge!Waiting(s.queue) /\ Tail(s.queue)[i] = s.queue[i + 1]
      /\ \A i \in Bridge!Waiting(s.queue) : i \in Nat
           /\ (i = 1 \/ i - 1 \in Bridge!Waiting(Tail(s.queue)))
      /\ 1 \in Bridge!Waiting(s.queue) <=> f[1] = "event"
  BY <1>1, HeadLeaves
<1>3. f[1] = "event" => f[2] \in Bridge!Events BY <1>2, FrameFacts
<1>4. DOMAIN s.got = 1 .. Len(s.got) /\ Len(s.got) \in Nat /\ Len(s.queue) \in Nat
  BY <1>1, LenProperties
<1>5. /\ g \in Seq(Bridge!Events) /\ \A i \in DOMAIN s.got : g[i] = s.got[i]
      /\ f[1] # "event" => g = s.got
      /\ f[1] = "event" => DOMAIN g = DOMAIN s.got \cup {last} /\ g[last] = f[2]
  <2>1. CASE f[1] # "event" BY <1>1, <2>1
  <2>2. CASE f[1] = "event"
    <3>1. g = Append(s.got, f[2]) BY <2>2
    <3>2. /\ g \in Seq(Bridge!Events) /\ Len(g) = last /\ g[last] = f[2]
          /\ \A i \in 1 .. Len(s.got) : g[i] = s.got[i]
      BY <1>1, <1>3, <2>2, <3>1, AppendProperties
    <3>3. DOMAIN g = 1 .. last BY <3>2, LenProperties
    <3> QED BY <1>4, <2>2, <3>2, <3>3
  <2> QED BY <2>1, <2>2
<1>6. told \in BOOLEAN OBVIOUS
<1>7. t = [s EXCEPT !.queue = Tail(s.queue), !.got = g, !.told = told]
  BY <1>1 DEF Bridge!ConnState, BridgeWritten
<1> HIDE DEF f, g, told
<1>8. /\ t \in Bridge!ConnState /\ t.queue = Tail(s.queue) /\ t.got = g
      /\ t.pc = s.pc /\ t.known = s.known /\ t.sending = s.sending
      /\ t.joined = s.joined /\ t.dropped = s.dropped
  BY <1>1, <1>2, <1>5, <1>6, <1>7 DEF Bridge!ConnState
<1>9. \A i \in Bridge!Waiting(t.queue) : /\ i \in Nat /\ i >= 1 /\ i + 1 \in Bridge!Waiting(s.queue)
                                         /\ t.queue[i] = s.queue[i + 1]
  <2>1. t.queue = Tail(s.queue) BY <1>8
  <2> QED BY <1>2, <2>1
<1>10. Bridge!EventsOf(t) = Bridge!EventsOf(s)
  <2>1. ASSUME NEW x \in Bridge!EventsOf(s) PROVE x \in Bridge!EventsOf(t)
    <3>1. CASE x \in Bridge!ToSet(s.got)
      <4>1. PICK i \in DOMAIN s.got : x = s.got[i] BY <3>1 DEF Bridge!ToSet
      <4>2. i \in DOMAIN g /\ g[i] = x BY <1>5, <4>1
      <4> QED BY <1>8, <4>2 DEF Bridge!EventsOf, Bridge!ToSet
    <3>2. ASSUME NEW i \in Bridge!Waiting(s.queue), x = s.queue[i][2] PROVE x \in Bridge!EventsOf(t)
      <4>1. CASE i = 1
        <5>1. x = f[2] /\ f[1] = "event" BY <1>2, <3>2, <4>1
        <5>2. last \in DOMAIN g /\ g[last] = x BY <1>5, <5>1
        <5> QED BY <1>8, <5>2 DEF Bridge!EventsOf, Bridge!ToSet
      <4>2. CASE i # 1
        <5>1. i \in Nat /\ i - 1 \in Bridge!Waiting(t.queue) BY <1>2, <1>8, <4>2
        <5>2. (i - 1) + 1 = i BY <5>1
        <5>3. t.queue[i - 1] = s.queue[i] BY <1>9, <5>1, <5>2
        <5> QED BY <3>2, <5>1, <5>3 DEF Bridge!EventsOf
      <4> QED BY <4>1, <4>2
    <3> QED BY <3>1, <3>2 DEF Bridge!EventsOf
  <2>2. ASSUME NEW x \in Bridge!EventsOf(t) PROVE x \in Bridge!EventsOf(s)
    <3>1. CASE x \in Bridge!ToSet(t.got)
      <4>1. PICK i \in DOMAIN g : x = g[i] BY <1>8, <3>1 DEF Bridge!ToSet
      <4>2. CASE i \in DOMAIN s.got BY <1>5, <4>1, <4>2 DEF Bridge!EventsOf, Bridge!ToSet
      <4>3. CASE i \notin DOMAIN s.got
        <5>1. f[1] = "event" /\ x = f[2] BY <1>5, <4>1, <4>3
        <5>2. 1 \in Bridge!Waiting(s.queue) /\ x = s.queue[1][2] BY <1>2, <5>1
        <5> QED BY <5>2 DEF Bridge!EventsOf
      <4> QED BY <4>2, <4>3
    <3>2. ASSUME NEW i \in Bridge!Waiting(t.queue), x = t.queue[i][2] PROVE x \in Bridge!EventsOf(s)
      BY <1>9, <3>2 DEF Bridge!EventsOf
    <3> QED BY <3>1, <3>2 DEF Bridge!EventsOf
  <2> QED BY <2>1, <2>2
<1>11. ASSUME Bridge!InOrder(s) PROVE Bridge!InOrder(t)
  <2>1. ASSUME NEW i \in Bridge!Waiting(t.queue), NEW j \in Bridge!Waiting(t.queue), i < j
        PROVE  t.queue[i][2] < t.queue[j][2]
    <3>1. i + 1 < j + 1 /\ i + 1 \in Bridge!Waiting(s.queue) /\ j + 1 \in Bridge!Waiting(s.queue)
      BY <1>9, <2>1
    <3>2. s.queue[i + 1][2] < s.queue[j + 1][2] BY <1>11, <3>1 DEF Bridge!InOrder
    <3> QED BY <1>9, <3>2
  <2>2. ASSUME NEW i \in DOMAIN g, NEW j \in Bridge!Waiting(t.queue) PROVE g[i] < t.queue[j][2]
    <3>1. CASE i \in DOMAIN s.got BY <1>5, <1>9, <1>11, <3>1 DEF Bridge!InOrder
    <3>2. CASE i \notin DOMAIN s.got
      <4>1. f[1] = "event" /\ g[i] = f[2] BY <1>5, <3>2
      <4>2. 1 \in Bridge!Waiting(s.queue) /\ g[i] = s.queue[1][2] BY <1>2, <4>1
      <4>3. 1 < j + 1 BY <1>9
      <4> QED BY <1>9, <1>11, <4>2, <4>3 DEF Bridge!InOrder
    <3> QED BY <3>1, <3>2
  <2>3. ASSUME NEW i \in DOMAIN g, NEW j \in DOMAIN g, i < j PROVE g[i] < g[j]
    <3>1. CASE j \in DOMAIN s.got
      <4>1. i \in DOMAIN s.got BY <1>4, <1>5, <2>3, <3>1
      <4> QED BY <1>5, <1>11, <2>3, <3>1, <4>1 DEF Bridge!InOrder
    <3>2. CASE j \notin DOMAIN s.got
      <4>1. f[1] = "event" /\ j = last /\ g[j] = f[2] BY <1>5, <3>2
      <4>2. 1 \in Bridge!Waiting(s.queue) /\ g[j] = s.queue[1][2] BY <1>2, <4>1
      <4>3. i \in DOMAIN s.got BY <1>4, <1>5, <2>3, <4>1
      <4> QED BY <1>5, <1>11, <4>2, <4>3 DEF Bridge!InOrder
    <3> QED BY <3>1, <3>2
  <2> QED BY <1>8, <2>1, <2>2, <2>3 DEF Bridge!InOrder
<1>12. Len(t.queue) <= Buffer BY <1>1, <1>2, <1>4, <1>8 DEF Bridge!RealtimeAssumption
<1> QED BY <1>8, <1>10, <1>11, <1>12 DEF BridgeFits

\* A queue that is dropped.
LEMMA Emptied ==
  ASSUME NEW s, BridgeFits(s), NEW t, t.queue = <<>>, t.got = s.got
  PROVE  Bridge!EventsOf(t) \subseteq Bridge!EventsOf(s) /\ (Bridge!InOrder(s) => Bridge!InOrder(t))
<1>1. Bridge!Waiting(t.queue) = {} BY DEF Bridge!Waiting
<1>2. Bridge!EventsOf(t) \subseteq Bridge!EventsOf(s) BY <1>1 DEF Bridge!EventsOf
<1>3. Bridge!InOrder(s) => Bridge!InOrder(t) BY <1>1 DEF Bridge!InOrder
<1> QED BY <1>2, <1>3

\* A connection that keeps its events, or leaves the map or its send loop.
LEMMA SoundKept ==
  ASSUME NEW s, NEW t, NEW n \in Nat, NEW alive \in BOOLEAN, Sound(s, n, alive),
         Bridge!EventsOf(t) \subseteq Bridge!EventsOf(s), Bridge!InOrder(s) => Bridge!InOrder(t),
         t.joined = s.joined, t.dropped = s.dropped,
         t.pc = "new" => /\ s.pc = "new" /\ t.known = s.known /\ t.sending = s.sending
                         /\ t.queue = s.queue /\ t.got = s.got,
         t.known /\ t.sending => s.known /\ s.sending /\ Bridge!EventsOf(t) = Bridge!EventsOf(s)
  PROVE  Sound(t, n, alive)
BY DEF Sound

-----------------------------------------------------------------------------

\* At the start there is no connection.
LEMMA BridgeInitial == ASSUME Bridge!RealtimeAssumption, Bridge!Init PROVE BridgeIInv
<1>1. ASSUME NEW c \in Conns PROVE BridgeFits(conn[c]) /\ Sound(conn[c], Bridge!Forwarded, bridge.alive)
  <2>1. conn[c] = [pc |-> "new", known |-> FALSE, sending |-> FALSE, up |-> TRUE, valid |-> TRUE,
                   silent |-> 0, queue |-> <<>>, got |-> <<>>, told |-> FALSE, joined |-> 0, dropped |-> {}]
    BY DEF Bridge!Init
  <2>2. 0 \in 0 .. MaxPublished /\ Len(<<>>) <= Buffer BY DEF Bridge!RealtimeAssumption
  <2>3. BridgeFits(conn[c]) BY <2>1, <2>2 DEF BridgeFits, Bridge!ConnState
  <2>4. conn[c].got = <<>> /\ Bridge!Waiting(conn[c].queue) = {} BY <2>1 DEF Bridge!Waiting
  <2>5. Bridge!EventsOf(conn[c]) = {} /\ Bridge!InOrder(conn[c])
    BY <2>4 DEF Bridge!EventsOf, Bridge!ToSet, Bridge!InOrder
  <2>6. Bridge!Forwarded = 0 BY DEF Bridge!Init, Bridge!Forwarded
  <2> QED BY <2>1, <2>3, <2>5, <2>6 DEF Sound
<1>2. /\ published \in 0 .. MaxPublished /\ bridge \in [next : 1 .. MaxPublished + 1, alive : BOOLEAN]
      /\ heart \in BOOLEAN /\ ticks \in 0 .. MaxTicks /\ talk \in 0 .. MaxTalk
  BY DEF Bridge!Init, Bridge!RealtimeAssumption
<1>3. conn \in [Conns -> Bridge!ConnState] BY <1>1 DEF Bridge!Init, BridgeFits
<1> QED BY <1>1, <1>2, <1>3 DEF BridgeIInv, Bridge!TypeOK, BridgeFits

\* What the invariant says of the connections, one by one.
LEMMA BridgeFacts ==
  ASSUME Bridge!RealtimeAssumption, BridgeIInv
  PROVE  /\ \A c \in Conns : BridgeFits(conn[c]) /\ Sound(conn[c], Bridge!Forwarded, bridge.alive)
         /\ Bridge!Forwarded \in 0 .. MaxPublished /\ bridge.alive \in BOOLEAN
BY DEF BridgeIInv, Bridge!TypeOK, BridgeFits, Bridge!Forwarded, Bridge!RealtimeAssumption

\* A step of the connection c, which becomes t.
LEMMA OneConnection ==
  ASSUME Bridge!RealtimeAssumption, BridgeIInv, NEW c \in Conns, NEW t, conn' = [conn EXCEPT ![c] = t],
         BridgeFits(t), Sound(t, Bridge!Forwarded, bridge.alive),
         UNCHANGED <<published, bridge, heart, ticks>>, talk' \in 0 .. MaxTalk
  PROVE  BridgeIInv'
<1>1. conn' \in [Conns -> Bridge!ConnState] /\ \A d \in Conns : conn'[d] = IF d = c THEN t ELSE conn[d]
  BY DEF BridgeIInv, Bridge!TypeOK, BridgeFits
<1>2. \A d \in Conns : Len(conn'[d].queue) <= Buffer BY <1>1 DEF BridgeIInv, Bridge!TypeOK, BridgeFits
<1>3. Bridge!TypeOK' BY <1>1, <1>2 DEF BridgeIInv, Bridge!TypeOK
<1>4. \A d \in Conns : Sound(conn'[d], Bridge!Forwarded, bridge.alive) BY <1>1, BridgeFacts
<1>5. \A d \in Conns : Sound(conn'[d], Bridge!Forwarded', bridge.alive') BY <1>4 DEF Bridge!Forwarded
<1>6. (\A d \in Conns : Sound(conn[d], Bridge!Forwarded, bridge.alive))'
  BY <1>5 DEF Sound, Bridge!EventsOf, Bridge!Waiting, Bridge!InOrder, Bridge!ToSet
<1> QED BY <1>3, <1>6 DEF BridgeIInv

\* A connection that is accepted is sound.
LEMMA AcceptKeeps == ASSUME Bridge!RealtimeAssumption, BridgeIInv, NEW c \in Conns, Bridge!Accept(c)
  PROVE BridgeIInv'
<1> DEFINE refused == [conn[c] EXCEPT !.pc = "gone", !.told = TRUE]
           joined == [conn[c] EXCEPT !.pc = "live", !.known = TRUE, !.sending = TRUE, !.joined
             = Bridge!Forwarded]
           t == IF ~conn[c].valid THEN refused ELSE joined
<1>1. /\ conn[c].pc = "new" /\ UNCHANGED <<published, bridge, heart, ticks, talk>>
      /\ conn' = [conn EXCEPT ![c] = t]
  BY DEF Bridge!Accept
<1>2. /\ BridgeFits(conn[c]) /\ Sound(conn[c], Bridge!Forwarded, bridge.alive)
      /\ Bridge!Forwarded \in 0 .. MaxPublished /\ bridge.alive \in BOOLEAN /\ Bridge!Forwarded \in Nat
  BY BridgeFacts DEF Bridge!RealtimeAssumption
<1>3. talk' \in 0 .. MaxTalk BY <1>1 DEF BridgeIInv, Bridge!TypeOK
<1>4. CASE ~conn[c].valid
  <2>1. BridgeFits(refused) /\ refused.queue = conn[c].queue /\ refused.got = conn[c].got
        /\ refused.joined = conn[c].joined /\ refused.dropped = conn[c].dropped /\ refused.pc = "gone"
        /\ refused.known = conn[c].known /\ refused.sending = conn[c].sending
    BY <1>2 DEF BridgeFits, Bridge!ConnState
  <2>2. Bridge!EventsOf(refused) = Bridge!EventsOf(conn[c]) /\ (Bridge!InOrder(conn[c])
          => Bridge!InOrder(refused))
    BY <2>1 DEF Bridge!EventsOf, Bridge!InOrder
  <2> HIDE DEF refused
  <2>3. Sound(refused, Bridge!Forwarded, bridge.alive) BY <1>2, <2>1, <2>2, SoundKept
  <2> QED BY <1>1, <1>3, <1>4, <2>1, <2>3, OneConnection
<1>5. CASE conn[c].valid
  <2>1. /\ BridgeFits(joined) /\ joined.queue = conn[c].queue /\ joined.got = conn[c].got
        /\ joined.joined = Bridge!Forwarded /\ joined.dropped = conn[c].dropped /\ joined.pc = "live"
    BY <1>2 DEF BridgeFits, Bridge!ConnState
  <2> HIDE DEF joined
  <2>2. joined.queue = <<>> /\ joined.got = <<>> /\ joined.dropped = {}
    BY <1>1, <1>2, <2>1 DEF Sound
  <2>3. Bridge!EventsOf(joined) = {} /\ Bridge!InOrder(joined)
    BY <2>2 DEF Bridge!EventsOf, Bridge!ToSet, Bridge!InOrder, Bridge!Waiting
  <2>4. (Bridge!Forwarded + 1 .. Bridge!Forwarded) \ {} = {} BY <1>2
  <2>5. Sound(joined, Bridge!Forwarded, bridge.alive) BY <1>2, <2>1, <2>2, <2>3, <2>4 DEF Sound
  <2> QED BY <1>1, <1>3, <1>5, <2>1, <2>5, OneConnection
<1> QED BY <1>4, <1>5

\* Writing to one socket keeps the connections sound.
LEMMA SocketKeeps == ASSUME Bridge!RealtimeAssumption, BridgeIInv, NEW c \in Conns, Bridge!Write(c)
  PROVE BridgeIInv'
<1> DEFINE s == conn[c]
<1>1. /\ s.sending /\ UNCHANGED <<published, bridge, heart, ticks, talk>>
  BY DEF Bridge!Write
<1>2. /\ BridgeFits(s) /\ Sound(s, Bridge!Forwarded, bridge.alive) /\ bridge.alive \in BOOLEAN
           /\ Bridge!Forwarded \in Nat
  BY BridgeFacts DEF Bridge!RealtimeAssumption
<1>3. talk' \in 0 .. MaxTalk BY <1>1 DEF BridgeIInv, Bridge!TypeOK
<1>4. s.pc # "new" BY <1>1, <1>2 DEF Sound
<1>5. ASSUME NEW t, conn' = [conn EXCEPT ![c]
               = t], BridgeFits(t), Bridge!EventsOf(t) \subseteq Bridge!EventsOf(s),
             Bridge!InOrder(s)
               => Bridge!InOrder(t), t.joined = s.joined, t.dropped = s.dropped, t.pc = s.pc,
             t.known /\ t.sending => s.known /\ s.sending /\ Bridge!EventsOf(t) = Bridge!EventsOf(s)
      PROVE  BridgeIInv'
  <2>1. Sound(t, Bridge!Forwarded, bridge.alive) BY <1>2, <1>4, <1>5, SoundKept
  <2> QED BY <1>1, <1>3, <1>5, <2>1, OneConnection
<1>6. CASE s.queue # <<>> /\ s.up
  <2>1. conn' = [conn EXCEPT ![c] = BridgeWritten(s)]
    BY <1>6 DEF Bridge!Write, BridgeWritten, BridgeIInv, Bridge!TypeOK
  <2>2. /\ BridgeFits(BridgeWritten(s)) /\ Bridge!EventsOf(BridgeWritten(s)) = Bridge!EventsOf(s)
        /\ Bridge!InOrder(s) => Bridge!InOrder(BridgeWritten(s))
        /\ BridgeWritten(s).pc = s.pc /\ BridgeWritten(s).known = s.known
             /\ BridgeWritten(s).sending = s.sending
        /\ BridgeWritten(s).joined = s.joined /\ BridgeWritten(s).dropped = s.dropped
    BY <1>2, <1>6, BridgeWriteKeeps
  <2> QED BY <1>5, <2>1, <2>2
<1>7. CASE s.queue # <<>> /\ ~s.up
  <2> DEFINE t == [s EXCEPT !.sending = FALSE, !.queue = <<>>]
  <2>1. conn' = [conn EXCEPT ![c] = t] BY <1>7 DEF Bridge!Write, BridgeIInv, Bridge!TypeOK
  <2>2. Len(<<>>) <= Buffer /\ <<>> \in Seq(Bridge!Frames) BY DEF Bridge!RealtimeAssumption
  <2>3. /\ BridgeFits(t) /\ t.queue = <<>> /\ t.got = s.got /\ t.pc = s.pc /\ ~t.sending
        /\ t.joined = s.joined /\ t.dropped = s.dropped
    BY <1>2, <2>2 DEF BridgeFits, Bridge!ConnState
  <2> HIDE DEF t
  <2>4. Bridge!EventsOf(t) \subseteq Bridge!EventsOf(s) /\ (Bridge!InOrder(s) => Bridge!InOrder(t))
    BY <1>2, <2>3, Emptied
  <2> QED BY <1>5, <2>1, <2>3, <2>4
<1>8. CASE s.queue = <<>> /\ ~s.known
  <2> DEFINE t == [s EXCEPT !.sending = FALSE]
  <2>1. conn' = [conn EXCEPT ![c] = t] BY <1>8 DEF Bridge!Write, BridgeIInv, Bridge!TypeOK
  <2>2. /\ BridgeFits(t) /\ t.queue = s.queue /\ t.got = s.got /\ t.pc = s.pc /\ ~t.sending
        /\ t.joined = s.joined /\ t.dropped = s.dropped
    BY <1>2 DEF BridgeFits, Bridge!ConnState
  <2>3. Bridge!EventsOf(t) \subseteq Bridge!EventsOf(s) /\ (Bridge!InOrder(s) => Bridge!InOrder(t))
    BY <2>2 DEF Bridge!EventsOf, Bridge!InOrder
  <2> QED BY <1>5, <2>1, <2>2, <2>3
<1> QED BY <1>6, <1>7, <1>8 DEF Bridge!Write

\* The network, the token and the heartbeat touch no queue.
LEMMA QuietKeeps ==
  ASSUME Bridge!RealtimeAssumption, BridgeIInv,
           NEW c \in Conns, Bridge!SocketDown(c) \/ Bridge!TokenLost(c) \/ Bridge!Pong(c)
    PROVE BridgeIInv'
<1> DEFINE s == conn[c]
<1>1. /\ BridgeFits(s) /\ Sound(s, Bridge!Forwarded, bridge.alive) /\ bridge.alive \in BOOLEAN
           /\ Bridge!Forwarded \in Nat
  BY BridgeFacts DEF Bridge!RealtimeAssumption
<1>2. UNCHANGED <<published, bridge, heart, ticks>>
  BY DEF Bridge!SocketDown, Bridge!TokenLost, Bridge!Pong
<1>3. talk' \in 0 .. MaxTalk
  BY DEF Bridge!SocketDown, Bridge!TokenLost, Bridge!Pong, Bridge!Talk, BridgeIInv, Bridge!TypeOK,
     Bridge!RealtimeAssumption
<1>4. PICK t : /\ conn' = [conn EXCEPT ![c] = t] /\ BridgeFits(t) /\ t.queue = s.queue /\ t.got = s.got
               /\ t.pc = s.pc /\ t.known = s.known /\ t.sending = s.sending
               /\ t.joined = s.joined /\ t.dropped = s.dropped
  <2>1. CASE Bridge!SocketDown(c)
    <3> DEFINE t == [s EXCEPT !.up = FALSE]
    <3>1. conn' = [conn EXCEPT ![c] = t] BY <2>1 DEF Bridge!SocketDown, BridgeIInv, Bridge!TypeOK
    <3>2. /\ BridgeFits(t) /\ t.queue = s.queue /\ t.got = s.got
          /\ t.pc = s.pc /\ t.known = s.known /\ t.sending = s.sending
          /\ t.joined = s.joined /\ t.dropped = s.dropped
      BY <1>1 DEF BridgeFits, Bridge!ConnState
    <3> QED BY <3>1, <3>2
  <2>2. CASE Bridge!TokenLost(c)
    <3> DEFINE t == [s EXCEPT !.valid = FALSE]
    <3>1. conn' = [conn EXCEPT ![c] = t] BY <2>2 DEF Bridge!TokenLost, BridgeIInv, Bridge!TypeOK
    <3>2. /\ BridgeFits(t) /\ t.queue = s.queue /\ t.got = s.got
          /\ t.pc = s.pc /\ t.known = s.known /\ t.sending = s.sending
          /\ t.joined = s.joined /\ t.dropped = s.dropped
      BY <1>1 DEF BridgeFits, Bridge!ConnState
    <3> QED BY <3>1, <3>2
  <2>3. CASE Bridge!Pong(c)
    <3> DEFINE t == [s EXCEPT !.silent = IF s.known THEN 0 ELSE s.silent]
    <3>1. conn' = [conn EXCEPT ![c] = t] BY <2>3 DEF Bridge!Pong, BridgeIInv, Bridge!TypeOK
    <3>2. /\ BridgeFits(t) /\ t.queue = s.queue /\ t.got = s.got
          /\ t.pc = s.pc /\ t.known = s.known /\ t.sending = s.sending
          /\ t.joined = s.joined /\ t.dropped = s.dropped
      BY SMTT(30), <1>1 DEF BridgeFits, Bridge!ConnState
    <3> QED BY <3>1, <3>2
  <2> QED BY <2>1, <2>2, <2>3
<1>5. Bridge!EventsOf(t) = Bridge!EventsOf(s) /\ (Bridge!InOrder(s) => Bridge!InOrder(t))
  BY <1>4 DEF Bridge!EventsOf, Bridge!InOrder
<1>6. Sound(t, Bridge!Forwarded, bridge.alive) BY <1>1, <1>4, <1>5, SoundKept
<1> QED BY <1>2, <1>3, <1>4, <1>6, OneConnection

\* A frame that is no event is put, or there is no room for it.
LEMMA AskedFacts ==
  ASSUME Bridge!RealtimeAssumption, NEW s, BridgeFits(s),
           NEW k \in {"ping", "reply", "expired", "close"}
  PROVE  /\ BridgeFits(Bridge!Put(s, <<k, 0>>))
              /\ Bridge!EventsOf(Bridge!Put(s, <<k, 0>>)) = Bridge!EventsOf(s)
         /\ Bridge!InOrder(s) => Bridge!InOrder(Bridge!Put(s, <<k, 0>>))
         /\ Bridge!Put(s, <<k, 0>>).pc = s.pc /\ Bridge!Put(s, <<k, 0>>).known = s.known
         /\ Bridge!Put(s, <<k, 0>>).sending = s.sending /\ Bridge!Put(s, <<k, 0>>).joined = s.joined
         /\ Bridge!Put(s, <<k, 0>>).dropped = s.dropped /\ Bridge!Put(s, <<k, 0>>).silent = s.silent
<1> DEFINE t == Bridge!Put(s, <<k, 0>>)
<1>1. /\ BridgeFits(t) /\ Bridge!EventsOf(t) = Bridge!EventsOf(s) /\ (Bridge!InOrder(s)
           => Bridge!InOrder(t))
      /\ t = [s EXCEPT !.queue = t.queue]
  BY FramePutKeeps
<1> HIDE DEF t
<1>2. /\ t.pc = s.pc /\ t.known = s.known /\ t.sending = s.sending /\ t.joined = s.joined
      /\ t.dropped = s.dropped /\ t.silent = s.silent
  BY <1>1 DEF BridgeFits, Bridge!ConnState
<1> QED BY <1>1, <1>2 DEF t

\* What is left of a connection that is closed.
LEMMA ForgotFacts ==
  ASSUME NEW s, BridgeFits(s)
  PROVE  /\ BridgeFits(Bridge!Forget(s)) /\ Bridge!EventsOf(Bridge!Forget(s)) = Bridge!EventsOf(s)
              /\ (Bridge!InOrder(s) => Bridge!InOrder(Bridge!Forget(s)))
         /\ Bridge!Forget(s).pc = s.pc /\ ~Bridge!Forget(s).known
         /\ Bridge!Forget(s).joined = s.joined /\ Bridge!Forget(s).dropped = s.dropped
<1> DEFINE t == Bridge!Forget(s)
<1>1. /\ BridgeFits(t) /\ t.queue = s.queue /\ t.got = s.got /\ t.pc = s.pc /\ ~t.known
      /\ t.joined = s.joined /\ t.dropped = s.dropped
  BY DEF Bridge!Forget, BridgeFits, Bridge!ConnState
<1> HIDE DEF t
<1>2. Bridge!EventsOf(t) = Bridge!EventsOf(s) /\ (Bridge!InOrder(s) => Bridge!InOrder(t))
  BY <1>1 DEF Bridge!EventsOf, Bridge!InOrder
<1> QED BY <1>1, <1>2 DEF t

\* A message of the client keeps the connections sound.
LEMMA BridgeAskKeeps == ASSUME Bridge!RealtimeAssumption, BridgeIInv, NEW c \in Conns, Bridge!Ask(c)
  PROVE BridgeIInv'
<1> DEFINE s == conn[c]
           t == IF ~s.known THEN s ELSE IF ~s.sending THEN Bridge!Forget(s) ELSE Bridge!Put(s, <<"reply", 0>>)
<1>1. /\ BridgeFits(s) /\ Sound(s, Bridge!Forwarded, bridge.alive) /\ bridge.alive \in BOOLEAN
           /\ Bridge!Forwarded \in Nat
  BY BridgeFacts DEF Bridge!RealtimeAssumption
<1>2. /\ s.pc = "live" /\ UNCHANGED <<published, bridge, heart, ticks>>
           /\ conn' = [conn EXCEPT ![c] = t]
  BY DEF Bridge!Ask, BridgeIInv, Bridge!TypeOK
<1>3. talk' \in 0 .. MaxTalk
  BY DEF Bridge!Ask, Bridge!Talk, BridgeIInv, Bridge!TypeOK, Bridge!RealtimeAssumption
<1>4. BridgeFits(t) /\ Sound(t, Bridge!Forwarded, bridge.alive)
  <2>1. CASE ~s.known BY <1>1, <2>1
  <2>2. CASE s.known /\ ~s.sending
    <3>1. t = Bridge!Forget(s) BY <2>2
    <3> HIDE DEF t
    <3> QED BY <1>1, <1>2, <3>1, ForgotFacts, SoundKept
  <2>3. CASE s.known /\ s.sending
    <3>1. t = Bridge!Put(s, <<"reply", 0>>) BY <2>3
    <3>2. /\ BridgeFits(t) /\ Bridge!EventsOf(t) = Bridge!EventsOf(s) /\ (Bridge!InOrder(s)
               => Bridge!InOrder(t))
          /\ t.pc = s.pc /\ t.joined = s.joined /\ t.dropped = s.dropped
      BY <1>1, <3>1, AskedFacts
    <3> HIDE DEF t
    <3> QED BY <1>1, <1>2, <2>3, <3>2, SoundKept
  <2> QED BY <2>1, <2>2, <2>3
<1> HIDE DEF t
<1> QED BY <1>2, <1>3, <1>4, OneConnection

\* A client that hangs up keeps the connections sound.
LEMMA HangupKeeps == ASSUME Bridge!RealtimeAssumption, BridgeIInv, NEW c \in Conns, Bridge!Hangup(c)
  PROVE BridgeIInv'
<1> DEFINE s == conn[c]
           t == [Bridge!Forget(s) EXCEPT !.pc = "gone", !.sending = FALSE, !.queue = <<>>]
<1>1. /\ BridgeFits(s) /\ Sound(s, Bridge!Forwarded, bridge.alive) /\ bridge.alive \in BOOLEAN
           /\ Bridge!Forwarded \in Nat
  BY BridgeFacts DEF Bridge!RealtimeAssumption
<1>2. UNCHANGED <<published, bridge, heart, ticks, talk>> /\ conn' = [conn EXCEPT ![c] = t]
  BY DEF Bridge!Hangup, BridgeIInv, Bridge!TypeOK
<1>3. talk' \in 0 .. MaxTalk BY <1>2 DEF BridgeIInv, Bridge!TypeOK
<1>4. Len(<<>>) <= Buffer /\ <<>> \in Seq(Bridge!Frames) BY DEF Bridge!RealtimeAssumption
<1>5. /\ BridgeFits(t) /\ t.queue = <<>> /\ t.got = s.got /\ t.pc = "gone" /\ ~t.sending
      /\ t.joined = s.joined /\ t.dropped = s.dropped
  BY <1>1, <1>4 DEF BridgeFits, Bridge!ConnState, Bridge!Forget
<1> HIDE DEF t
<1>6. Bridge!EventsOf(t) \subseteq Bridge!EventsOf(s) /\ (Bridge!InOrder(s) => Bridge!InOrder(t))
  BY <1>1, <1>5, Emptied
<1>7. Sound(t, Bridge!Forwarded, bridge.alive) BY <1>1, <1>5, <1>6, SoundKept
<1> QED BY <1>2, <1>3, <1>5, <1>7, OneConnection

\* A step of all connections at once.
LEMMA AllConnections ==
  ASSUME Bridge!RealtimeAssumption, BridgeIInv, conn' \in [Conns -> Bridge!ConnState],
         \A c \in Conns : BridgeFits(conn'[c]) /\ Sound(conn'[c], Bridge!Forwarded', bridge.alive'),
         published' \in 0 .. MaxPublished, bridge' \in [next : 1 .. MaxPublished + 1, alive : BOOLEAN],
         heart' \in BOOLEAN, ticks' \in 0 .. MaxTicks, talk' \in 0 .. MaxTalk
  PROVE  BridgeIInv'
<1>1. \A c \in Conns : Len(conn'[c].queue) <= Buffer BY DEF BridgeFits
<1>2. Bridge!TypeOK' BY <1>1 DEF Bridge!TypeOK
<1>3. (\A c \in Conns : Sound(conn[c], Bridge!Forwarded, bridge.alive))'
  BY DEF Sound, Bridge!EventsOf, Bridge!Waiting, Bridge!InOrder, Bridge!ToSet
<1> QED BY <1>2, <1>3 DEF BridgeIInv

\* What a heartbeat makes of one connection.
LEMMA BeatFacts ==
  ASSUME Bridge!RealtimeAssumption, NEW s, BridgeFits(s), NEW n \in Nat,
           NEW alive \in BOOLEAN, Sound(s, n, alive)
  PROVE  BridgeFits(Bridge!Beat(s)) /\ Sound(Bridge!Beat(s), n, alive)
<1> DEFINE Keeps(t) ==
             /\ BridgeFits(t) /\ Bridge!EventsOf(t) = Bridge!EventsOf(s) /\ (Bridge!InOrder(s)
                  => Bridge!InOrder(t)) /\ t.pc = s.pc
             /\ t.joined = s.joined /\ t.dropped = s.dropped
             /\ t.known => s.known /\ t.sending = s.sending
<1>1. CASE ~s.known BY <1>1 DEF Bridge!Beat
<1>2. CASE s.known
  <2>1. s.pc # "new" BY <1>2 DEF Sound
  <2>2. Keeps(s) BY <1>2
  <2>3. ASSUME NEW t, Keeps(t) PROVE Keeps(Bridge!Forget(t)) BY <2>3, ForgotFacts
  <2>4. ASSUME NEW t, Keeps(t), NEW k \in {"ping", "reply", "expired", "close"}
        PROVE  Keeps(Bridge!Put(t, <<k, 0>>)) /\ Bridge!Put(t, <<k, 0>>).silent = t.silent
    BY <2>4, AskedFacts
  <2>5. ASSUME NEW t, Keeps(t), t.silent \in 0 .. 1
        PROVE  Keeps([t EXCEPT !.silent = @ + 1])
    <3> DEFINE u == [t EXCEPT !.silent = @ + 1]
    <3>1. BridgeFits(t) BY <2>5
    <3>2. /\ BridgeFits(u) /\ u.queue = t.queue /\ u.got = t.got /\ u.pc = t.pc /\ u.known = t.known
          /\ u.sending = t.sending /\ u.joined = t.joined /\ u.dropped = t.dropped
      <4>1. t.silent + 1 \in 0 .. 2 BY <2>5
      <4> QED BY <3>1, <4>1 DEF BridgeFits, Bridge!ConnState
    <3> HIDE DEF u
    <3>3. Bridge!EventsOf(u) = Bridge!EventsOf(t) /\ (Bridge!InOrder(t) => Bridge!InOrder(u))
      BY <3>2 DEF Bridge!EventsOf, Bridge!InOrder
    <3>4. Keeps(u) BY <2>5, <3>2, <3>3
    <3> QED BY <3>4 DEF u
  <2>6. s.silent \in 0 .. 2 BY DEF BridgeFits, Bridge!ConnState
  <2>7. Keeps(Bridge!Beat(s))
    <3>1. CASE s.silent = 2
      <4>1. Bridge!Beat(s) = Bridge!Forget(IF s.sending THEN Bridge!Put(s, <<"close", 0>>) ELSE s)
        BY <1>2, <3>1 DEF Bridge!Beat
      <4> HIDE DEF Keeps
      <4> QED BY <2>2, <2>3, <2>4, <4>1
    <3>2. CASE s.silent # 2 /\ ~s.valid
      <4>1. Bridge!Beat(s)
              = Bridge!Forget(IF s.sending THEN Bridge!Put(Bridge!Put(s, <<"expired", 0>>), <<"close", 0>>) ELSE s)
        BY <1>2, <3>2 DEF Bridge!Beat
      <4> HIDE DEF Keeps
      <4> QED BY <2>2, <2>3, <2>4, <4>1
    <3>3. CASE s.silent # 2 /\ s.valid /\ ~s.sending
      <4>1. Bridge!Beat(s) = Bridge!Forget([s EXCEPT !.silent = @ + 1]) BY <1>2, <3>3 DEF Bridge!Beat
      <4>2. s.silent \in 0 .. 1 BY <2>6, <3>3
      <4> HIDE DEF Keeps
      <4> QED BY <2>2, <2>3, <2>5, <4>1, <4>2
    <3>4. CASE s.silent # 2 /\ s.valid /\ s.sending
      <4>1. Bridge!Beat(s) = [Bridge!Put(s, <<"ping", 0>>) EXCEPT !.silent = @ + 1]
        BY <1>2, <3>4 DEF Bridge!Beat
      <4>2. s.silent \in 0 .. 1 BY <2>6, <3>4
      <4>3. Keeps(Bridge!Put(s, <<"ping", 0>>)) /\ Bridge!Put(s, <<"ping", 0>>).silent \in 0 .. 1
        BY <2>2, <2>4, <4>2
      <4> HIDE DEF Keeps
      <4> QED BY <2>5, <4>1, <4>3
    <3> QED BY <3>1, <3>2, <3>3, <3>4
  <2> QED BY <1>2, <2>1, <2>7, SoundKept
<1> QED BY <1>1, <1>2

\* A heartbeat keeps the connections sound.
LEMMA TickKeeps == ASSUME Bridge!RealtimeAssumption, BridgeIInv, Bridge!Tick PROVE BridgeIInv'
<1>1. /\ ticks < MaxTicks /\ ticks' = ticks + 1 /\ UNCHANGED <<published, bridge, heart, talk>>
      /\ conn' = [c \in Conns |-> Bridge!Beat(conn[c])]
  BY DEF Bridge!Tick
<1>2. \A c \in Conns : BridgeFits(Bridge!Beat(conn[c]))
        /\ Sound(Bridge!Beat(conn[c]), Bridge!Forwarded, bridge.alive)
  BY BridgeFacts, BeatFacts DEF Bridge!RealtimeAssumption
<1>3. Bridge!Forwarded' = Bridge!Forwarded /\ bridge.alive' = bridge.alive BY <1>1 DEF Bridge!Forwarded
<1>4. conn' \in [Conns -> Bridge!ConnState] BY <1>1, <1>2 DEF BridgeFits
<1>5. \A c \in Conns : BridgeFits(conn'[c]) /\ Sound(conn'[c], Bridge!Forwarded', bridge.alive')
  BY <1>1, <1>2, <1>3
<1>6. /\ published' \in 0 .. MaxPublished /\ bridge' \in [next : 1 .. MaxPublished + 1, alive : BOOLEAN]
      /\ heart' \in BOOLEAN /\ ticks' \in 0 .. MaxTicks /\ talk' \in 0 .. MaxTalk
  BY <1>1 DEF BridgeIInv, Bridge!TypeOK, Bridge!RealtimeAssumption
<1> QED BY <1>4, <1>5, <1>6, AllConnections

\* An event that is published keeps the connections sound.
LEMMA PublishKeeps == ASSUME Bridge!RealtimeAssumption, BridgeIInv, Bridge!Publish PROVE BridgeIInv'
<1>1. /\ published < MaxPublished /\ published' = published + 1
      /\ UNCHANGED <<bridge, conn, heart, ticks, talk>>
  BY DEF Bridge!Publish
<1>2. Bridge!Forwarded' = Bridge!Forwarded /\ bridge.alive' = bridge.alive BY <1>1 DEF Bridge!Forwarded
<1>3. \A c \in Conns : BridgeFits(conn'[c]) /\ Sound(conn'[c], Bridge!Forwarded', bridge.alive')
  BY <1>1, <1>2, BridgeFacts
<1>4. /\ published' \in 0 .. MaxPublished /\ bridge' \in [next : 1 .. MaxPublished + 1, alive : BOOLEAN]
      /\ heart' \in BOOLEAN /\ ticks' \in 0 .. MaxTicks /\ talk' \in 0 .. MaxTalk
      /\ conn' \in [Conns -> Bridge!ConnState]
  BY <1>1 DEF BridgeIInv, Bridge!TypeOK, Bridge!RealtimeAssumption
<1> QED BY <1>3, <1>4, AllConnections

\* The bridge ends: what the clients have is what they will have.
LEMMA LagKeeps == ASSUME Bridge!RealtimeAssumption, BridgeIInv, Bridge!Lag PROVE BridgeIInv'
<1>1. /\ published - Bridge!Forwarded > BusSize
      /\ bridge' = [next |-> published - BusSize + 1, alive |-> FALSE]
      /\ UNCHANGED <<published, conn, heart, ticks, talk>>
  BY DEF Bridge!Lag
<1>2. /\ published \in Nat /\ published <= MaxPublished /\ MaxPublished \in Nat /\ BusSize \in Nat
      /\ Bridge!Forwarded \in Nat
  BY BridgeFacts DEF BridgeIInv, Bridge!TypeOK, Bridge!RealtimeAssumption
<1>3. /\ published - BusSize + 1 \in 1 .. MaxPublished + 1
      /\ Bridge!Forwarded' = published - BusSize /\ ~bridge.alive'
  BY <1>1, <1>2 DEF Bridge!Forwarded
<1>4. Bridge!Forwarded <= Bridge!Forwarded' /\ Bridge!Forwarded' \in Nat BY <1>1, <1>2, <1>3
<1>5. ASSUME NEW c \in Conns
  PROVE BridgeFits(conn'[c]) /\ Sound(conn'[c], Bridge!Forwarded', bridge.alive')
  <2>1. BridgeFits(conn[c]) /\ Sound(conn[c], Bridge!Forwarded, bridge.alive) BY BridgeFacts
  <2>2. Sound(conn[c], Bridge!Forwarded', bridge.alive') BY <1>2, <1>3, <1>4, <2>1 DEF Sound
  <2> QED BY <1>1, <2>1, <2>2
<1>6. /\ published' \in 0 .. MaxPublished /\ bridge' \in [next : 1 .. MaxPublished + 1, alive : BOOLEAN]
      /\ heart' \in BOOLEAN /\ ticks' \in 0 .. MaxTicks /\ talk' \in 0 .. MaxTalk
      /\ conn' \in [Conns -> Bridge!ConnState]
  BY <1>1, <1>3 DEF BridgeIInv, Bridge!TypeOK
<1> QED BY <1>5, <1>6, AllConnections

\* An event goes to every queue that has room for it, and the others count it.
LEMMA ForwardKeeps == ASSUME Bridge!RealtimeAssumption, BridgeIInv, Bridge!Forward PROVE BridgeIInv'
<1> DEFINE n == bridge.next
           skips(s) == [s EXCEPT !.dropped = @ \cup {n}]
           t(s) == IF ~s.known THEN s ELSE IF ~s.sending THEN Bridge!Forget(s)
                   ELSE IF Bridge!HasRoom(s) THEN Bridge!Put(s, <<"event", n>>) ELSE skips(s)
<1>1. /\ bridge.alive /\ n <= published /\ bridge' = [bridge EXCEPT !.next = n + 1]
      /\ conn' = [c \in Conns |-> t(conn[c])]
      /\ UNCHANGED <<published, heart, ticks, talk>>
  BY DEF Bridge!Forward
<1>2. /\ published \in Nat /\ published <= MaxPublished /\ MaxPublished \in Nat
      /\ Bridge!Forwarded \in Nat /\ n = Bridge!Forwarded + 1 /\ n \in Nat
  BY BridgeFacts DEF BridgeIInv, Bridge!TypeOK, Bridge!RealtimeAssumption, Bridge!Forwarded
<1>3. n \in Bridge!Events /\ n + 1 \in 1 .. MaxPublished + 1 BY <1>1, <1>2 DEF Bridge!Events
<1>4. bridge' \in [next : 1 .. MaxPublished + 1, alive : BOOLEAN] /\ bridge'.next = n + 1
      /\ bridge'.alive = bridge.alive
  BY <1>1, <1>3 DEF BridgeIInv, Bridge!TypeOK
<1>5. Bridge!Forwarded' = n /\ bridge.alive' BY <1>1, <1>2, <1>4 DEF Bridge!Forwarded
<1>6. ASSUME NEW s, BridgeFits(s), Sound(s, Bridge!Forwarded, TRUE)
      PROVE  BridgeFits(t(s)) /\ Sound(t(s), n, TRUE)
  <2>1. /\ Bridge!EventsOf(s) \subseteq 1 .. n - 1 /\ s.dropped \subseteq 1 .. n - 1
             /\ s.joined \in 0 .. n - 1
        /\ Bridge!InOrder(s) /\ (s.known /\ s.sending
             => Bridge!EventsOf(s) = (s.joined + 1 .. n - 1) \ s.dropped)
        /\ (s.pc = "new" => ~s.known /\ ~s.sending /\ s.queue = <<>> /\ s.got = <<>> /\ s.dropped = {})
    BY <1>2, <1>6 DEF Sound
  <2>2. CASE ~(s.known /\ s.sending)
    <3>1. t(s) = s \/ (s.known /\ t(s) = Bridge!Forget(s)) BY <2>2
    <3>2. /\ BridgeFits(t(s)) /\ Bridge!EventsOf(t(s)) = Bridge!EventsOf(s) /\ Bridge!InOrder(t(s))
          /\ t(s).joined = s.joined /\ t(s).dropped = s.dropped /\ ~(t(s).known /\ t(s).sending)
          /\ t(s).pc = "new" => t(s) = s
      BY <1>6, <2>1, <2>2, <3>1, ForgotFacts
    <3> HIDE DEF t
    <3>3. 1 .. n - 1 \subseteq 1 .. n /\ 0 .. n - 1 \subseteq 0 .. n BY <1>2
    <3> QED BY <2>1, <3>2, <3>3 DEF Sound
  <2>3. CASE s.known /\ s.sending /\ Bridge!HasRoom(s)
    <3> DEFINE u == Bridge!Put(s, <<"event", n>>)
    <3>1. t(s) = u BY <2>3
    <3>2. /\ BridgeFits(u) /\ Bridge!EventsOf(u) = Bridge!EventsOf(s) \cup {n} /\ Bridge!InOrder(u)
               /\ u = [s EXCEPT !.queue = u.queue]
      BY <1>3, <1>6, <2>1, <2>3, PutEvent
    <3> HIDE DEF u, t
    <3>3. u.pc = s.pc /\ u.joined = s.joined /\ u.dropped = s.dropped
      BY <1>6, <3>2 DEF BridgeFits, Bridge!ConnState
    <3>4. Bridge!EventsOf(u) = (s.joined + 1 .. n) \ s.dropped
      <4>1. n \notin s.dropped /\ s.joined + 1 .. n = (s.joined + 1 .. n - 1) \cup {n} BY <1>2, <2>1
      <4> QED BY <2>1, <2>3, <3>2, <4>1
    <3>5. Bridge!EventsOf(u) \subseteq 1 .. n /\ u.dropped \subseteq 1 .. n /\ u.joined \in 0 .. n
      BY <1>2, <2>1, <3>2, <3>3
    <3> QED BY <2>1, <2>3, <3>1, <3>2, <3>3, <3>4, <3>5 DEF Sound
  <2>4. CASE s.known /\ s.sending /\ ~Bridge!HasRoom(s)
    <3> DEFINE u == skips(s)
    <3>1. t(s) = u BY <2>4
    <3>2. /\ BridgeFits(u) /\ u.queue = s.queue /\ u.got = s.got /\ u.pc = s.pc /\ u.joined = s.joined
          /\ u.dropped = s.dropped \cup {n}
      BY <1>3, <1>6 DEF BridgeFits, Bridge!ConnState
    <3> HIDE DEF u, t
    <3>3. Bridge!EventsOf(u) = Bridge!EventsOf(s) /\ (Bridge!InOrder(s) => Bridge!InOrder(u))
      BY <3>2 DEF Bridge!EventsOf, Bridge!InOrder
    <3>4. Bridge!EventsOf(u) = (s.joined + 1 .. n) \ u.dropped
      <4>1. s.joined + 1 .. n = (s.joined + 1 .. n - 1) \cup {n} /\ n \notin s.joined + 1 .. n - 1
        BY <1>2, <2>1
      <4> QED BY <2>1, <2>4, <3>2, <3>3, <4>1
    <3>5. Bridge!EventsOf(u) \subseteq 1 .. n /\ u.dropped \subseteq 1 .. n /\ u.joined \in 0 .. n
      BY <1>2, <2>1, <3>2, <3>3
    <3> QED BY <2>1, <2>4, <3>1, <3>2, <3>3, <3>4, <3>5 DEF Sound
  <2> QED BY <2>2, <2>3, <2>4
<1> HIDE DEF t
<1>7. \A c \in Conns : BridgeFits(t(conn[c])) /\ Sound(t(conn[c]), n, TRUE)
  <2>1. bridge.alive = TRUE BY <1>1, BridgeFacts
  <2> QED BY <1>6, <2>1, BridgeFacts
<1>8. conn' \in [Conns -> Bridge!ConnState] BY <1>1, <1>7 DEF BridgeFits
<1>9. bridge'.alive = TRUE BY <1>1, <1>4, BridgeFacts
<1>10. \A c \in Conns : BridgeFits(conn'[c]) /\ Sound(conn'[c], Bridge!Forwarded', bridge.alive')
  BY <1>1, <1>5, <1>7, <1>9
<1>11. /\ published' \in 0 .. MaxPublished /\ heart' \in BOOLEAN /\ ticks' \in 0 .. MaxTicks
       /\ talk' \in 0 .. MaxTalk
  BY <1>1 DEF BridgeIInv, Bridge!TypeOK
<1> QED BY <1>4, <1>8, <1>10, <1>11, AllConnections

\* Every step of the bridge keeps the invariant.
LEMMA BridgeInductive == ASSUME Bridge!RealtimeAssumption, BridgeIInv, [Bridge!Next]_(Bridge!vars)
  PROVE BridgeIInv'
<1>1. CASE UNCHANGED Bridge!vars
  BY <1>1 DEF Bridge!vars, BridgeIInv, Bridge!TypeOK, Sound, Bridge!EventsOf, Bridge!Waiting,
     Bridge!InOrder, Bridge!ToSet, Bridge!Forwarded
<1>2. CASE Bridge!Publish \/ Bridge!Lag \/ Bridge!Forward \/ Bridge!Tick
  BY <1>2, PublishKeeps, LagKeeps, ForwardKeeps, TickKeeps
<1>3. ASSUME NEW c \in Conns,
             \/ Bridge!Accept(c) \/ Bridge!Write(c) \/ Bridge!SocketDown(c) \/ Bridge!TokenLost(c)
             \/ Bridge!Pong(c) \/ Bridge!Ask(c) \/ Bridge!Hangup(c)
      PROVE  BridgeIInv'
  BY <1>3, AcceptKeeps, SocketKeeps, QuietKeeps, BridgeAskKeeps, HangupKeeps
<1> QED BY <1>1, <1>2, <1>3 DEF Bridge!Next

\* The bridge by itself loses only to full queues.
LEMMA Loss == ASSUME Bridge!RealtimeAssumption
  PROVE Bridge!Spec => [](Bridge!TypeOK /\ Bridge!LossIsFullQueue)
<1>1. BridgeIInv => Bridge!TypeOK /\ Bridge!LossIsFullQueue
  BY DEF BridgeIInv, Sound, Bridge!LossIsFullQueue
<1> QED BY <1>1, BridgeInitial, BridgeInductive, PTL DEF Bridge!Spec

\* The group implements the service.
LEMMA BridgeImplemented == AccessSpec => Bridge!Spec
<1>1. AccessInit => Bridge!Init BY DEF AccessInit
<1>2. [AccessNext]_accessVars => [Bridge!Next]_(Bridge!vars)
  BY DEF AccessNext, accessVars, bridgeVars, Bridge!vars
<1> QED BY <1>1, <1>2, PTL DEF AccessSpec, Bridge!Spec

\* For any number of connections and events, and queues of any size: between
\* the bridge and a client, events are lost only to its full queue, and the
\* others arrive once and in order (aionui-realtime: manager.rs, handler.rs).
THEOREM OnlyFullQueuesLose == ASSUME AccessAssumption PROVE AccessSpec => []LossIsFullQueue
<1>1. Bridge!RealtimeAssumption BY DEF AccessAssumption
<1>2. Bridge!Spec => [](Bridge!TypeOK /\ Bridge!LossIsFullQueue)
  BY <1>1, Loss
<1>3. Bridge!LossIsFullQueue => LossIsFullQueue BY DEF LossIsFullQueue
<1> QED BY <1>2, <1>3, BridgeImplemented, PTL

-----------------------------------------------------------------------------
(* The accounts: Accounts.                                                 *)

\* What a request carries fits where it is.
RequestsFit ==
  \A c \in Pair : accountCall[c] # Nil =>
    /\ accountCall[c].pc = "blacklist" => accountCall[c].token \in DOMAIN token
    /\ accountCall[c].pc \in {"write", "rotate", "persist"} => accountCall[c].kind = "change"
    /\ accountCall[c].pc = "persist" => accountCall[c].secret \in 1 .. secrets

\* Nothing of a run outlives it but what is stored.
AccountDownIsEmpty ==
  ~accountUp => (\A c \in Pair : accountCall[c] = Nil) /\ \A t \in DOMAIN token : ~token[t].out

\* Secrets are those generated or told.
SecretsMinted ==
  stored \in [Users -> 0 .. secrets] /\ \A t \in DOMAIN token : token[t].secret <= secrets

\* A token logged out is in the blacklist, or its secret was replaced.
OutIsOut ==
  accountUp => \A t \in DOMAIN token : token[t].out => t \in blacklist \/ token[t].secret # secret

\* Unless the row is astray, it has the secret in force, or the one change of
\* the system user that replaced it is about to store it.
Persists(c) == Account!At(c, "persist")
SecretFollows ==
  accountUp /\ ~env /\ ~astray =>
    /\ \A c \in Pair : Persists(c) =>
         /\ accountCall[c].user = System /\ accountCall[c].secret = secret
         /\ \A d \in Pair : Persists(d) => d = c
    /\ stored[System] = secret \/ \E c \in Pair : Persists(c)

AccountIInv ==
  Account!TypeOK /\ RequestsFit /\ AccountDownIsEmpty /\ SecretsMinted /\ OutIsOut
    /\ SecretFollows

\* At the start there is one secret, and no token.
LEMMA AccountInitial == ASSUME Account!AccountAssumption, Account!Init PROVE AccountIInv
<1>1. token = <<>> /\ DOMAIN token = {} /\ token \in Seq(Account!Token) /\ Len(token) = 0
  BY DEF Account!Init
<1>2. MaxSecrets \in Nat \ {0} /\ MaxTokens \in Nat /\ System \in Users BY DEF Account!AccountAssumption
<1>3. /\ secret = 1 /\ secrets = 1 /\ stored \in [Users -> 0 .. 1]
      /\ stored[System] = IF env THEN 0 ELSE 1
  BY <1>2 DEF Account!Init
<1>4. Account!TypeOK
  <2>1. /\ password \in [Users -> Nat] /\ stored \in [Users -> 0 .. MaxSecrets] /\ env \in BOOLEAN
        /\ secret \in 1 .. secrets /\ key \in 1 .. secrets /\ secrets \in Account!Secrets
    BY <1>2, <1>3 DEF Account!Init, Account!Secrets
  <2>2. token \in Seq(Account!Token) /\ Len(token) <= MaxTokens /\ blacklist \subseteq DOMAIN token
    BY <1>1, <1>2 DEF Account!Init
  <2>3. /\ qr \in [used : BOOLEAN, old : BOOLEAN] \cup {Nil} /\ provider \in Account!Secrets \cup {Nil}
        /\ accountCall \in [Pair -> Account!CallState \cup {Nil}]
        /\ accountUp \in BOOLEAN /\ accountUsed \in [Account!Kinds -> Nat] /\ astray \in BOOLEAN
    BY DEF Account!Init
  <2> QED BY <2>1, <2>2, <2>3 DEF Account!TypeOK
<1>5. RequestsFit /\ AccountDownIsEmpty /\ OutIsOut
  BY <1>1 DEF Account!Init, RequestsFit, AccountDownIsEmpty, OutIsOut
<1>6. SecretsMinted
  BY <1>1, <1>3 DEF SecretsMinted
<1>7. SecretFollows
  BY <1>3 DEF Account!Init, SecretFollows, Persists, Account!At
<1> QED BY <1>4, <1>5, <1>6, <1>7 DEF AccountIInv

\* The row follows as long as no request comes to store a secret, or goes.
LEMMA RowKept ==
  ASSUME SecretFollows, UNCHANGED <<accountUp, env, secret, stored, astray>>,
         \A c \in Pair : /\ Persists(c)' <=> Persists(c)
                         /\ Persists(c) => /\ accountCall'[c].user = accountCall[c].user
                                           /\ accountCall'[c].secret = accountCall[c].secret
  PROVE  SecretFollows'
<1> SUFFICES ASSUME accountUp, ~env, ~astray
    PROVE  /\ \A c \in Pair : Persists(c) =>
                /\ accountCall'[c].user = System /\ accountCall'[c].secret = secret
                /\ \A d \in Pair : Persists(d) => d = c
           /\ stored[System] = secret \/ \E c \in Pair : Persists(c)
  BY DEF SecretFollows
<1> QED BY DEF SecretFollows

\* The counts of events stay counts.
LEMMA AccountSpent == ASSUME Account!TypeOK, NEW kind \in Account!Kinds, Account!Spend(kind)
  PROVE accountUsed' \in [Account!Kinds -> Nat]
<1>1. accountUsed' = [accountUsed EXCEPT ![kind] = @ + 1] BY DEF Account!Spend
<1>2. accountUsed \in [Account!Kinds -> Nat] BY DEF Account!TypeOK
<1> QED BY <1>1, <1>2

\* A token has a user and a secret.
LEMMA TokenOf ==
  ASSUME Account!AccountAssumption, Account!TypeOK
  PROVE  /\ token \in Seq(Account!Token) /\ DOMAIN token = 1 .. Len(token)
         /\ \A t \in DOMAIN token : token[t].user \in Users /\ token[t].secret \in Nat
<1>1. token \in Seq(Account!Token) /\ DOMAIN token = 1 .. Len(token) BY LenProperties DEF Account!TypeOK
<1>2. \A t \in DOMAIN token : token[t] \in Account!Token BY <1>1, ElementOfSeq
<1>3. MaxSecrets \in Nat BY DEF Account!AccountAssumption
<1>4. \A x \in Account!Token : x.user \in Users /\ x.secret \in Nat
  BY <1>3 DEF Account!Token, Account!Secrets
<1> QED BY <1>1, <1>2, <1>4

\* A request that is begun: what it is and where it starts.
LEMMA AccountBegun ==
  ASSUME Account!AccountAssumption, AccountIInv, NEW c \in Pair,
           NEW kind \in {"login", "logout", "change"},
         NEW u \in Users, NEW t \in Account!Tokens \cup {0}, NEW right \in BOOLEAN,
         NEW step \in {"verify", "blacklist"}, step = "blacklist" => t \in DOMAIN token,
         Account!Request(c, kind, u, t, right, step),
         UNCHANGED <<Account!data, Account!memory, token, qr, provider, accountUp, astray>>
  PROVE  AccountIInv'
<1> USE DEF AccountIInv, Account!data, Account!memory
<1> DEFINE new == [kind |-> kind, user |-> u, seen |-> password[u], right |-> right,
                   token |-> t, secret |-> 0, pc |-> step]
<1>1. accountUp /\ accountCall[c] = Nil /\ accountCall' = [accountCall EXCEPT ![c] = new]
        /\ accountUsed' \in [Account!Kinds -> Nat]
  <2>1. /\ accountUp /\ accountCall[c] = Nil /\ accountCall' = [accountCall EXCEPT ![c] = new]
        /\ Account!Spend(kind)
    BY DEF Account!Request
  <2>2. kind \in Account!Kinds BY DEF Account!Kinds
  <2>3. accountUsed' \in [Account!Kinds -> Nat] BY <2>1, <2>2, AccountSpent
  <2> QED BY <2>1, <2>3
<1>2. new \in Account!CallState /\ Nil \notin Account!CallState
  BY DEF Account!CallState, Account!TypeOK, Account!Secrets, Account!AccountAssumption
<1>3. accountCall' \in [Pair -> Account!CallState \cup {Nil}]
  BY <1>1, <1>2 DEF Account!TypeOK
<1>4. \A d \in Pair : accountCall'[d] = IF d = c THEN new ELSE accountCall[d]
  BY <1>1 DEF Account!TypeOK
<1>5. new # Nil /\ new.kind = kind /\ new.user = u /\ new.token = t /\ new.pc = step
  BY <1>2
<1> HIDE DEF new
<1>6. Account!TypeOK' BY <1>1, <1>3 DEF Account!TypeOK
<1>7. RequestsFit' BY <1>4, <1>5 DEF RequestsFit
<1>8. AccountDownIsEmpty' /\ SecretsMinted' /\ OutIsOut'
  BY <1>1 DEF AccountDownIsEmpty, SecretsMinted, OutIsOut
<1>9. SecretFollows'
  <2>1. \A a \in Pair : /\ Persists(a)' <=> Persists(a)
                        /\ Persists(a) => /\ accountCall'[a].user = accountCall[a].user
                                          /\ accountCall'[a].secret = accountCall[a].secret
    BY <1>1, <1>4, <1>5 DEF Persists, Account!At
  <2> QED BY <2>1, RowKept
<1> QED BY <1>6, <1>7, <1>8, <1>9

\* A token that is signed carries the secret in force.
LEMMA Signed ==
  ASSUME Account!AccountAssumption, Account!TypeOK, NEW u \in Users, Account!Sign(u)
  PROVE  /\ token' \in Seq(Account!Token) /\ Len(token') <= MaxTokens
         /\ DOMAIN token \subseteq DOMAIN token'
         /\ \A t \in DOMAIN token : token'[t] = token[t]
         /\ \A t \in DOMAIN token' \ DOMAIN token : token'[t].secret = secret /\ ~token'[t].out
<1> DEFINE new == [user |-> u, secret |-> secret, old |-> FALSE, out |-> FALSE]
<1>1. token \in Seq(Account!Token) /\ Len(token) \in Nat /\ DOMAIN token = 1 .. Len(token)
  BY LenProperties DEF Account!TypeOK
<1>2. Len(token) < MaxTokens /\ token' = Append(token, new) BY DEF Account!Sign
<1>3. new \in Account!Token
  BY DEF Account!Token, Account!TypeOK, Account!Secrets, Account!AccountAssumption
<1>4. /\ token' \in Seq(Account!Token) /\ Len(token') = Len(token) + 1
           /\ DOMAIN token' = 1 .. Len(token')
      /\ \A t \in 1 .. Len(token) : token'[t] = token[t]
      /\ token'[Len(token) + 1] = new
  BY <1>1, <1>2, <1>3, AppendProperties, LenProperties
<1>5. DOMAIN token' \ DOMAIN token = {Len(token) + 1} BY <1>1, <1>4
<1>6. MaxTokens \in Nat BY DEF Account!AccountAssumption
<1> QED BY <1>1, <1>2, <1>4, <1>5, <1>6

\* A step after which no request stands where it did not, and which signs at
\* most one token.
LEMMA SignKeeps ==
  ASSUME Account!AccountAssumption, AccountIInv, accountUp,
         (\E u \in Users : Account!Sign(u)) \/ token' = token,
         accountCall' \in [Pair -> Account!CallState \cup {Nil}],
         \A c \in Pair : accountCall'[c] = accountCall[c] \/ (accountCall'[c] = Nil
           /\ ~Account!At(c, "persist")),
         UNCHANGED <<Account!data, Account!memory, accountUp, astray>>,
         qr' \in [used : BOOLEAN, old : BOOLEAN] \cup {Nil}, provider' \in Account!Secrets \cup {Nil},
         accountUsed' \in [Account!Kinds -> Nat]
  PROVE  AccountIInv'
<1> USE DEF AccountIInv, Account!data, Account!memory
<1>1. /\ token' \in Seq(Account!Token) /\ Len(token') <= MaxTokens
      /\ DOMAIN token \subseteq DOMAIN token'
      /\ \A t \in DOMAIN token : token'[t] = token[t]
      /\ \A t \in DOMAIN token' \ DOMAIN token : token'[t].secret = secret /\ ~token'[t].out
  BY Signed DEF Account!TypeOK
<1>2. Account!TypeOK' BY <1>1 DEF Account!TypeOK
<1>3. RequestsFit' BY <1>1 DEF RequestsFit
<1>4. AccountDownIsEmpty' BY DEF AccountDownIsEmpty
<1>5. SecretsMinted'
  <2>1. secret <= secrets BY DEF Account!TypeOK
  <2> QED BY <1>1, <2>1 DEF SecretsMinted
<1>6. OutIsOut' BY <1>1 DEF OutIsOut
<1>7. SecretFollows'
  <2>1. \A c \in Pair : /\ Persists(c)' <=> Persists(c)
                        /\ Persists(c) => /\ accountCall'[c].user = accountCall[c].user
                                          /\ accountCall'[c].secret = accountCall[c].secret
    BY DEF Persists, Account!At
  <2> QED BY <2>1, RowKept
<1> QED BY <1>2, <1>3, <1>4, <1>5, <1>6, <1>7

\* An invariant with a request in it: the server runs.
LEMMA Up == ASSUME AccountIInv, NEW c \in Pair, NEW step, Account!At(c, step)
  PROVE accountUp /\ accountCall[c] \in Account!CallState
BY DEF AccountIInv, AccountDownIsEmpty, Account!At, Account!TypeOK

\* The step of a request: its record moves on or goes, and the invariant's
\* part about requests holds if the record fits.
LEMMA Stepped ==
  ASSUME Account!AccountAssumption, AccountIInv, NEW c \in Pair, NEW from, Account!At(c, from),
         \/ accountCall' = [accountCall EXCEPT ![c] = Nil]
         \/ \E to \in {"write", "rotate"} : accountCall' = [accountCall EXCEPT ![c].pc = to]
           /\ accountCall[c].kind = "change",
         UNCHANGED <<secrets, token>>
  PROVE  /\ accountCall' \in [Pair -> Account!CallState \cup {Nil}]
         /\ RequestsFit'
         /\ \A d \in Pair : d # c => accountCall'[d] = accountCall[d]
         /\ ~Account!At(c, "persist")'
<1> USE DEF AccountIInv
<1>1. accountCall[c] # Nil /\ accountCall[c] \in Account!CallState /\ Nil \notin Account!CallState
  BY Up DEF Account!At, Account!AccountAssumption
<1>2. CASE accountCall' = [accountCall EXCEPT ![c] = Nil]
  BY <1>1, <1>2 DEF Account!TypeOK, RequestsFit, Account!At
<1>3. ASSUME NEW to \in {"write", "rotate"}, accountCall' = [accountCall EXCEPT ![c].pc
               = to], accountCall[c].kind = "change"
      PROVE  /\ accountCall' \in [Pair -> Account!CallState \cup {Nil}]
             /\ RequestsFit'
             /\ \A d \in Pair : d # c => accountCall'[d] = accountCall[d]
             /\ ~Account!At(c, "persist")'
  <2> DEFINE new == [accountCall[c] EXCEPT !.pc = to]
  <2>1. /\ new \in Account!CallState /\ new.pc = to /\ new.kind = accountCall[c].kind
             /\ new.user = accountCall[c].user
        /\ new.token = accountCall[c].token
    BY <1>1 DEF Account!CallState
  <2>2. accountCall' = [accountCall EXCEPT ![c] = new] BY <1>3 DEF Account!TypeOK
  <2>3. new # Nil BY <1>1, <2>1
  <2> HIDE DEF new
  <2>4. accountCall' \in [Pair -> Account!CallState \cup {Nil}]
        /\ \A d \in Pair : accountCall'[d] = IF d = c THEN new ELSE accountCall[d]
    BY <2>1, <2>2 DEF Account!TypeOK
  <2>5. RequestsFit' BY <1>3, <2>1, <2>4 DEF RequestsFit
  <2>6. ~Account!At(c, "persist")' BY <2>1, <2>4 DEF Account!At
  <2> QED BY <2>4, <2>5, <2>6
<1> QED BY <1>2, <1>3

\* Sign-in and sign-out keep the invariant.
LEMMA SessionsKeep ==
  ASSUME Account!AccountAssumption, AccountIInv, NEW c \in Pair,
         \/ \E u \in Users : Account!Login(c, u)
         \/ \E t \in Account!Tokens : Account!Logout(c, t)
         \/ Account!LoggedIn(c)
  PROVE  AccountIInv'
<1>a. \A s \in DOMAIN token : token[s].user \in Users
  BY TokenOf DEF AccountIInv
<1>b. 0 \in Account!Tokens \cup {0} OBVIOUS
<1>1. ASSUME NEW u \in Users, Account!Login(c, u) PROVE AccountIInv'
  <2>1. PICK right \in BOOLEAN : Account!Request(c, "login", u, 0, right, "verify")
    BY <1>1 DEF Account!Login
  <2> QED BY <1>1, <1>b, <2>1, AccountBegun DEF Account!Login
<1>2. ASSUME NEW t \in Account!Tokens, Account!Logout(c, t) PROVE AccountIInv'
  <2>1. t \in DOMAIN token /\ token[t].user \in Users BY <1>2, <1>a DEF Account!Logout
  <2> QED BY <1>2, <2>1, AccountBegun DEF Account!Logout
<1>3. CASE Account!LoggedIn(c)
  <2>1. Account!At(c, "verify") /\ accountUp /\ accountCall[c] \in Account!CallState
    BY <1>3, Up DEF Account!LoggedIn
  <2>2. (\E u \in Users : Account!Sign(u)) \/ token' = token
    BY <1>3, <2>1 DEF Account!LoggedIn, Account!CallState
  <2>3. accountCall' = [accountCall EXCEPT ![c] = Nil]
          /\ UNCHANGED <<Account!data, Account!memory, qr, provider, accountUp, accountUsed, astray>>
    BY <1>3 DEF Account!LoggedIn, Account!Over
  <2>4. /\ accountCall' \in [Pair -> Account!CallState \cup {Nil}]
        /\ \A d \in Pair : accountCall'[d] = accountCall[d] \/ (accountCall'[d] = Nil
             /\ ~Account!At(d, "persist"))
    BY <2>1, <2>3 DEF AccountIInv, Account!TypeOK, Account!At
  <2>5. /\ qr' \in [used : BOOLEAN, old : BOOLEAN] \cup {Nil}
             /\ provider' \in Account!Secrets \cup {Nil}
        /\ accountUsed' \in [Account!Kinds -> Nat]
    BY <2>3 DEF AccountIInv, Account!TypeOK
  <2> QED BY <2>1, <2>2, <2>3, <2>4, <2>5, SignKeeps
<1> QED BY <1>1, <1>2, <1>3

\* Refresh, QR codes and providers keep the invariant.
LEMMA OtherCallsKeep ==
  ASSUME Account!AccountAssumption, AccountIInv,
         (\E t \in Account!Tokens : Account!Refresh(t)) \/ Account!GenerateQr \/ Account!QrLogin
           \/ Account!StoreProvider
  PROVE  AccountIInv'
<1>a. \A s \in DOMAIN token : token[s].user \in Users
  BY TokenOf DEF AccountIInv
<1>4. ASSUME NEW t \in Account!Tokens, Account!Refresh(t) PROVE AccountIInv'
  <2>1. accountUp /\ token[t].user \in Users /\ Account!Sign(token[t].user) /\ Account!Spend("refresh")
        /\ UNCHANGED <<Account!data, Account!memory, qr, provider, accountCall, accountUp, astray>>
    BY <1>4, <1>a DEF Account!Refresh
  <2>2. accountUsed' \in [Account!Kinds -> Nat] BY <2>1, AccountSpent DEF Account!Kinds, AccountIInv
  <2>3. accountCall' \in [Pair -> Account!CallState \cup {Nil}]
          /\ qr' \in [used : BOOLEAN, old : BOOLEAN] \cup {Nil}
        /\ provider' \in Account!Secrets \cup {Nil}
    BY <2>1 DEF AccountIInv, Account!TypeOK
  <2> QED BY <2>1, <2>2, <2>3, SignKeeps
<1>5. CASE Account!GenerateQr
  <2>1. accountUp /\ Account!Spend("qr")
          /\ UNCHANGED <<Account!data, Account!memory, token, provider, accountCall, accountUp, astray>>
        /\ qr' \in [used : BOOLEAN, old : BOOLEAN] \cup {Nil}
    BY <1>5 DEF Account!GenerateQr
  <2>2. accountUsed' \in [Account!Kinds -> Nat] BY <2>1, AccountSpent DEF Account!Kinds, AccountIInv
  <2>3. accountCall' \in [Pair -> Account!CallState \cup {Nil}]
          /\ provider' \in Account!Secrets \cup {Nil}
    BY <2>1 DEF AccountIInv, Account!TypeOK
  <2> QED BY <2>1, <2>2, <2>3, SignKeeps
<1>6. CASE Account!QrLogin
  <2>1. /\ accountUp /\ Account!Sign(System)
             /\ UNCHANGED <<Account!data, Account!memory, provider, accountCall, accountUp, accountUsed, astray>>
        /\ System \in Users
    BY <1>6 DEF Account!QrLogin, Account!AccountAssumption
  <2>2. qr' \in [used : BOOLEAN, old : BOOLEAN] \cup {Nil}
    BY <1>6 DEF Account!QrLogin, AccountIInv, Account!TypeOK
  <2>3. accountCall' \in [Pair -> Account!CallState \cup {Nil}]
          /\ provider' \in Account!Secrets \cup {Nil}
        /\ accountUsed' \in [Account!Kinds -> Nat]
    BY <2>1 DEF AccountIInv, Account!TypeOK
  <2> QED BY <2>1, <2>2, <2>3, SignKeeps
<1>7. CASE Account!StoreProvider
  <2>1. accountUp /\ Account!Spend("provider")
          /\ UNCHANGED <<Account!data, Account!memory, token, qr, accountCall, accountUp, astray>>
               /\ provider' = key
    BY <1>7 DEF Account!StoreProvider
  <2>2. accountUsed' \in [Account!Kinds -> Nat] BY <2>1, AccountSpent DEF Account!Kinds, AccountIInv
  <2>3. accountCall' \in [Pair -> Account!CallState \cup {Nil}]
          /\ provider' \in Account!Secrets \cup {Nil}
        /\ qr' \in [used : BOOLEAN, old : BOOLEAN] \cup {Nil}
    BY <2>1 DEF AccountIInv, Account!TypeOK, Account!Secrets, Account!AccountAssumption
  <2> QED BY <2>1, <2>2, <2>3, SignKeeps
<1> QED BY <1>4, <1>5, <1>6, <1>7

\* A column of one token changes; it is another's than its secret.
LEMMA TokenMarked ==
  ASSUME token \in Seq(Account!Token), NEW t \in DOMAIN token,
         token' = [token EXCEPT ![t].out = TRUE] \/ token' = [token EXCEPT ![t].old = TRUE]
  PROVE  /\ token' \in Seq(Account!Token) /\ Len(token') = Len(token) /\ DOMAIN token' = DOMAIN token
         /\ \A s \in DOMAIN token : /\ token'[s].secret = token[s].secret
                                    /\ s # t => token'[s] = token[s]
         /\ token' = [token EXCEPT ![t].old = TRUE]
              => \A s \in DOMAIN token : token'[s].out = token[s].out
<1>1. Len(token) \in Nat /\ token \in [1 .. Len(token) -> Account!Token]
        /\ DOMAIN token = 1 .. Len(token)
  BY LenProperties
<1>2. token[t] \in Account!Token BY <1>1
<1>3. \E new \in Account!Token : /\ token' = [token EXCEPT ![t] = new] /\ new.secret = token[t].secret
                                 /\ token' = [token EXCEPT ![t].old = TRUE] => new.out = token[t].out
  <2>1. CASE token' = [token EXCEPT ![t].old = TRUE]
    <3> DEFINE new == [token[t] EXCEPT !.old = TRUE]
    <3>1. new \in Account!Token /\ new.secret = token[t].secret /\ new.out = token[t].out
      BY <1>2 DEF Account!Token
    <3> QED BY <2>1, <3>1
  <2>2. CASE token' # [token EXCEPT ![t].old = TRUE]
    <3> DEFINE new == [token[t] EXCEPT !.out = TRUE]
    <3>1. new \in Account!Token /\ new.secret = token[t].secret BY <1>2 DEF Account!Token
    <3> QED BY <2>2, <3>1
  <2> QED BY <2>1, <2>2
<1>4. token' \in [1 .. Len(token) -> Account!Token] BY <1>1, <1>3
<1>5. token' \in Seq(Account!Token) /\ DOMAIN token' = 1 .. Len(token) BY <1>1, <1>4, SeqDef
<1>6. Len(token') = Len(token) BY <1>1, <1>5, LenProperties
<1> QED BY <1>1, <1>3, <1>5, <1>6

\* A token put on the blacklist keeps the invariant.
LEMMA BlacklistKeeps ==
  ASSUME Account!AccountAssumption, AccountIInv, NEW c \in Pair, Account!Blacklist(c) PROVE AccountIInv'
<1> USE DEF AccountIInv, Account!data, Account!memory
<1> DEFINE t == accountCall[c].token
<1>1. accountUp /\ accountCall[c] \in Account!CallState /\ Account!At(c, "blacklist")
        /\ t \in DOMAIN token /\ token \in Seq(Account!Token)
  BY Up DEF Account!Blacklist, RequestsFit, Account!At, Account!TypeOK
<1>2. /\ token' = [token EXCEPT ![t].out = TRUE] /\ blacklist' = blacklist \cup {t}
      /\ accountCall' = [accountCall EXCEPT ![c] = Nil]
      /\ UNCHANGED <<Account!data, secret, key, secrets, qr, provider, accountUp, accountUsed, astray>>
  BY DEF Account!Blacklist, Account!Over
<1> HIDE DEF t
<1>3. /\ token' \in Seq(Account!Token) /\ Len(token') = Len(token) /\ DOMAIN token' = DOMAIN token
      /\ \A s \in DOMAIN token : /\ token'[s].secret = token[s].secret
                                 /\ s # t => token'[s] = token[s]
  BY <1>1, <1>2, TokenMarked
<1>4. \A d \in Pair : accountCall'[d] = IF d = c THEN Nil ELSE accountCall[d] BY <1>2 DEF Account!TypeOK
<1>5. accountCall' \in [Pair -> Account!CallState \cup {Nil}] BY <1>2 DEF Account!TypeOK
<1>6. Account!TypeOK' BY <1>1, <1>2, <1>3, <1>5 DEF Account!TypeOK
<1>7. RequestsFit' BY <1>2, <1>3, <1>4 DEF RequestsFit
<1>8. AccountDownIsEmpty' BY <1>1, <1>2 DEF AccountDownIsEmpty
<1>9. SecretsMinted' BY <1>2, <1>3 DEF SecretsMinted
<1>10. OutIsOut' BY <1>2, <1>3 DEF OutIsOut
<1>11. SecretFollows'
  <2>1. \A d \in Pair : /\ Persists(d)' <=> Persists(d)
                        /\ Persists(d) => /\ accountCall'[d].user = accountCall[d].user
                                          /\ accountCall'[d].secret = accountCall[d].secret
    BY <1>1, <1>4 DEF Persists, Account!At
  <2> QED BY <1>2, <2>1, RowKept
<1> QED BY <1>6, <1>7, <1>8, <1>9, <1>10, <1>11

\* A token that expires keeps the invariant.
LEMMA AccountExpireKeeps == ASSUME Account!AccountAssumption, AccountIInv, Account!Expire
  PROVE AccountIInv'
<1> USE DEF AccountIInv, Account!data, Account!memory
<1>1. accountUsed' \in [Account!Kinds -> Nat]
        /\ UNCHANGED <<Account!data, Account!memory, provider, accountCall, accountUp, astray>>
  BY DEF Account!Expire, Account!Spend, Account!TypeOK, Account!Kinds
<1>2. token \in Seq(Account!Token) BY DEF Account!TypeOK
<1>3. qr' \in [used : BOOLEAN, old : BOOLEAN] \cup {Nil} BY DEF Account!Expire, Account!TypeOK
<1>4. /\ token' \in Seq(Account!Token) /\ Len(token') = Len(token) /\ DOMAIN token' = DOMAIN token
      /\ \A s \in DOMAIN token : token'[s].secret = token[s].secret /\ token'[s].out = token[s].out
  <2>1. CASE token' = token BY <1>2, <2>1
  <2>2. CASE token' # token
    <3>1. PICK t \in DOMAIN token : token' = [token EXCEPT ![t].old = TRUE] BY <2>2 DEF Account!Expire
    <3> QED BY <1>2, <3>1, TokenMarked
  <2> QED BY <2>1, <2>2
<1>5. Account!TypeOK' BY <1>1, <1>3, <1>4 DEF Account!TypeOK
<1>6. RequestsFit' /\ AccountDownIsEmpty' /\ SecretsMinted' /\ OutIsOut'
  BY <1>1, <1>4 DEF RequestsFit, AccountDownIsEmpty, SecretsMinted, OutIsOut
<1>7. SecretFollows' BY <1>1 DEF SecretFollows, Persists, Account!At
<1> QED BY <1>5, <1>6, <1>7

\* A change of password up to its new secret keeps the invariant.
LEMMA ChangeKeeps ==
  ASSUME Account!AccountAssumption, AccountIInv, NEW c \in Pair,
         (\E t \in Account!Tokens : Account!Change(c, t)) \/ Account!Checked(c)
           \/ Account!StorePassword(c)
  PROVE  AccountIInv'
<1> USE DEF AccountIInv, Account!data, Account!memory
<1>1. ASSUME NEW t \in Account!Tokens, Account!Change(c, t) PROVE AccountIInv'
  <2>1. t \in DOMAIN token /\ token[t].user \in Users BY <1>1, TokenOf DEF Account!Change
  <2>2. PICK right \in BOOLEAN : Account!Request(c, "change", token[t].user, t, right, "verify")
    BY <1>1 DEF Account!Change
  <2> QED BY <1>1, <2>1, <2>2, AccountBegun DEF Account!Change
<1>2. CASE Account!Checked(c) \/ Account!StorePassword(c)
  <2>1. PICK from \in {"verify", "write"} : Account!At(c, from)
    BY <1>2 DEF Account!Checked, Account!StorePassword
  <2>2. accountUp /\ accountCall[c] \in Account!CallState /\ accountCall[c] # Nil
          /\ accountCall[c].kind = "change"
    BY <1>2, <2>1, Up DEF Account!Checked, Account!StorePassword, RequestsFit, Account!At
  <2>3. \/ accountCall' = [accountCall EXCEPT ![c] = Nil]
        \/ \E to \in {"write", "rotate"} : accountCall' = [accountCall EXCEPT ![c].pc = to]
          /\ accountCall[c].kind = "change"
    BY <1>2, <2>2 DEF Account!Checked, Account!StorePassword, Account!Over, Account!Goto
  <2>4. UNCHANGED <<stored, env, Account!memory, token, qr, provider, accountUp, accountUsed, astray>>
        /\ password' \in [Users -> Nat]
    BY <1>2 DEF Account!Checked, Account!StorePassword, Account!TypeOK
  <2>5. /\ accountCall' \in [Pair -> Account!CallState \cup {Nil}]
        /\ RequestsFit'
        /\ \A d \in Pair : d # c => accountCall'[d] = accountCall[d]
        /\ ~Account!At(c, "persist")'
    BY <2>1, <2>3, <2>4, Stepped
  <2>6. Account!TypeOK' BY <2>4, <2>5 DEF Account!TypeOK
  <2>7. AccountDownIsEmpty' /\ SecretsMinted' /\ OutIsOut'
    BY <2>2, <2>4 DEF AccountDownIsEmpty, SecretsMinted, OutIsOut
  <2>8. SecretFollows'
    <3>1. \A d \in Pair : /\ Persists(d)' <=> Persists(d)
                          /\ Persists(d) => /\ accountCall'[d].user = accountCall[d].user
                                            /\ accountCall'[d].secret = accountCall[d].secret
      BY <2>1, <2>5 DEF Persists, Account!At
    <3> QED BY <2>4, <3>1, RowKept
  <2> QED BY <2>5, <2>6, <2>7, <2>8
<1> QED BY <1>1, <1>2

\* A secret that is replaced keeps the invariant.
LEMMA RotateKeeps ==
  ASSUME Account!AccountAssumption, AccountIInv, NEW c \in Pair, Account!Rotate(c) PROVE AccountIInv'
<1> USE DEF AccountIInv, Account!data, Account!memory
<1> DEFINE new == [accountCall[c] EXCEPT !.pc = "persist", !.secret = secrets + 1]
<1>1. accountUp /\ Account!At(c, "rotate") /\ accountCall[c] \in Account!CallState
        /\ accountCall[c] # Nil /\ accountCall[c].kind = "change"
  BY Up DEF Account!Rotate, RequestsFit, Account!At
<1>2. secrets \in Nat \ {0} /\ secrets < MaxSecrets /\ MaxSecrets \in Nat
        /\ Nil \notin Account!CallState
  BY DEF Account!Rotate, Account!TypeOK, Account!Secrets, Account!AccountAssumption
<1>3. /\ secrets' = secrets + 1 /\ secret' = secrets + 1 /\ blacklist' = {}
      /\ accountCall' = [accountCall EXCEPT ![c] = new]
      /\ UNCHANGED <<Account!data, key, token, qr, provider, accountUp, accountUsed>>
      /\ astray' = (astray \/ accountCall[c].user # System \/ \E d \in Pair : Persists(d))
  BY <1>1 DEF Account!Rotate, Account!TypeOK, Account!Persisting, Persists
<1>4. /\ new \in Account!CallState /\ new # Nil /\ new.pc = "persist" /\ new.secret = secrets + 1
      /\ new.kind = accountCall[c].kind /\ new.user = accountCall[c].user
  <2>1. secrets + 1 \in Account!Secrets \cup {0} BY <1>2 DEF Account!Secrets
  <2>2. new \in Account!CallState BY <1>1, <2>1 DEF Account!CallState
  <2>3. /\ new.pc = "persist" /\ new.secret = secrets + 1
        /\ new.kind = accountCall[c].kind /\ new.user = accountCall[c].user
    BY <1>1 DEF Account!CallState
  <2> QED BY <1>2, <2>2, <2>3
<1> HIDE DEF new
<1>5. /\ accountCall' \in [Pair -> Account!CallState \cup {Nil}]
      /\ \A d \in Pair : accountCall'[d] = IF d = c THEN new ELSE accountCall[d]
  BY <1>3, <1>4 DEF Account!TypeOK
<1>6. Account!TypeOK'
  <2>1. astray' \in BOOLEAN BY <1>3 DEF Account!TypeOK
  <2> QED BY <1>2, <1>3, <1>5, <2>1 DEF Account!TypeOK, Account!Secrets
<1>7. RequestsFit'
  BY <1>1, <1>2, <1>3, <1>4, <1>5 DEF RequestsFit
<1>8. AccountDownIsEmpty' BY <1>1, <1>3 DEF AccountDownIsEmpty
<1>9. SecretsMinted'
  <2>1. \A t \in DOMAIN token : token[t].secret \in Nat BY TokenOf
  <2>2. 0 .. secrets \subseteq 0 .. secrets + 1 BY <1>2
  <2>3. \A t \in DOMAIN token : token[t].secret <= secrets + 1 BY <1>2, <2>1 DEF SecretsMinted
  <2>4. stored' \in [Users -> 0 .. secrets'] BY <1>3, <2>2 DEF SecretsMinted
  <2> QED BY <1>3, <2>3, <2>4 DEF SecretsMinted
<1>10. OutIsOut' BY <1>2, <1>3 DEF OutIsOut, SecretsMinted
<1>11. SecretFollows'
  <2>1. Persists(c)' /\ accountCall'[c].secret = secret' /\ accountCall'[c].user = accountCall[c].user
    BY <1>3, <1>4, <1>5 DEF Persists, Account!At
  <2>2. \A d \in Pair : d # c => (Persists(d)' <=> Persists(d)) BY <1>5 DEF Persists, Account!At
  <2> SUFFICES ASSUME ~astray'
      PROVE  accountCall[c].user = System /\ \A d \in Pair : Persists(d)' => d = c
    BY <2>1 DEF SecretFollows
  <2> QED BY <1>3, <2>2
<1> QED BY <1>6, <1>7, <1>8, <1>9, <1>10, <1>11

\* A secret that is stored keeps the invariant.
LEMMA PersistKeeps ==
  ASSUME Account!AccountAssumption, AccountIInv, NEW c \in Pair, Account!Persist(c) PROVE AccountIInv'
<1> USE DEF AccountIInv, Account!data, Account!memory
<1>1. /\ accountUp /\ Account!At(c, "persist") /\ accountCall[c] \in Account!CallState
           /\ accountCall[c] # Nil /\ accountCall[c].kind = "change"
      /\ accountCall[c].secret \in 1 .. secrets /\ accountCall[c].user \in Users
  BY Up DEF Account!Persist, RequestsFit, Account!At, Account!CallState
<1>2. /\ stored' = [stored EXCEPT ![accountCall[c].user] = accountCall[c].secret]
      /\ accountCall' = [accountCall EXCEPT ![c] = Nil]
      /\ UNCHANGED <<password, env, Account!memory, token, qr, provider, accountUp, accountUsed>>
  BY DEF Account!Persist, Account!Over
<1>2a. astray' = (astray /\ ~(/\ accountCall[c].user = System /\ accountCall[c].secret = secret
                             /\ Account!Persisting = {c}))
  BY DEF Account!Persist
<1>3. /\ accountCall' \in [Pair -> Account!CallState \cup {Nil}] /\ RequestsFit'
      /\ \A d \in Pair : d # c => accountCall'[d] = accountCall[d]
      /\ ~Account!At(c, "persist")'
  BY <1>1, <1>2, Stepped
<1>4. secrets \in Nat /\ secrets <= MaxSecrets /\ MaxSecrets \in Nat
  BY DEF Account!TypeOK, Account!Secrets, Account!AccountAssumption
<1>5. stored' \in [Users -> 0 .. secrets] /\ stored' \in [Users -> 0 .. MaxSecrets]
  BY <1>1, <1>2, <1>4 DEF SecretsMinted
<1>6. Account!TypeOK'
  <2>1. astray' \in BOOLEAN BY <1>2a DEF Account!TypeOK
  <2> QED BY <1>2, <1>3, <1>5, <2>1 DEF Account!TypeOK
<1>7. AccountDownIsEmpty' /\ OutIsOut' BY <1>1, <1>2 DEF AccountDownIsEmpty, OutIsOut
<1>8. SecretsMinted' BY <1>2, <1>5 DEF SecretsMinted
<1>9. SecretFollows'
  <2> SUFFICES ASSUME ~env, ~astray'
      PROVE  stored'[System] = secret /\ \A d \in Pair : ~Persists(d)'
    BY <1>2 DEF SecretFollows
  <2>1. /\ accountCall[c].user = System /\ accountCall[c].secret = secret
        /\ \A d \in Pair : Persists(d) => d = c
    <3>1. CASE astray BY <1>2a, <3>1 DEF Account!Persisting, Persists
    <3>2. CASE ~astray BY <1>1, <3>2 DEF SecretFollows, Persists
    <3> QED BY <3>1, <3>2
  <2>2. stored'[System] = secret
    BY <1>2, <2>1 DEF Account!TypeOK, Account!AccountAssumption
  <2>3. \A d \in Pair : ~Persists(d)' BY <1>3, <2>1 DEF Persists, Account!At
  <2> QED BY <2>2, <2>3
<1> QED BY <1>3, <1>6, <1>7, <1>8, <1>9

\* The reset of a password, a crash and a start keep the invariant.
LEMMA ServerKeeps ==
  ASSUME Account!AccountAssumption, AccountIInv,
         (\E u \in Users : Account!Reset(u)) \/ Account!Crash \/ Account!Start
  PROVE  AccountIInv'
<1> USE DEF AccountIInv, Account!data, Account!memory
<1>1. ASSUME NEW u \in Users, Account!Reset(u) PROVE AccountIInv'
  <2>1. accountUsed' \in [Account!Kinds -> Nat] BY <1>1, AccountSpent DEF Account!Kinds, Account!Reset
  <2>2. /\ password' \in [Users -> Nat]
        /\ UNCHANGED <<stored, env, Account!memory, token, qr, provider, accountCall, accountUp, astray>>
    BY <1>1 DEF Account!Reset, Account!TypeOK, Account!AccountAssumption
  <2>3. Account!TypeOK' BY <2>1, <2>2 DEF Account!TypeOK
  <2>4. RequestsFit' /\ AccountDownIsEmpty' /\ SecretsMinted' /\ OutIsOut'
    BY <2>2 DEF RequestsFit, AccountDownIsEmpty, SecretsMinted, OutIsOut
  <2>5. SecretFollows' BY <2>2 DEF SecretFollows, Persists, Account!At
  <2> QED BY <2>3, <2>4, <2>5
<1>2. CASE Account!Crash
  <2>0. accountUsed' \in [Account!Kinds -> Nat] BY <1>2, AccountSpent DEF Account!Kinds, Account!Crash
  <2>1. /\ accountUp' = FALSE /\ qr' = Nil /\ blacklist' = {} /\ accountCall' = [c \in Pair |-> Nil]
        /\ token' = [t \in DOMAIN token |-> [token[t] EXCEPT !.out = FALSE]]
        /\ UNCHANGED <<Account!data, secret, key, secrets, provider, astray>>
    BY <1>2 DEF Account!Crash
  <2>2. Len(token) \in Nat /\ token \in [1 .. Len(token) -> Account!Token]
          /\ DOMAIN token = 1 .. Len(token)
    BY LenProperties DEF Account!TypeOK
  <2>3. \A x \in Account!Token : LET y == [x EXCEPT !.out = FALSE]
                         IN y \in Account!Token /\ y.secret = x.secret /\ ~y.out
    BY DEF Account!Token
  <2>4. token' \in [1 .. Len(token) -> Account!Token] BY <2>1, <2>2, <2>3
  <2>5. token' \in Seq(Account!Token) /\ DOMAIN token' = DOMAIN token /\ Len(token') = Len(token)
    <3>1. token' \in Seq(Account!Token) /\ DOMAIN token' = 1 .. Len(token) BY <2>2, <2>4, SeqDef
    <3> QED BY <2>2, <3>1, LenProperties
  <2>6. \A t \in DOMAIN token : token'[t].secret = token[t].secret /\ ~token'[t].out
    BY <2>1, <2>2, <2>3
  <2>7. Account!TypeOK' BY <2>0, <2>1, <2>5 DEF Account!TypeOK
  <2>8. RequestsFit' /\ AccountDownIsEmpty' /\ OutIsOut'
    BY <2>1, <2>5, <2>6 DEF RequestsFit, AccountDownIsEmpty, OutIsOut
  <2>9. SecretsMinted' BY <2>1, <2>5, <2>6 DEF SecretsMinted
  <2>10. SecretFollows' BY <2>1 DEF SecretFollows
  <2> QED BY <2>7, <2>8, <2>9, <2>10
<1>3. CASE Account!Start
  <2>0. secrets \in 1 .. MaxSecrets /\ MaxSecrets \in Nat /\ stored \in [Users -> 0 .. secrets]
          /\ System \in Users
    BY DEF Account!TypeOK, Account!Secrets, SecretsMinted, Account!AccountAssumption
  <2>1. /\ ~accountUp /\ accountUp' = TRUE /\ secret' = (IF env THEN 1 ELSE stored'[System])
        /\ key' = secret' /\ astray' = FALSE
        /\ UNCHANGED <<password, env, blacklist, token, qr, provider, accountCall, accountUsed>>
    BY <1>3 DEF Account!Start
  <2>2. /\ \A c \in Pair : accountCall[c] = Nil
        /\ \A t \in DOMAIN token : ~token[t].out
    BY <2>1 DEF AccountDownIsEmpty
  <2>3. /\ secrets' \in secrets .. MaxSecrets /\ stored' \in [Users -> 0 .. secrets']
        /\ ~env => stored'[System] # 0
    <3>1. CASE ~env /\ stored[System] = 0
      <4>1. /\ secrets < MaxSecrets /\ secrets' = secrets + 1
            /\ stored' = [stored EXCEPT ![System] = secrets + 1]
        BY <1>3, <3>1 DEF Account!Start
      <4> QED BY <2>0, <4>1
    <3>2. CASE ~(~env /\ stored[System] = 0)
      <4>1. secrets' = secrets /\ stored' = stored BY <1>3, <3>2 DEF Account!Start
      <4> QED BY <2>0, <3>2, <4>1
    <3> QED BY <3>1, <3>2
  <2>4. secret' \in 1 .. secrets' BY <2>0, <2>1, <2>3
  <2>5. Account!TypeOK'
    <3>1. /\ secret' \in 1 .. secrets' /\ key' \in 1 .. secrets' /\ secrets' \in Account!Secrets
          /\ stored' \in [Users -> 0 .. MaxSecrets]
      BY <2>0, <2>1, <2>3, <2>4 DEF Account!Secrets
    <3> QED BY <2>1, <3>1 DEF Account!TypeOK
  <2>6. RequestsFit' /\ AccountDownIsEmpty' /\ OutIsOut'
    BY <2>1, <2>2 DEF RequestsFit, AccountDownIsEmpty, OutIsOut
  <2>7. SecretsMinted'
    <3>1. \A t \in DOMAIN token : token[t].secret \in Nat /\ token[t].secret <= secrets
      BY TokenOf DEF SecretsMinted
    <3> QED BY <2>0, <2>1, <2>3, <3>1 DEF SecretsMinted
  <2>8. SecretFollows' BY <2>1, <2>2 DEF SecretFollows, Persists, Account!At
  <2> QED BY <2>5, <2>6, <2>7, <2>8
<1> QED BY <1>1, <1>2, <1>3

\* A secret that is told keeps the invariant: the row of the system user may
\* go astray.
LEMMA UpdateKeeps ==
  ASSUME Account!AccountAssumption, AccountIInv, NEW u \in Users, NEW new \in 0 .. MaxSecrets,
         Account!UpdateJwtSecret(u, new)
  PROVE  AccountIInv'
<1> USE DEF AccountIInv, Account!data, Account!memory
<1>1. /\ accountUp /\ new \in 0 .. secrets + 1 /\ new <= MaxSecrets
      /\ secrets' = (IF new > secrets THEN new ELSE secrets)
      /\ stored' = [stored EXCEPT ![u] = new] /\ astray' = (astray \/ u = System)
      /\ UNCHANGED <<password, env, secret, blacklist, key, token, qr, provider, accountCall,
                     accountUp>>
  BY DEF Account!UpdateJwtSecret
<1>2. accountUsed' \in [Account!Kinds -> Nat]
  BY AccountSpent DEF Account!Kinds, Account!UpdateJwtSecret
<1>3. secrets \in 1 .. MaxSecrets /\ MaxSecrets \in Nat /\ stored \in [Users -> 0 .. secrets]
        /\ System \in Users
  BY DEF Account!TypeOK, Account!Secrets, SecretsMinted, Account!AccountAssumption
<1>4. secrets' \in secrets .. MaxSecrets /\ stored' \in [Users -> 0 .. secrets'] BY <1>1, <1>3
<1>5. Account!TypeOK'
  <2>1. astray' \in BOOLEAN BY <1>1 DEF Account!TypeOK
  <2>2. /\ secret' \in 1 .. secrets' /\ key' \in 1 .. secrets' /\ secrets' \in Account!Secrets
        /\ stored' \in [Users -> 0 .. MaxSecrets]
    BY <1>1, <1>3, <1>4 DEF Account!TypeOK, Account!Secrets
  <2> QED BY <1>1, <1>2, <2>1, <2>2 DEF Account!TypeOK
<1>6. RequestsFit' BY <1>1, <1>3, <1>4 DEF RequestsFit
<1>7. AccountDownIsEmpty' /\ OutIsOut' BY <1>1 DEF AccountDownIsEmpty, OutIsOut
<1>8. SecretsMinted'
  <2>1. \A t \in DOMAIN token : token[t].secret \in Nat /\ token[t].secret <= secrets
    BY TokenOf DEF SecretsMinted
  <2> QED BY <1>1, <1>3, <1>4, <2>1 DEF SecretsMinted
<1>9. SecretFollows'
  <2> SUFFICES ASSUME ~env, ~astray' PROVE SecretFollows' BY <1>1 DEF SecretFollows
  <2>1. ~astray /\ u # System /\ stored'[System] = stored[System] BY <1>1, <1>3
  <2> QED BY <1>1, <2>1 DEF SecretFollows, Persists, Account!At
<1> QED BY <1>5, <1>6, <1>7, <1>8, <1>9

\* The invariant holds in every state of the accounts.
LEMMA AccountInductive == ASSUME Account!AccountAssumption PROVE Account!Spec => []AccountIInv
<1>1. Account!Init => AccountIInv BY AccountInitial
<1>2. AccountIInv /\ [Account!Next]_(Account!vars) => AccountIInv'
  <2> SUFFICES ASSUME AccountIInv, [Account!Next]_(Account!vars) PROVE AccountIInv' OBVIOUS
  <2>1. CASE UNCHANGED Account!vars
    BY <2>1 DEF Account!vars, AccountIInv, Account!TypeOK, RequestsFit, AccountDownIsEmpty,
       SecretsMinted, OutIsOut, SecretFollows, Persists, Account!At
  <2>2. CASE Account!Next
    <3>1. ASSUME NEW c \in Pair,
                 \/ \E u \in Users : Account!Login(c, u)
                 \/ \E t \in Account!Tokens : Account!Logout(c, t)
                 \/ Account!LoggedIn(c)
          PROVE  AccountIInv'
      BY <3>1, SessionsKeep
    <3>2. ASSUME NEW c \in Pair, (\E t \in Account!Tokens : Account!Change(c, t))
                   \/ Account!Checked(c) \/ Account!StorePassword(c)
          PROVE  AccountIInv'
      BY <3>2, ChangeKeeps
    <3>3. ASSUME NEW c \in Pair, Account!Blacklist(c) PROVE AccountIInv' BY <3>3, BlacklistKeeps
    <3>4. ASSUME NEW c \in Pair, Account!Rotate(c) PROVE AccountIInv' BY <3>4, RotateKeeps
    <3>5. ASSUME NEW c \in Pair, Account!Persist(c) PROVE AccountIInv' BY <3>5, PersistKeeps
    <3>6. CASE (\E t \in Account!Tokens : Account!Refresh(t)) \/ Account!GenerateQr
            \/ Account!QrLogin \/ Account!StoreProvider
      BY <3>6, OtherCallsKeep
    <3>7. CASE Account!Expire BY <3>7, AccountExpireKeeps
    <3>8. CASE (\E u \in Users : Account!Reset(u)) \/ Account!Crash \/ Account!Start
      BY <3>8, ServerKeeps
    <3>9. ASSUME NEW u \in Users, NEW new \in 0 .. MaxSecrets, Account!UpdateJwtSecret(u, new)
          PROVE  AccountIInv'
      BY <3>9, UpdateKeeps
    <3> QED BY <2>2, <3>1, <3>2, <3>3, <3>4, <3>5, <3>6, <3>7, <3>8, <3>9 DEF Account!Next
  <2> QED BY <2>1, <2>2
<1> QED BY <1>1, <1>2, PTL DEF Account!Spec

\* The accounts by themselves have the two properties.
LEMMA Safe == ASSUME Account!AccountAssumption
  PROVE Account!Spec => [](Account!TypeOK /\ Account!LoggedOutStaysOut /\ Account!RestartKeepsSessions)
<1>1. AccountIInv => Account!LoggedOutStaysOut
  BY DEF AccountIInv, OutIsOut, Account!LoggedOutStaysOut, Account!Verifies
<1>2. AccountIInv => Account!TypeOK /\ Account!RestartKeepsSessions
  BY DEF AccountIInv, SecretFollows, Persists, Account!RestartKeepsSessions
<1> QED BY <1>1, <1>2, AccountInductive, PTL

\* The group implements the service.
LEMMA AccountImplemented == AccessSpec => Account!Spec
<1>1. AccessInit => Account!Init BY DEF AccessInit
<1>2. [AccessNext]_accessVars => [Account!Next]_(Account!vars)
  BY DEF AccessNext, accessVars, accountVars, Account!vars
<1> QED BY <1>1, <1>2, PTL DEF AccessSpec, Account!Spec

\* For any number of users, requests, tokens and secrets: a token that was
\* logged out verifies no more in that run of the server (jwt.rs, routes.rs).
THEOREM LogoutIsKept == ASSUME AccessAssumption PROVE AccessSpec => []LoggedOutStaysOut
<1>1. Account!AccountAssumption BY DEF AccessAssumption
<1>2. Account!Spec => [](Account!TypeOK /\ Account!LoggedOutStaysOut /\ Account!RestartKeepsSessions)
  BY <1>1, Safe
<1>3. Account!LoggedOutStaysOut => LoggedOutStaysOut BY DEF LoggedOutStaysOut
<1> QED BY <1>2, <1>3, AccountImplemented, PTL

\* For any number of users, requests, restarts and secrets: the secret in the
\* row of the system user is the one in force, so that a start goes on with it,
\* unless the environment sets it, a change of password is between memory and
\* row, or the row went astray by another user's change, by changes that were
\* there at once or by a local request, and was not mended since by a start or
\* by a change of the system user (routes.rs, jwt.rs, services.rs).
THEOREM SecretIsKept == ASSUME AccessAssumption PROVE AccessSpec => []RestartKeepsSessions
<1>1. Account!AccountAssumption BY DEF AccessAssumption
<1>2. Account!Spec => [](Account!TypeOK /\ Account!LoggedOutStaysOut /\ Account!RestartKeepsSessions)
  BY <1>1, Safe
<1>3. Account!RestartKeepsSessions => RestartKeepsSessions BY DEF RestartKeepsSessions
<1> QED BY <1>2, <1>3, AccountImplemented, PTL

-----------------------------------------------------------------------------
(* The chats: ChannelChat.                                                 *)

\* The steps of a call, those of a turn among them, and the codes decided on.
Steps ==
  {"auth", "list", "expire", "draw", "drop", "find", "insert", "load", "create", "send", "subscribe",
   "bind", "relay", "admit", "stamp", "sessions", "user", "clear"}
InTurn == {"subscribe", "bind", "relay"}
Decided(k) == code[k] # Nil /\ code[k].status \in {"approved", "rejected"}

\* What a call carries is there: its person, its code, its session, and the
\* conversation made for that session.
Carries(c) == chatCall[c] # Nil =>
  /\ chatCall[c].pc \notin {"admit", "stamp", "clear"} => chatCall[c].user \in Persons
  /\ chatCall[c].pc \in {"admit", "stamp"} =>
       /\ chatCall[c].code \in Codes /\ code[chatCall[c].code] # Nil
       /\ chatCall[c].verdict \in {"approved", "rejected"}
  /\ chatCall[c].pc = "expire" =>
       \A k \in chatCall[c].codes : code[k] # Nil /\ code[k].user = chatCall[c].user
  /\ chatCall[c].pc \in {"load", "create", "send"} \cup InTurn
       => chatCall[c].session \in Chat!SessionIds
  /\ chatCall[c].pc \in {"send"} \cup InTurn =>
       /\ chatCall[c].conv \in Chat!ConvIds /\ owner[chatCall[c].conv] = chatCall[c].session

\* The codes a call is about to write are undecided, unless it was crossed.
Careful(c) == chatCall[c] # Nil =>
  /\ chatCall[c].pc = "expire" /\ chatCall[c].user \notin chatCrossed
       => \A k \in chatCall[c].codes : ~Decided(k)
  /\ chatCall[c].pc \in {"admit", "stamp"} /\ code[chatCall[c].code].user \notin chatCrossed =>
       ~Decided(chatCall[c].code)

\* Two calls deal with one person's codes only if that was noticed.
DealsAlone == \A c, d \in Pair : c # d => Chat!Deals(c) \cap Chat!Deals(d) \subseteq chatCrossed

\* Conversations are numbered without gaps.
WithoutGaps == \E m \in 0 .. MaxRows : \A v \in Chat!ConvIds : owner[v] # Nil <=> v <= m

CallsFit == \A c \in Pair : Carries(c) /\ Careful(c)

ChatIInv ==
  Chat!TypeOK /\ Chat!SessionHasMember /\ Chat!ContextsAreSeparate /\ CallsFit /\ DealsAlone /\ WithoutGaps

\* At the start there are no codes, members, sessions or calls.
LEMMA ChatInitial == ASSUME Chat!ChatAssumption, Chat!Init PROVE ChatIInv
<1>1. MaxRows \in Nat BY DEF Chat!ChatAssumption
<1>2. Chat!TypeOK BY <1>1 DEF Chat!Init, Chat!TypeOK, Chat!SessionIds, Chat!ConvIds, Chat!Kinds
<1>3. Chat!SessionHasMember /\ Chat!ContextsAreSeparate
  BY DEF Chat!Init, Chat!SessionHasMember, Chat!ContextsAreSeparate
<1>4. CallsFit BY DEF Chat!Init, CallsFit, Carries, Careful
<1>5. DealsAlone BY DEF Chat!Init, DealsAlone, Chat!Deals
<1>6. WithoutGaps
  <2>1. 0 \in 0 .. MaxRows /\ \A v \in Chat!ConvIds : ~(v <= 0) BY <1>1 DEF Chat!ConvIds
  <2>2. \A v \in Chat!ConvIds : owner[v] = Nil BY DEF Chat!Init
  <2> QED BY <2>1, <2>2 DEF WithoutGaps
<1> QED BY <1>2, <1>3, <1>4, <1>5, <1>6 DEF ChatIInv

-----------------------------------------------------------------------------
\* What the statements on codes have in common: no row goes or changes hands.
RowsStay ==
  \A k \in Codes : code[k] # Nil => code'[k] # Nil /\ code'[k].user = code[k].user

OwnersStay == \A v \in Chat!ConvIds : owner[v] # Nil => owner'[v] = owner[v]

\* A call that a step leaves alone goes on fitting, if what the step decides
\* was none of its business.
LEMMA FittingStays ==
  ASSUME Chat!ChatAssumption, ChatIInv,
           NEW d \in Pair, chatCall'[d] = chatCall[d], RowsStay, OwnersStay,
         chatCrossed \subseteq chatCrossed',
         \A k \in Codes : code[k] # Nil /\ ~Decided(k) /\ Decided(k)' =>
                            code[k].user \notin Chat!Deals(d) \/ code[k].user \in chatCrossed'
  PROVE  Carries(d)' /\ Careful(d)' /\ Chat!Deals(d)' = Chat!Deals(d)
<1> USE DEF ChatIInv
<1>1. CASE chatCall[d] = Nil BY <1>1 DEF Carries, Careful, Chat!Deals
<1>2. CASE chatCall[d] # Nil
  <2>0. chatCall[d] \in Chat!CallState BY <1>2 DEF Chat!TypeOK
  <2>1. Carries(d) /\ Careful(d) BY DEF CallsFit
  <2>2. chatCall[d].codes \subseteq Codes BY <2>0 DEF Chat!CallState
  <2>3. Carries(d)'
    <3>1. chatCall[d].pc \in {"send"} \cup InTurn =>
            chatCall[d].conv \in Chat!ConvIds /\ owner'[chatCall[d].conv] = chatCall[d].session
      <4>1. Nil \notin Chat!SessionIds BY DEF Chat!SessionIds, Chat!ChatAssumption
      <4> QED BY <1>2, <2>1, <4>1 DEF Carries, OwnersStay, InTurn
    <3> QED BY <1>2, <2>1, <2>2, <3>1 DEF Carries, RowsStay
  <2>4. Chat!Deals(d)' = Chat!Deals(d) BY <1>2, <2>1 DEF Chat!Deals, Carries, RowsStay
  <2>5. Careful(d)'
    <3>1. ASSUME chatCall[d].pc = "expire", chatCall[d].user \notin chatCrossed',
                   NEW k \in chatCall[d].codes
          PROVE  ~Decided(k)'
      <4>1. k \in Codes /\ code[k] # Nil /\ code[k].user = chatCall[d].user
        BY <1>2, <2>1, <2>2, <3>1 DEF Carries
      <4>2. ~Decided(k) BY <1>2, <2>1, <3>1 DEF Careful
      <4>3. code[k].user \in Chat!Deals(d) BY <1>2, <3>1, <4>1 DEF Chat!Deals
      <4> QED BY <3>1, <4>1, <4>2, <4>3
    <3>2. ASSUME chatCall[d].pc \in {"admit", "stamp"}, code'[chatCall[d].code].user \notin chatCrossed'
          PROVE  ~Decided(chatCall[d].code)'
      <4>1. chatCall[d].code \in Codes /\ code[chatCall[d].code] # Nil
        BY <1>2, <2>1, <3>2 DEF Carries
      <4>2. code'[chatCall[d].code].user = code[chatCall[d].code].user BY <4>1 DEF RowsStay
      <4>3. ~Decided(chatCall[d].code) BY <1>2, <2>1, <3>2, <4>2 DEF Careful
      <4>4. code[chatCall[d].code].user \in Chat!Deals(d) BY <1>2, <3>2 DEF Chat!Deals
      <4>5. code[chatCall[d].code].user \notin chatCrossed' BY <3>2, <4>2
      <4>6. ~(Decided(chatCall[d].code)') BY <4>1, <4>3, <4>4, <4>5
      <4> QED BY <4>6 DEF Decided
    <3> QED BY <3>1, <3>2 DEF Careful, Decided
  <2> QED BY <2>3, <2>4, <2>5
<1> QED BY <1>1, <1>2

\* A step of one call: the others go on fitting.
LEMMA CallMoved ==
  ASSUME Chat!ChatAssumption, ChatIInv,
           NEW c \in Pair, \A d \in Pair \ {c} : chatCall'[d] = chatCall[d],
         RowsStay, OwnersStay, chatCrossed \subseteq chatCrossed',
         \A k \in Codes : code[k] # Nil /\ ~Decided(k) /\ Decided(k)' => code[k].user \in Chat!Deals(c),
         Carries(c)', Careful(c)',
         \A d \in Pair \ {c} : Chat!Deals(c)' \cap Chat!Deals(d) \subseteq chatCrossed'
  PROVE  CallsFit' /\ DealsAlone'
<1>1. ASSUME NEW d \in Pair \ {c}
      PROVE  Carries(d)' /\ Careful(d)' /\ Chat!Deals(d)' = Chat!Deals(d)
  <2>1. Chat!Deals(c) \cap Chat!Deals(d) \subseteq chatCrossed BY DEF ChatIInv, DealsAlone
  <2>2. \A k \in Codes : code[k] # Nil /\ ~Decided(k) /\ Decided(k)' =>
                            code[k].user \notin Chat!Deals(d) \/ code[k].user \in chatCrossed'
    BY <2>1
  <2> QED BY <2>2, FittingStays
<1>2. CallsFit' BY <1>1 DEF CallsFit
<1>3. DealsAlone'
  <2> SUFFICES ASSUME NEW a \in Pair, NEW b \in Pair, a # b
               PROVE  Chat!Deals(a)' \cap Chat!Deals(b)' \subseteq chatCrossed'
    BY DEF DealsAlone
  <2>1. CASE a # c /\ b # c
    <3>1. Chat!Deals(a) \cap Chat!Deals(b) \subseteq chatCrossed BY DEF ChatIInv, DealsAlone
    <3> QED BY <1>1, <2>1, <3>1
  <2>2. CASE a = c BY <1>1, <2>2
  <2>3. CASE b = c BY <1>1, <2>3
  <2> QED BY <2>1, <2>2, <2>3
<1> QED BY <1>2, <1>3

\* The counts of calls stay counts.
LEMMA ChatSpent == ASSUME Chat!TypeOK, NEW kind \in Chat!Kinds, Chat!Spend(kind)
  PROVE chatUsed' \in [Chat!Kinds -> Nat]
<1>1. chatUsed' = [chatUsed EXCEPT ![kind] = @ + 1] BY DEF Chat!Spend
<1> QED BY <1>1 DEF Chat!TypeOK

\* A call goes to its next step.
LEMMA CallGoes ==
  ASSUME Chat!TypeOK, NEW c \in Pair, chatCall[c] # Nil, NEW step \in Steps, Chat!Goto(c, step)
  PROVE  /\ chatCall' \in [Pair -> Chat!CallState \cup {Nil}]
         /\ \A d \in Pair \ {c} : chatCall'[d] = chatCall[d]
         /\ chatCall'[c] = [chatCall[c] EXCEPT !.pc = step]
         /\ chatCall'[c] \in Chat!CallState /\ chatCall'[c].pc = step
<1>1. chatCall[c] \in Chat!CallState BY DEF Chat!TypeOK
<1>2. [chatCall[c] EXCEPT !.pc = step] \in Chat!CallState /\ [chatCall[c] EXCEPT !.pc = step].pc = step
  BY <1>1 DEF Chat!CallState, Steps
<1>3. chatCall' = [chatCall EXCEPT ![c] = [chatCall[c] EXCEPT !.pc = step]] BY DEF Chat!Goto
<1> QED BY <1>2, <1>3 DEF Chat!TypeOK

\* A call is over.
LEMMA CallEnds ==
  ASSUME Chat!TypeOK, NEW c \in Pair, Chat!Over(c)
  PROVE  /\ chatCall' \in [Pair -> Chat!CallState \cup {Nil}] /\ chatCall'[c] = Nil
         /\ \A d \in Pair \ {c} : chatCall'[d] = chatCall[d]
         /\ Carries(c)' /\ Careful(c)' /\ Chat!Deals(c)' = {}
<1>1. chatCall' = [chatCall EXCEPT ![c] = Nil] BY DEF Chat!Over
<1>2. chatCall' \in [Pair -> Chat!CallState \cup {Nil}] /\ chatCall'[c] = Nil
      /\ \A d \in Pair \ {c} : chatCall'[d] = chatCall[d]
  BY <1>1 DEF Chat!TypeOK
<1> QED BY <1>2 DEF Carries, Careful, Chat!Deals

\* A step of one call that writes no code, conversation or turn.
LEMMA PlainStep ==
  ASSUME Chat!ChatAssumption, ChatIInv,
           NEW c \in Pair, \A d \in Pair \ {c} : chatCall'[d] = chatCall[d],
         UNCHANGED <<code, owner, running, chatCrossed>>,
         Carries(c)', Careful(c)', Chat!Deals(c)' \subseteq Chat!Deals(c)
  PROVE  CallsFit' /\ DealsAlone' /\ WithoutGaps'
<1>1. RowsStay /\ OwnersStay /\ \A k \in Codes : Decided(k)' = Decided(k)
  BY DEF RowsStay, OwnersStay, Decided
<1>2. \A d \in Pair \ {c} : Chat!Deals(c)' \cap Chat!Deals(d) \subseteq chatCrossed'
  BY DEF ChatIInv, DealsAlone
<1>3. CallsFit' /\ DealsAlone' BY <1>1, <1>2, CallMoved
<1>4. WithoutGaps' BY DEF ChatIInv, WithoutGaps
<1> QED BY <1>3, <1>4

\* A message or a request that is not about one code comes in.
LEMMA ChatBegun ==
  ASSUME Chat!ChatAssumption, ChatIInv, NEW c \in Pair, NEW kind \in Chat!Kinds,
           NEW new \in Chat!CallState,
         new.pc \in {"auth", "sessions", "clear"}, new.pc # "clear" => new.user \in Persons,
         chatCall[c] = Nil, Chat!Spend(kind), chatCall' = [chatCall EXCEPT ![c] = new],
         UNCHANGED <<code, Chat!rows, chatCrossed>>
  PROVE  ChatIInv'
<1> USE DEF ChatIInv, Chat!rows
<1>1. Nil \notin Chat!CallState BY DEF Chat!ChatAssumption
<1>2. chatCall' \in [Pair -> Chat!CallState \cup {Nil}] /\ chatCall'[c] = new
      /\ \A d \in Pair \ {c} : chatCall'[d] = chatCall[d]
  BY DEF Chat!TypeOK
<1>3. Chat!TypeOK'
  <2>1. chatUsed' \in [Chat!Kinds -> Nat] BY ChatSpent
  <2> QED BY <1>2, <2>1 DEF Chat!TypeOK
<1>4. Carries(c)' /\ Careful(c)' /\ Chat!Deals(c)' = {}
  BY <1>2 DEF Carries, Careful, Chat!Deals, InTurn
<1>5. CallsFit' /\ DealsAlone' /\ WithoutGaps' BY <1>2, <1>4, PlainStep
<1>6. Chat!SessionHasMember' /\ Chat!ContextsAreSeparate'
  BY DEF Chat!SessionHasMember, Chat!ContextsAreSeparate
<1> QED BY <1>3, <1>5, <1>6

-----------------------------------------------------------------------------
\* What comes in keeps the invariant.
LEMMA ArrivesKeeps ==
  ASSUME Chat!ChatAssumption, ChatIInv, NEW c \in Pair,
         \/ \E u \in Persons, kind \in Chat!Kinds : Chat!Arrive(c, u, kind)
         \/ \E u \in Persons : Chat!Revoke(c, u)
         \/ Chat!Sync(c)
  PROVE  ChatIInv'
<1>1. ASSUME NEW u \in Persons, NEW kind \in Chat!Kinds, Chat!Arrive(c, u, kind) PROVE ChatIInv'
  <2> DEFINE new == [Chat!Fresh(kind, "auth") EXCEPT !.user = u]
  <2>1. new \in Chat!CallState /\ new.pc = "auth" /\ new.user = u /\ new.kind = kind
    BY DEF Chat!Fresh, Chat!CallState
  <2> HIDE DEF new
  <2>2. chatCall[c] = Nil /\ Chat!Spend(new.kind) /\ chatCall' = [chatCall EXCEPT ![c] = new]
          /\ UNCHANGED <<code, Chat!rows, chatCrossed>>
    BY <1>1 DEF Chat!Arrive, Chat!Begin, new
  <2> QED BY <2>1, <2>2, ChatBegun
<1>2. ASSUME NEW u \in Persons, Chat!Revoke(c, u) PROVE ChatIInv'
  <2> DEFINE new == [Chat!Fresh("revoke", "sessions") EXCEPT !.user = u, !.grant = grants[u]]
  <2>1. grants[u] \in Nat /\ "revoke" \in Chat!Kinds BY DEF ChatIInv, Chat!TypeOK, Chat!Kinds
  <2>2. new \in Chat!CallState /\ new.pc = "sessions" /\ new.user = u /\ new.kind = "revoke"
    BY <2>1 DEF Chat!Fresh, Chat!CallState
  <2> HIDE DEF new
  <2>3. chatCall[c] = Nil /\ Chat!Spend(new.kind) /\ chatCall' = [chatCall EXCEPT ![c] = new]
          /\ UNCHANGED <<code, Chat!rows, chatCrossed>>
    BY <1>2 DEF Chat!Revoke, Chat!Begin, new
  <2> QED BY <2>1, <2>2, <2>3, ChatBegun
<1>3. CASE Chat!Sync(c)
  <2> DEFINE there == {<<session[s].user, session[s].grant>> : s \in {x \in Chat!SessionIds : session[x] # Nil}}
  <2> DEFINE new == [Chat!Fresh("sync", "clear") EXCEPT !.todo = there]
  <2>1. there \in SUBSET (Persons \X Nat) /\ "sync" \in Chat!Kinds
    <3>1. \A s \in Chat!SessionIds : session[s] # Nil => session[s] \in Chat!SessionRow
      BY DEF ChatIInv, Chat!TypeOK
    <3>2. \A r \in Chat!SessionRow : r.user \in Persons /\ r.grant \in Nat BY DEF Chat!SessionRow
    <3> QED BY <3>1, <3>2 DEF Chat!Kinds
  <2> HIDE DEF there
  <2>2. new \in Chat!CallState /\ new.pc = "clear" /\ new.kind = "sync"
    BY <2>1 DEF Chat!Fresh, Chat!CallState
  <2> HIDE DEF new
  <2>3. chatCall[c] = Nil /\ Chat!Spend(new.kind) /\ chatCall' = [chatCall EXCEPT ![c] = new]
          /\ UNCHANGED <<code, Chat!rows, chatCrossed>>
    BY <1>3 DEF Chat!Sync, Chat!Begin, new, there
  <2> QED BY <2>1, <2>2, <2>3, ChatBegun
<1> QED BY <1>1, <1>2, <1>3

\* What is assigned to a call.
LEMMA Assigned ==
  ASSUME Chat!TypeOK, NEW c \in Pair,
           NEW new \in Chat!CallState, chatCall' = [chatCall EXCEPT ![c] = new]
  PROVE  /\ chatCall' \in [Pair -> Chat!CallState \cup {Nil}] /\ chatCall'[c] = new
         /\ \A d \in Pair \ {c} : chatCall'[d] = chatCall[d]
BY DEF Chat!TypeOK

\* A step that changes no row of the database.
LEMMA RowsKept ==
  ASSUME ChatIInv, UNCHANGED <<code, Chat!rows, chatUsed>>, chatCrossed' \subseteq Persons,
         chatCall' \in [Pair -> Chat!CallState \cup {Nil}]
  PROVE  Chat!TypeOK' /\ Chat!SessionHasMember' /\ Chat!ContextsAreSeparate' /\ WithoutGaps'
BY DEF ChatIInv, Chat!rows, Chat!TypeOK, Chat!SessionHasMember, Chat!ContextsAreSeparate, WithoutGaps

\* What is known of a call.
LEMMA IsCall ==
  ASSUME Chat!ChatAssumption, ChatIInv, NEW c \in Pair, chatCall[c] # Nil
  PROVE  /\ chatCall[c] \in Chat!CallState /\ chatCall[c].pc \in Steps
              /\ chatCall[c].kind \in Chat!Kinds
         /\ chatCall[c].grant \in Nat /\ chatCall[c].codes \subseteq Codes
         /\ Carries(c) /\ Careful(c)
<1>1. chatCall[c] \in Chat!CallState BY DEF ChatIInv, Chat!TypeOK
<1> QED BY <1>1 DEF ChatIInv, CallsFit, Chat!CallState, Steps

\* A call that is given a conversation.
LEMMA WithConv ==
  ASSUME NEW x \in Chat!CallState, NEW v \in Chat!ConvIds \cup {Nil},
           NEW step \in {"create", "send", "load"}
  PROVE  [x EXCEPT !.conv = v, !.pc = step] \in Chat!CallState
<1> DEFINE y == [x EXCEPT !.conv = v]
<1>1. y \in Chat!CallState BY DEF Chat!CallState
<1>2. [x EXCEPT !.conv = v, !.pc = step] = [y EXCEPT !.pc = step] OBVIOUS
<1> HIDE DEF y
<1>3. [y EXCEPT !.pc = step] \in Chat!CallState BY <1>1 DEF Chat!CallState
<1> QED BY <1>2, <1>3

\* The looks at the rows, and the ends: a call goes on, or is over.
LEMMA LooksKeep ==
  ASSUME Chat!ChatAssumption, ChatIInv, NEW c \in Pair,
         \/ Chat!Known(c) \/ Chat!Stranger(c) \/ Chat!AdmitTwice(c) \/ Chat!FindNone(c)
           \/ Chat!Load(c) \/ Chat!Subscribe(c)
         \/ Chat!RelayEnds(c) \/ (\E s \in Chat!SessionIds : Chat!Find(c, s))
           \/ (\E k \in Codes : Chat!DrawTaken(c, k))
  PROVE  ChatIInv'
<1>0. UNCHANGED <<code, Chat!rows, chatUsed, chatCrossed>> /\ UNCHANGED <<owner, running>>
  BY DEF Chat!Known, Chat!Stranger, Chat!AdmitTwice, Chat!FindNone, Chat!Load, Chat!Subscribe,
     Chat!RelayEnds, Chat!Find, Chat!DrawTaken, Chat!rows
<1>1. chatCall[c] # Nil
  BY DEF Chat!Known, Chat!Stranger, Chat!AdmitTwice, Chat!FindNone, Chat!Load, Chat!Subscribe,
     Chat!RelayEnds, Chat!Find, Chat!DrawTaken, Chat!At
<1>2. /\ chatCall[c] \in Chat!CallState /\ chatCall[c].pc \in Steps /\ chatCall[c].kind \in Chat!Kinds
      /\ chatCall[c].grant \in Nat /\ Carries(c)
  BY <1>1, IsCall
<1>3. ASSUME chatCall' \in [Pair -> Chat!CallState \cup {Nil}], \A d \in Pair \ {c} : chatCall'[d]
               = chatCall[d],
             Carries(c)', Careful(c)', Chat!Deals(c)' \subseteq Chat!Deals(c)
      PROVE  ChatIInv'
  <2>1. CallsFit' /\ DealsAlone' /\ WithoutGaps' BY <1>0, <1>3, PlainStep
  <2>2. chatCrossed' \subseteq Persons BY <1>0 DEF ChatIInv, Chat!TypeOK
  <2>3. Chat!TypeOK' /\ Chat!SessionHasMember' /\ Chat!ContextsAreSeparate'
    BY <1>0, <1>3, <2>2, RowsKept
  <2> QED BY <2>1, <2>3 DEF ChatIInv
<1>4. CASE Chat!Over(c) BY <1>3, <1>4, CallEnds DEF ChatIInv
<1>5. CASE Chat!Known(c)
  <2> DEFINE u == chatCall[c].user
  <2> DEFINE n == grants[u]
  <2> DEFINE step == IF chatCall[c].kind = "text" THEN "find" ELSE "drop"
  <2> DEFINE new == [chatCall[c] EXCEPT !.grant = n, !.pc = step]
  <2>1. /\ chatCall' = [chatCall EXCEPT ![c] = new] /\ chatCall[c].pc = "auth" /\ u \in Persons
    BY <1>1, <1>2, <1>5 DEF Chat!Known, Chat!At, Carries
  <2>2. n \in Nat /\ step \in {"find", "drop"} BY <2>1 DEF ChatIInv, Chat!TypeOK
  <2> HIDE DEF n, step
  <2>3. /\ new \in Chat!CallState /\ new.pc \in {"find", "drop"} /\ new.user = u
    BY <1>2, <2>2 DEF Chat!CallState
  <2> HIDE DEF new
  <2>4. /\ chatCall' \in [Pair -> Chat!CallState \cup {Nil}] /\ chatCall'[c] = new
        /\ \A d \in Pair \ {c} : chatCall'[d] = chatCall[d]
    BY <2>1, <2>3, Assigned DEF ChatIInv
  <2>5. Carries(c)' /\ Careful(c)' /\ Chat!Deals(c)' = {}
    BY <2>1, <2>3, <2>4 DEF Carries, Careful, Chat!Deals, InTurn
  <2> QED BY <1>3, <2>4, <2>5
<1>6. CASE Chat!Stranger(c) \/ Chat!FindNone(c)
  <2>1. PICK step \in {"list", "insert"} : Chat!Goto(c, step) BY <1>6 DEF Chat!Stranger, Chat!FindNone
  <2>2. /\ chatCall' \in [Pair -> Chat!CallState \cup {Nil}]
             /\ \A d \in Pair \ {c} : chatCall'[d] = chatCall[d]
        /\ chatCall'[c] = [chatCall[c] EXCEPT !.pc = step] /\ chatCall'[c] \in Chat!CallState
             /\ chatCall'[c].pc = step
    BY <1>1, <2>1, CallGoes DEF ChatIInv, Steps
  <2>3. chatCall'[c].user \in Persons
    <3>1. chatCall[c].user \in Persons
      BY <1>1, <1>2, <1>6 DEF Carries, Chat!Stranger, Chat!FindNone, Chat!At
    <3> QED BY <1>2, <2>2, <3>1 DEF Chat!CallState
  <2>4. Carries(c)' /\ Careful(c)' /\ Chat!Deals(c)' = {}
    BY <2>2, <2>3 DEF Carries, Careful, Chat!Deals, InTurn
  <2> QED BY <1>3, <2>2, <2>4
<1>7. CASE Chat!Load(c) /\ ~Chat!Over(c)
  <2> DEFINE s == chatCall[c].session
  <2> DEFINE row == session[s]
  <2> DEFINE v == row.conv
  <2> DEFINE step == IF row.conv = Nil THEN "create" ELSE "send"
  <2> DEFINE new == [chatCall[c] EXCEPT !.conv = v, !.pc = step]
  <2>1. chatCall[c].pc = "load" /\ s \in Chat!SessionIds /\ chatCall[c].user \in Persons
    BY <1>1, <1>2, <1>7 DEF Chat!Load, Chat!At, Carries
  <2>2. row # Nil /\ chatCall' = [chatCall EXCEPT ![c] = new] BY <1>7 DEF Chat!Load
  <2>3. row \in Chat!SessionRow /\ row.conv \in Chat!ConvIds \cup {Nil}
    <3>1. row \in Chat!SessionRow BY <2>1, <2>2 DEF ChatIInv, Chat!TypeOK
    <3> QED BY <3>1 DEF Chat!SessionRow
  <2>4. row.conv # Nil => owner[row.conv] = s
    BY <2>1, <2>2 DEF ChatIInv, Chat!ContextsAreSeparate
  <2>4a. v \in Chat!ConvIds \cup {Nil} /\ step = (IF v = Nil THEN "create" ELSE "send") BY <2>3
  <2> HIDE DEF v, step
  <2>4b. step \in {"create", "send"} BY <2>4a
  <2>5a. new \in Chat!CallState BY <1>2, <2>4a, <2>4b, WithConv
  <2>5b. new.pc = step /\ new.user = chatCall[c].user /\ new.session = chatCall[c].session
        /\ new.conv = v
    BY <1>2 DEF Chat!CallState
  <2>5. new \in Chat!CallState /\ new.pc = step /\ new.user = chatCall[c].user /\ new.session = s
          /\ new.conv = v
    BY <2>5a, <2>5b
  <2> HIDE DEF new
  <2>6. /\ chatCall' \in [Pair -> Chat!CallState \cup {Nil}] /\ chatCall'[c] = new
        /\ \A d \in Pair \ {c} : chatCall'[d] = chatCall[d]
    BY <2>2, <2>5, Assigned DEF ChatIInv
  <2>7. Carries(c)' /\ Careful(c)' /\ Chat!Deals(c)' = {}
    BY <1>0, <2>1, <2>4, <2>4a, <2>5, <2>6 DEF Carries, Careful, Chat!Deals, InTurn, v
  <2> QED BY <1>3, <2>6, <2>7
<1>8. CASE Chat!Subscribe(c)
  <2>1. chatCall[c].pc = "subscribe" BY <1>8 DEF Chat!Subscribe, Chat!At
  <2>2. PICK step \in {"bind", "relay"} : Chat!Goto(c, step) BY <1>8 DEF Chat!Subscribe
  <2>3. /\ chatCall' \in [Pair -> Chat!CallState \cup {Nil}]
             /\ \A d \in Pair \ {c} : chatCall'[d] = chatCall[d]
        /\ chatCall'[c] = [chatCall[c] EXCEPT !.pc = step] /\ chatCall'[c] \in Chat!CallState
             /\ chatCall'[c].pc = step
    BY <1>1, <2>2, CallGoes DEF ChatIInv, Steps
  <2>4. /\ chatCall'[c].user = chatCall[c].user /\ chatCall'[c].session = chatCall[c].session
        /\ chatCall'[c].conv = chatCall[c].conv
    BY <1>2, <2>3 DEF Chat!CallState
  <2>5. Carries(c)' /\ Careful(c)' /\ Chat!Deals(c)' = {}
    BY <1>0, <1>1, <1>2, <2>1, <2>3, <2>4 DEF Carries, Careful, Chat!Deals, InTurn
  <2> QED BY <1>3, <2>3, <2>5
<1>9. ASSUME NEW s \in Chat!SessionIds, Chat!Find(c, s), ~Chat!Over(c) PROVE ChatIInv'
  <2> DEFINE new == [chatCall[c] EXCEPT !.session = s, !.pc = "load", !.unbound = (session[s].conv
               = Nil)]
  <2>1. chatCall' = [chatCall EXCEPT ![c] = new] /\ chatCall[c].pc = "find"
    BY <1>9 DEF Chat!Find, Chat!At
  <2> DEFINE b == (session[s].conv = Nil)
  <2>2a. b \in BOOLEAN OBVIOUS
  <2>2b. new = [chatCall[c] EXCEPT !.session = s, !.pc = "load", !.unbound = b] OBVIOUS
  <2> HIDE DEF new, b
  <2>2c. new \in Chat!CallState BY <1>2, <2>2a, <2>2b DEF Chat!CallState
  <2>2d. new.pc = "load" /\ new.session = s /\ new.user = chatCall[c].user
    BY <1>2, <2>2b DEF Chat!CallState
  <2>2. new \in Chat!CallState /\ new.pc = "load" /\ new.session = s /\ new.user = chatCall[c].user
    BY <2>2c, <2>2d
  <2>3. /\ chatCall' \in [Pair -> Chat!CallState \cup {Nil}] /\ chatCall'[c] = new
        /\ \A d \in Pair \ {c} : chatCall'[d] = chatCall[d]
    BY <2>1, <2>2, Assigned DEF ChatIInv
  <2>4. chatCall[c].user \in Persons BY <1>1, <1>2, <2>1 DEF Carries
  <2>5. Carries(c)' /\ Careful(c)' /\ Chat!Deals(c)' = {}
    BY <2>2, <2>3, <2>4 DEF Carries, Careful, Chat!Deals, InTurn
  <2> QED BY <1>3, <2>3, <2>5
<1> QED
  <2>1. CASE Chat!AdmitTwice(c) \/ Chat!RelayEnds(c) \/ \E k \in Codes : Chat!DrawTaken(c, k)
    BY <1>4, <2>1 DEF Chat!AdmitTwice, Chat!RelayEnds, Chat!DrawTaken
  <2> QED BY <1>4, <1>5, <1>6, <1>7, <1>8, <1>9, <2>1

-----------------------------------------------------------------------------
(* Sessions and members *)

\* Sessions deleted, and a user with them who then has none left.
LEMMA DroppedKeeps ==
  ASSUME Chat!ChatAssumption, ChatIInv, NEW c \in Pair, NEW u \in Persons, NEW n \in Nat,
         Chat!Delete(Chat!Of(u, n)),
         UNCHANGED member \/ member' = [member EXCEPT ![u] = @ /\ grants[u] # n],
         chatCall' \in [Pair -> Chat!CallState \cup {Nil}], \A d \in Pair \ {c} : chatCall'[d]
           = chatCall[d],
         Carries(c)', Careful(c)', Chat!Deals(c)' = {},
         UNCHANGED <<code, grants, made, owner, running, chatUsed, chatCrossed>>
  PROVE  ChatIInv'
<1> USE DEF ChatIInv
<1>1. /\ \A s \in Chat!SessionIds : session'[s] # Nil => session'[s] = session[s]
      /\ \A s \in Chat!SessionIds : session'[s] # Nil => ~(session[s].user = u /\ session[s].grant = n)
      /\ session' \in [Chat!SessionIds -> Chat!SessionRow \cup {Nil}]
  BY DEF Chat!Delete, Chat!Of, Chat!TypeOK
<1>2. member' \in [Persons -> BOOLEAN]
  BY DEF Chat!TypeOK
<1>3. ASSUME NEW w \in Persons, member[w], w # u \/ grants[u] # n PROVE member'[w]
  <2>1. member \in [Persons -> BOOLEAN] BY DEF Chat!TypeOK
  <2>2. CASE w # u BY <1>3, <2>1, <2>2
  <2>3. CASE w = u /\ grants[u] # n BY <1>3, <2>1, <2>3
  <2> QED BY <1>3, <2>2, <2>3
<1>4. Chat!SessionHasMember'
  <2> SUFFICES ASSUME NEW s \in Chat!SessionIds, session'[s] # Nil
               PROVE  member'[session'[s].user] /\ grants'[session'[s].user] = session'[s].grant
    BY DEF Chat!SessionHasMember
  <2>1. session'[s] = session[s] /\ session[s] \in Chat!SessionRow BY <1>1 DEF Chat!TypeOK
  <2>2. member[session[s].user] /\ grants[session[s].user] = session[s].grant
          /\ session[s].user \in Persons
    BY <2>1 DEF Chat!SessionHasMember, Chat!SessionRow
  <2>3. session[s].user # u \/ grants[u] # n BY <1>1, <2>2
  <2> QED BY <1>3, <2>1, <2>2, <2>3
<1>5. Chat!ContextsAreSeparate' BY <1>1 DEF Chat!ContextsAreSeparate
<1>8. CallsFit' /\ DealsAlone' /\ WithoutGaps' BY PlainStep
<1>9. Chat!TypeOK' BY <1>1, <1>2 DEF Chat!TypeOK
<1> QED BY <1>4, <1>5, <1>8, <1>9

\* Renewal, revocation and the clearing of sessions keep the invariant.
LEMMA DeletesKeep ==
  ASSUME Chat!ChatAssumption, ChatIInv, NEW c \in Pair,
         \/ Chat!Drop(c) \/ Chat!CleanSessions(c) \/ Chat!DeleteUser(c)
         \/ \E u \in Persons, n \in Nat : Chat!Clear(c, u, n)
  PROVE  ChatIInv'
<1>0. chatCall[c] # Nil BY DEF Chat!Drop, Chat!CleanSessions, Chat!DeleteUser, Chat!Clear, Chat!At
<1>1. chatCall[c] \in Chat!CallState /\ chatCall[c].grant \in Nat /\ Carries(c) BY <1>0, IsCall
<1>2. CASE Chat!Drop(c) \/ Chat!CleanSessions(c)
  <2>1. /\ chatCall[c].pc \in {"drop", "sessions"}
             /\ Chat!Delete(Chat!Of(chatCall[c].user, chatCall[c].grant))
        /\ UNCHANGED <<code, member, grants, made, owner, running, chatUsed, chatCrossed>>
    BY <1>2 DEF Chat!Drop, Chat!CleanSessions, Chat!At
  <2>2. PICK step \in {"find", "user"} : Chat!Goto(c, step) BY <1>2 DEF Chat!Drop, Chat!CleanSessions
  <2>3. chatCall[c].user \in Persons BY <1>0, <1>1, <2>1 DEF Carries
  <2>4. /\ chatCall' \in [Pair -> Chat!CallState \cup {Nil}]
             /\ \A d \in Pair \ {c} : chatCall'[d] = chatCall[d]
        /\ chatCall'[c] = [chatCall[c] EXCEPT !.pc = step] /\ chatCall'[c] \in Chat!CallState
             /\ chatCall'[c].pc = step
    BY <1>0, <2>2, CallGoes DEF Steps, ChatIInv
  <2>5. chatCall'[c].user = chatCall[c].user BY <1>1, <2>4 DEF Chat!CallState
  <2>6. Carries(c)' /\ Careful(c)' /\ Chat!Deals(c)' = {}
    BY <2>3, <2>4, <2>5 DEF Carries, Careful, Chat!Deals, InTurn
  <2> QED BY <1>1, <2>1, <2>3, <2>4, <2>6, DroppedKeeps
<1>3. CASE Chat!DeleteUser(c)
  <2> DEFINE u == chatCall[c].user
  <2>1. /\ chatCall[c].pc = "user" /\ Chat!Delete(Chat!Of(u, chatCall[c].grant)) /\ Chat!Over(c)
        /\ member' = [member EXCEPT ![u] = @ /\ grants[u] # chatCall[c].grant]
        /\ UNCHANGED <<code, grants, made, owner, running, chatUsed, chatCrossed>>
    BY <1>3 DEF Chat!DeleteUser, Chat!At
  <2>2. u \in Persons BY <1>0, <1>1, <2>1 DEF Carries
  <2>3. /\ chatCall' \in [Pair -> Chat!CallState \cup {Nil}]
             /\ \A d \in Pair \ {c} : chatCall'[d] = chatCall[d]
        /\ Carries(c)' /\ Careful(c)' /\ Chat!Deals(c)' = {}
    BY <2>1, CallEnds DEF ChatIInv
  <2> QED BY <1>1, <2>1, <2>2, <2>3, DroppedKeeps
<1>4. ASSUME NEW u \in Persons, NEW n \in Nat, Chat!Clear(c, u, n) PROVE ChatIInv'
  <2>1. /\ chatCall[c].pc = "clear" /\ Chat!Delete(Chat!Of(u, n))
        /\ UNCHANGED <<code, member, grants, made, owner, running, chatUsed, chatCrossed>>
    BY <1>4 DEF Chat!Clear, Chat!At
  <2>2. CASE Chat!Over(c)
    <3>1. /\ chatCall' \in [Pair -> Chat!CallState \cup {Nil}]
               /\ \A d \in Pair \ {c} : chatCall'[d] = chatCall[d]
          /\ Carries(c)' /\ Careful(c)' /\ Chat!Deals(c)' = {}
      BY <2>2, CallEnds DEF ChatIInv
    <3> QED BY <2>1, <3>1, DroppedKeeps
  <2>3. CASE ~Chat!Over(c)
    <3> DEFINE there == chatCall[c].todo \ {<<u, n>>}
    <3> DEFINE new == [chatCall[c] EXCEPT !.todo = there]
    <3>1. chatCall' = [chatCall EXCEPT ![c] = new] BY <1>4, <2>3 DEF Chat!Clear
    <3>2. there \in SUBSET (Persons \X Nat) BY <1>1 DEF Chat!CallState
    <3> HIDE DEF there
    <3>3. new \in Chat!CallState /\ new.pc = "clear" BY <1>1, <2>1, <3>2 DEF Chat!CallState
    <3> HIDE DEF new
    <3>4. /\ chatCall' \in [Pair -> Chat!CallState \cup {Nil}] /\ chatCall'[c] = new
          /\ \A d \in Pair \ {c} : chatCall'[d] = chatCall[d]
      BY <3>1, <3>3, Assigned DEF ChatIInv
    <3>5. Carries(c)' /\ Careful(c)' /\ Chat!Deals(c)' = {}
      BY <3>3, <3>4 DEF Carries, Careful, Chat!Deals, InTurn
    <3> QED BY <2>1, <3>4, <3>5, DroppedKeeps
  <2> QED BY <2>2, <2>3
<1> QED BY <1>2, <1>3, <1>4

\* A new session keeps the invariant: the foreign key wants a member.
LEMMA SessionInsertKeeps == ASSUME Chat!ChatAssumption, ChatIInv, NEW c \in Pair, Chat!Insert(c)
  PROVE ChatIInv'
<1> USE DEF ChatIInv
<1> DEFINE u == chatCall[c].user
<1> DEFINE n == chatCall[c].grant
<1>0. chatCall[c] # Nil /\ chatCall[c].pc = "insert" BY DEF Chat!Insert, Chat!At
<1>1. chatCall[c] \in Chat!CallState /\ n \in Nat /\ Carries(c) BY <1>0, IsCall
<1>2. u \in Persons BY <1>0, <1>1 DEF Carries
<1>3. UNCHANGED <<code, member, grants, owner, running, chatUsed, chatCrossed>> BY DEF Chat!Insert
<1>4. ASSUME chatCall' \in [Pair -> Chat!CallState \cup {Nil}], \A d \in Pair \ {c} : chatCall'[d]
               = chatCall[d],
             Carries(c)', Careful(c)', Chat!Deals(c)' = {}
      PROVE  ChatIInv'
  <2>1. CallsFit' /\ DealsAlone' /\ WithoutGaps' BY <1>3, <1>4, PlainStep
  <2>2. CASE UNCHANGED <<session, made>>
    <3>1. Chat!TypeOK' /\ Chat!SessionHasMember' /\ Chat!ContextsAreSeparate'
      BY <1>3, <1>4, <2>2 DEF Chat!TypeOK, Chat!SessionHasMember, Chat!ContextsAreSeparate
    <3> QED BY <2>1, <3>1
  <2>3. CASE ~UNCHANGED <<session, made>>
    <3> DEFINE row == [user |-> u, grant |-> n, conv |-> Nil]
    <3>1. /\ member[u] /\ grants[u] = n /\ made < MaxRows /\ made' = made + 1
          /\ session' = [session EXCEPT ![made + 1] = row]
      BY <2>3 DEF Chat!Insert
    <3>2. MaxRows \in Nat /\ made \in 0 .. MaxRows BY DEF Chat!ChatAssumption, Chat!TypeOK
    <3>3. made' \in 0 .. MaxRows /\ made + 1 \in Chat!SessionIds BY <3>1, <3>2 DEF Chat!SessionIds
    <3>4. row \in Chat!SessionRow /\ row.user = u /\ row.grant = n /\ row.conv = Nil
      BY <1>1, <1>2 DEF Chat!SessionRow
    <3> HIDE DEF row
    <3>5. /\ session' \in [Chat!SessionIds -> Chat!SessionRow \cup {Nil}]
          /\ \A s \in Chat!SessionIds : session'[s] = IF s = made + 1 THEN row ELSE session[s]
      BY <3>1, <3>3, <3>4 DEF Chat!TypeOK
    <3>6. Chat!TypeOK' BY <1>3, <1>4, <3>3, <3>5 DEF Chat!TypeOK
    <3>7. Chat!SessionHasMember' BY <1>3, <3>1, <3>4, <3>5 DEF Chat!SessionHasMember
    <3>8. Chat!ContextsAreSeparate' BY <1>3, <3>4, <3>5 DEF Chat!ContextsAreSeparate
    <3> QED BY <2>1, <3>6, <3>7, <3>8
  <2> QED BY <2>2, <2>3
<1>5. CASE Chat!Over(c)
  <2>1. /\ chatCall' \in [Pair -> Chat!CallState \cup {Nil}]
             /\ \A d \in Pair \ {c} : chatCall'[d] = chatCall[d]
        /\ Carries(c)' /\ Careful(c)' /\ Chat!Deals(c)' = {}
    BY <1>5, CallEnds
  <2> QED BY <1>4, <2>1
<1>6. CASE ~Chat!Over(c)
  <2> DEFINE s == made + 1
  <2> DEFINE new == [chatCall[c] EXCEPT !.session = s, !.pc = "load", !.unbound = TRUE]
  <2>1. chatCall' = [chatCall EXCEPT ![c] = new] /\ made < MaxRows BY <1>6 DEF Chat!Insert
  <2>2. s \in Chat!SessionIds
    <3>1. MaxRows \in Nat /\ made \in 0 .. MaxRows BY DEF Chat!ChatAssumption, Chat!TypeOK
    <3> QED BY <2>1, <3>1 DEF Chat!SessionIds
  <2> HIDE DEF s
  <2>3a. new \in Chat!CallState BY <1>1, <2>2 DEF Chat!CallState
  <2>3b. new.pc = "load" /\ new.session = s /\ new.user = u BY <1>1, <2>2 DEF Chat!CallState
  <2>3. new \in Chat!CallState /\ new.pc = "load" /\ new.session = s /\ new.user = u
    BY <2>3a, <2>3b
  <2> HIDE DEF new
  <2>4. /\ chatCall' \in [Pair -> Chat!CallState \cup {Nil}] /\ chatCall'[c] = new
        /\ \A d \in Pair \ {c} : chatCall'[d] = chatCall[d]
    BY <2>1, <2>3, Assigned
  <2>5. Carries(c)' /\ Careful(c)' /\ Chat!Deals(c)' = {}
    BY <1>2, <2>2, <2>3, <2>4 DEF Carries, Careful, Chat!Deals, InTurn
  <2> QED BY <1>4, <2>4, <2>5
<1> QED BY <1>5, <1>6

\* bind_conversation writes a conversation made for that session.
LEMMA BindKeeps == ASSUME Chat!ChatAssumption, ChatIInv, NEW c \in Pair, Chat!Bind(c) PROVE ChatIInv'
<1> USE DEF ChatIInv
<1> DEFINE s == chatCall[c].session
<1> DEFINE v == chatCall[c].conv
<1>0. chatCall[c] # Nil /\ chatCall[c].pc = "bind" /\ Chat!Goto(c, "relay") BY DEF Chat!Bind, Chat!At
<1>1. chatCall[c] \in Chat!CallState /\ Carries(c) BY <1>0, IsCall
<1>2. /\ chatCall[c].user \in Persons /\ s \in Chat!SessionIds /\ v \in Chat!ConvIds /\ owner[v] = s
  BY <1>0, <1>1 DEF Carries, InTurn
<1>3. UNCHANGED <<code, member, grants, made, owner, running, chatUsed, chatCrossed>> BY DEF Chat!Bind
<1>4. /\ chatCall' \in [Pair -> Chat!CallState \cup {Nil}]
           /\ \A d \in Pair \ {c} : chatCall'[d] = chatCall[d]
      /\ chatCall'[c] = [chatCall[c] EXCEPT !.pc = "relay"] /\ chatCall'[c] \in Chat!CallState
           /\ chatCall'[c].pc = "relay"
  BY <1>0, CallGoes DEF Steps
<1>5. /\ chatCall'[c].user = chatCall[c].user /\ chatCall'[c].session = s /\ chatCall'[c].conv = v
  BY <1>1, <1>4 DEF Chat!CallState
<1>6. Carries(c)' /\ Careful(c)' /\ Chat!Deals(c)' = {}
  BY <1>2, <1>3, <1>4, <1>5 DEF Carries, Careful, Chat!Deals, InTurn
<1>7. CallsFit' /\ DealsAlone' /\ WithoutGaps' BY <1>3, <1>4, <1>6, PlainStep
<1>8. CASE session[s] = Nil
  <2>1. session' = session BY <1>8 DEF Chat!Bind
  <2>2. Chat!TypeOK' /\ Chat!SessionHasMember' /\ Chat!ContextsAreSeparate'
    BY <1>3, <1>4, <2>1 DEF Chat!TypeOK, Chat!SessionHasMember, Chat!ContextsAreSeparate
  <2> QED BY <1>7, <2>2
<1>9. CASE session[s] # Nil
  <2> DEFINE row == [session[s] EXCEPT !.conv = v]
  <2>1. session' = [session EXCEPT ![s] = row] BY <1>9 DEF Chat!Bind
  <2>2. session[s] \in Chat!SessionRow BY <1>2, <1>9 DEF Chat!TypeOK
  <2>3. row \in Chat!SessionRow /\ row.user = session[s].user /\ row.grant = session[s].grant
          /\ row.conv = v
    BY <1>2, <2>2 DEF Chat!SessionRow
  <2> HIDE DEF row
  <2>4. /\ session' \in [Chat!SessionIds -> Chat!SessionRow \cup {Nil}]
        /\ \A t \in Chat!SessionIds : session'[t] = IF t = s THEN row ELSE session[t]
    BY <1>2, <2>1, <2>3 DEF Chat!TypeOK
  <2>5. Chat!TypeOK' BY <1>3, <1>4, <2>4 DEF Chat!TypeOK
  <2>6. Chat!SessionHasMember' BY <1>2, <1>3, <1>9, <2>3, <2>4 DEF Chat!SessionHasMember
  <2>7. Chat!ContextsAreSeparate' BY <1>2, <1>3, <2>3, <2>4 DEF Chat!ContextsAreSeparate
  <2> QED BY <1>7, <2>5, <2>6, <2>7
<1> QED BY <1>8, <1>9

-----------------------------------------------------------------------------
(* Pairing codes *)

\* A step on codes leaves the rest of the rows.
LEMMA CodesKeep ==
  ASSUME ChatIInv, UNCHANGED Chat!rows, code' \in [Codes -> Chat!CodeRow \cup {Nil}], chatUsed' \in [Chat!Kinds -> Nat],
         chatCrossed' \subseteq Persons, chatCall' \in [Pair -> Chat!CallState \cup {Nil}], CallsFit', DealsAlone'
  PROVE  ChatIInv'
BY DEF ChatIInv, Chat!rows, Chat!TypeOK, Chat!SessionHasMember, Chat!ContextsAreSeparate, WithoutGaps

\* Whoever deals with the same codes is noticed.
LEMMA CrossFacts ==
  ASSUME ChatIInv, NEW c \in Pair, NEW u \in Persons, Chat!Cross(c, u)
  PROVE  /\ chatCrossed' \subseteq Persons /\ chatCrossed \subseteq chatCrossed'
         /\ \A d \in Pair \ {c} : {u} \cap Chat!Deals(d) \subseteq chatCrossed'
BY DEF ChatIInv, Chat!TypeOK, Chat!Cross

\* Listing the codes to expire keeps the invariant.
LEMMA ListPendingKeeps ==
  ASSUME Chat!ChatAssumption, ChatIInv, NEW c \in Pair, Chat!ListPending(c) PROVE ChatIInv'
<1> DEFINE u == chatCall[c].user
<1> DEFINE ks == Chat!Pending(u)
<1> DEFINE step == IF ks = {} THEN "draw" ELSE "expire"
<1> DEFINE new == [chatCall[c] EXCEPT !.codes = ks, !.pc = step]
<1>0. chatCall[c] # Nil /\ chatCall[c].pc = "list" /\ chatCall' = [chatCall EXCEPT ![c] = new]
        /\ Chat!Cross(c, u)
      /\ UNCHANGED <<code, Chat!rows, chatUsed>>
  BY DEF Chat!ListPending, Chat!At
<1>1. chatCall[c] \in Chat!CallState /\ Carries(c) BY <1>0, IsCall
<1>2. u \in Persons BY <1>0, <1>1 DEF Carries
<1>3. ks \subseteq Codes /\ step \in {"draw", "expire"}
      /\ \A k \in ks : code[k] # Nil /\ code[k].user = u /\ code[k].status = "pending"
  BY DEF Chat!Pending
<1> HIDE DEF ks, step
<1>4. new \in Chat!CallState /\ new.pc = step /\ new.codes = ks /\ new.user = u
  BY <1>1, <1>3 DEF Chat!CallState
<1> HIDE DEF new
<1>5. /\ chatCall' \in [Pair -> Chat!CallState \cup {Nil}] /\ chatCall'[c] = new
      /\ \A d \in Pair \ {c} : chatCall'[d] = chatCall[d]
  BY <1>0, <1>4, Assigned DEF ChatIInv
<1>6. /\ chatCrossed' \subseteq Persons /\ chatCrossed \subseteq chatCrossed'
      /\ \A d \in Pair \ {c} : {u} \cap Chat!Deals(d) \subseteq chatCrossed'
  BY <1>0, <1>2, CrossFacts
<1>7. Nil \notin Chat!CallState BY DEF Chat!ChatAssumption
<1>8. Carries(c)' /\ Careful(c)' /\ Chat!Deals(c)' \subseteq {u}
  BY <1>0, <1>2, <1>3, <1>4, <1>5, <1>7 DEF Carries, Careful, Chat!Deals, InTurn, Decided
<1>9. RowsStay /\ OwnersStay /\ \A k \in Codes : Decided(k)' = Decided(k)
  BY <1>0 DEF RowsStay, OwnersStay, Decided, Chat!rows
<1>10. \A d \in Pair \ {c} : Chat!Deals(c)' \cap Chat!Deals(d) \subseteq chatCrossed' BY <1>6, <1>8
<1>11. CallsFit' /\ DealsAlone' BY <1>5, <1>6, <1>8, <1>9, <1>10, CallMoved
<1> QED BY <1>0, <1>5, <1>6, <1>11, CodesKeep DEF ChatIInv, Chat!TypeOK

\* A request of the owner about a code keeps the invariant.
LEMMA DecideKeeps ==
  ASSUME Chat!ChatAssumption, ChatIInv, NEW c \in Pair, NEW k \in Codes,
           NEW kind \in Chat!Kinds, Chat!Decide(c, k, kind)
  PROVE  ChatIInv'
<1> DEFINE u == code[k].user
<1> DEFINE step == IF kind = "approve" THEN "admit" ELSE "stamp"
<1> DEFINE verdict == IF kind = "approve" THEN "approved" ELSE "rejected"
<1> DEFINE new == [Chat!Fresh(kind, step) EXCEPT !.code = k, !.verdict = verdict]
<1>0. Chat!Valid(k) /\ Chat!Begin(c, new) /\ Chat!Cross(c, u) /\ UNCHANGED <<code, Chat!rows>>
  BY DEF Chat!Decide
<1>1. step \in {"admit", "stamp"} /\ verdict \in {"approved", "rejected"} OBVIOUS
<1>2. code[k] # Nil /\ code[k].status = "pending" /\ u \in Persons
  <2>1. code[k] # Nil /\ code[k].status = "pending" BY <1>0 DEF Chat!Valid
  <2>2. code[k] \in Chat!CodeRow BY <2>1 DEF ChatIInv, Chat!TypeOK
  <2> QED BY <2>1, <2>2 DEF Chat!CodeRow
<1> HIDE DEF step, verdict
<1>3. new \in Chat!CallState /\ new.pc = step /\ new.code = k /\ new.verdict = verdict
        /\ new.kind = kind
  BY <1>1 DEF Chat!Fresh, Chat!CallState, Chat!Statuses
<1> HIDE DEF new
<1>4. chatCall[c] = Nil /\ Chat!Spend(kind) /\ chatCall' = [chatCall EXCEPT ![c] = new]
  BY <1>0, <1>3 DEF Chat!Begin
<1>5. /\ chatCall' \in [Pair -> Chat!CallState \cup {Nil}] /\ chatCall'[c] = new
      /\ \A d \in Pair \ {c} : chatCall'[d] = chatCall[d]
  BY <1>3, <1>4, Assigned DEF ChatIInv
<1>6. /\ chatCrossed' \subseteq Persons /\ chatCrossed \subseteq chatCrossed'
      /\ \A d \in Pair \ {c} : {u} \cap Chat!Deals(d) \subseteq chatCrossed'
  BY <1>0, <1>2, CrossFacts
<1>7. Nil \notin Chat!CallState BY DEF Chat!ChatAssumption
<1>8. Carries(c)' /\ Careful(c)' /\ Chat!Deals(c)' \subseteq {u}
  BY <1>0, <1>1, <1>2, <1>3, <1>5, <1>7 DEF Carries, Careful, Chat!Deals, InTurn, Decided
<1>9. RowsStay /\ OwnersStay /\ \A j \in Codes : Decided(j)' = Decided(j)
  BY <1>0 DEF RowsStay, OwnersStay, Decided, Chat!rows
<1>10. \A d \in Pair \ {c} : Chat!Deals(c)' \cap Chat!Deals(d) \subseteq chatCrossed' BY <1>6, <1>8
<1>11. CallsFit' /\ DealsAlone' BY <1>5, <1>6, <1>8, <1>9, <1>10, CallMoved
<1>12. chatUsed' \in [Chat!Kinds -> Nat] BY <1>4, ChatSpent DEF ChatIInv
<1> QED BY <1>0, <1>5, <1>6, <1>11, <1>12, CodesKeep DEF ChatIInv, Chat!TypeOK

\* Writing a status.
LEMMA ChatWritten ==
  ASSUME Chat!ChatAssumption, ChatIInv, NEW k \in Codes, code[k] # Nil,
           NEW status \in Chat!Statuses, Chat!Write(k, status)
  PROVE  /\ code' \in [Codes -> Chat!CodeRow \cup {Nil}] /\ RowsStay
         /\ code'[k].status = status
         /\ \A j \in Codes : j # k => code'[j] = code[j]
<1> DEFINE row == [code[k] EXCEPT !.status = status]
<1>1. code[k] \in Chat!CodeRow /\ code \in [Codes -> Chat!CodeRow \cup {Nil}]
  BY DEF ChatIInv, Chat!TypeOK
<1>2. row \in Chat!CodeRow /\ row.status = status /\ row.user = code[k].user BY <1>1 DEF Chat!CodeRow
<1>3. code' = [code EXCEPT ![k] = row] BY DEF Chat!Write
<1>4. Nil \notin Chat!CodeRow BY DEF Chat!ChatAssumption
<1> HIDE DEF row
<1>5. \A j \in Codes : code'[j] = IF j = k THEN row ELSE code[j] BY <1>1, <1>3
<1> QED BY <1>1, <1>2, <1>3, <1>4, <1>5 DEF RowsStay

\* Marking a listed code expired keeps the invariant.
LEMMA ChatExpireKeeps ==
  ASSUME Chat!ChatAssumption, ChatIInv, NEW c \in Pair, NEW k \in Codes, Chat!Expire(c, k)
    PROVE ChatIInv'
<1> DEFINE ks == chatCall[c].codes \ {k}
<1> DEFINE step == IF chatCall[c].codes = {k} THEN "draw" ELSE "expire"
<1> DEFINE new == [chatCall[c] EXCEPT !.codes = ks, !.pc = step]
<1>0. chatCall[c] # Nil /\ chatCall[c].pc = "expire" /\ k \in chatCall[c].codes
        /\ Chat!Write(k, "expired")
      /\ chatCall' = [chatCall EXCEPT ![c] = new] /\ UNCHANGED <<Chat!rows, chatUsed, chatCrossed>>
  BY DEF Chat!Expire, Chat!At
<1>1. chatCall[c] \in Chat!CallState /\ chatCall[c].codes \subseteq Codes /\ Carries(c) /\ Careful(c)
  BY <1>0, IsCall
<1>2. /\ chatCall[c].user \in Persons
      /\ \A j \in chatCall[c].codes : code[j] # Nil /\ code[j].user = chatCall[c].user
      /\ chatCall[c].user \notin chatCrossed => \A j \in chatCall[c].codes : ~Decided(j)
  BY <1>0, <1>1 DEF Carries, Careful
<1>3. ks \subseteq Codes /\ step \in {"draw", "expire"} /\ ks \subseteq chatCall[c].codes BY <1>1
<1> HIDE DEF ks, step
<1>4. new \in Chat!CallState /\ new.pc = step /\ new.codes = ks /\ new.user = chatCall[c].user
  BY <1>1, <1>3 DEF Chat!CallState
<1> HIDE DEF new
<1>5. /\ chatCall' \in [Pair -> Chat!CallState \cup {Nil}] /\ chatCall'[c] = new
      /\ \A d \in Pair \ {c} : chatCall'[d] = chatCall[d]
  BY <1>0, <1>4, Assigned DEF ChatIInv
<1>6. /\ code' \in [Codes -> Chat!CodeRow \cup {Nil}] /\ RowsStay
      /\ code'[k].status = "expired" /\ \A j \in Codes : j # k => code'[j] = code[j]
  BY <1>0, <1>2, ChatWritten DEF Chat!Statuses
<1>7. Nil \notin Chat!CallState BY DEF Chat!ChatAssumption
<1>8. \A j \in Codes : Decided(j)' => Decided(j) BY <1>6 DEF Decided
<1>9. Chat!Deals(c) = {chatCall[c].user} BY <1>0 DEF Chat!Deals
<1>10. Carries(c)'
  BY <1>1, <1>2, <1>3, <1>4, <1>5, <1>6, <1>7 DEF Carries, RowsStay, InTurn
<1>11. Careful(c)'
  <2>1. ASSUME chatCall[c].user \notin chatCrossed, NEW j \in ks PROVE ~Decided(j)'
    <3>1. ~Decided(j) /\ j \in Codes BY <1>2, <1>3, <2>1
    <3> QED BY <1>8, <3>1
  <2> QED BY <1>0, <1>3, <1>4, <1>5, <2>1 DEF Careful
<1>12. Chat!Deals(c)' \subseteq {chatCall[c].user}
  BY <1>3, <1>4, <1>5, <1>7 DEF Chat!Deals, InTurn
<1>13. OwnersStay /\ chatCrossed \subseteq chatCrossed'
  BY <1>0 DEF OwnersStay, Chat!rows
<1>14. \A d \in Pair \ {c} : Chat!Deals(c)' \cap Chat!Deals(d) \subseteq chatCrossed'
  BY <1>0, <1>9, <1>12 DEF ChatIInv, DealsAlone
<1>15. CallsFit' /\ DealsAlone' BY <1>5, <1>6, <1>8, <1>10, <1>11, <1>12, <1>13, <1>14, CallMoved
<1> QED BY <1>0, <1>5, <1>6, <1>15, CodesKeep DEF ChatIInv, Chat!TypeOK

\* A new code keeps the invariant.
LEMMA DrawKeeps ==
  ASSUME Chat!ChatAssumption, ChatIInv, NEW c \in Pair, NEW k \in Codes, Chat!Draw(c, k) PROVE ChatIInv'
<1> DEFINE row == [user |-> chatCall[c].user, status |-> "pending", due |-> FALSE]
<1>0. chatCall[c] # Nil /\ chatCall[c].pc = "draw" /\ code[k] = Nil /\ code' = [code EXCEPT ![k] = row]
      /\ Chat!Over(c) /\ UNCHANGED <<Chat!rows, chatUsed, chatCrossed>>
  BY DEF Chat!Draw, Chat!At
<1>1. chatCall[c] \in Chat!CallState /\ Carries(c) BY <1>0, IsCall
<1>2. row \in Chat!CodeRow BY <1>0, <1>1 DEF Carries, Chat!CodeRow, Chat!Statuses
<1> HIDE DEF row
<1>3. /\ chatCall' \in [Pair -> Chat!CallState \cup {Nil}]
           /\ \A d \in Pair \ {c} : chatCall'[d] = chatCall[d]
      /\ Carries(c)' /\ Careful(c)' /\ Chat!Deals(c)' = {}
  BY <1>0, CallEnds DEF ChatIInv
<1>4. code' \in [Codes -> Chat!CodeRow \cup {Nil}] /\ \A j \in Codes : j # k => code'[j] = code[j]
  BY <1>0, <1>2 DEF ChatIInv, Chat!TypeOK
<1>5. /\ RowsStay /\ OwnersStay /\ chatCrossed \subseteq chatCrossed'
      /\ \A j \in Codes : code[j] # Nil => (Decided(j)' <=> Decided(j))
  BY <1>0, <1>4 DEF RowsStay, OwnersStay, Decided, Chat!rows
<1>6. CallsFit' /\ DealsAlone' BY <1>3, <1>5, CallMoved
<1> QED BY <1>0, <1>3, <1>4, <1>6, CodesKeep DEF ChatIInv, Chat!TypeOK

\* What is written over pending codes by no call.
LEMMA PendingKeeps ==
  ASSUME Chat!ChatAssumption, ChatIInv, code' \in [Codes -> Chat!CodeRow \cup {Nil}], RowsStay,
         \A k \in Codes : Decided(k)' => Decided(k),
         UNCHANGED <<Chat!rows, chatCall, chatCrossed>>, chatUsed' \in [Chat!Kinds -> Nat]
  PROVE  ChatIInv'
<1>1. OwnersStay /\ chatCrossed \subseteq chatCrossed'
  BY DEF OwnersStay, Chat!rows
<1>2. \A d \in Pair : Carries(d)' /\ Careful(d)' /\ Chat!Deals(d)' = Chat!Deals(d)
  BY <1>1, FittingStays
<1>3. CallsFit' /\ DealsAlone' BY <1>2 DEF CallsFit, DealsAlone, ChatIInv
<1> QED BY <1>3, CodesKeep DEF ChatIInv, Chat!TypeOK

\* Time, the clean-up and late decisions keep the invariant.
LEMMA TimeKeeps ==
  ASSUME Chat!ChatAssumption, ChatIInv,
         \/ Chat!Cleanup \/ \E k \in Codes : Chat!Elapse(k)
         \/ \E c \in Pair, k \in Codes, kind \in Chat!Kinds : Chat!DecideLate(c, k, kind)
  PROVE  ChatIInv'
<1>0. Nil \notin Chat!CodeRow BY DEF Chat!ChatAssumption
<1>1. ASSUME NEW k \in Codes, Chat!Elapse(k) PROVE ChatIInv'
  <2> DEFINE row == [code[k] EXCEPT !.due = TRUE]
  <2>1. code[k] # Nil /\ code' = [code EXCEPT ![k] = row]
          /\ UNCHANGED <<Chat!rows, chatCall, chatUsed, chatCrossed>>
    BY <1>1 DEF Chat!Elapse
  <2>2. code[k] \in Chat!CodeRow BY <2>1 DEF ChatIInv, Chat!TypeOK
  <2>3. row \in Chat!CodeRow /\ row.user = code[k].user /\ row.status = code[k].status
    BY <2>2 DEF Chat!CodeRow
  <2> HIDE DEF row
  <2>4. code' \in [Codes -> Chat!CodeRow \cup {Nil}]
          /\ \A j \in Codes : code'[j] = IF j = k THEN row ELSE code[j]
    BY <2>1, <2>3 DEF ChatIInv, Chat!TypeOK
  <2>5. RowsStay /\ \A j \in Codes : Decided(j)' => Decided(j)
    BY <1>0, <2>1, <2>3, <2>4 DEF RowsStay, Decided
  <2> QED BY <2>1, <2>4, <2>5, PendingKeeps DEF ChatIInv, Chat!TypeOK
<1>2. CASE Chat!Cleanup
  <2> DEFINE late == {k \in Codes : code[k] # Nil /\ code[k].status = "pending" /\ code[k].due}
  <2>1. /\ code' = [k \in Codes |-> IF k \in late THEN [code[k] EXCEPT !.status
             = "expired"] ELSE code[k]]
        /\ UNCHANGED <<Chat!rows, chatCall, chatUsed, chatCrossed>>
    BY <1>2 DEF Chat!Cleanup
  <2>2. \A x \in Chat!CodeRow : LET y == [x EXCEPT !.status = "expired"]
                           IN y \in Chat!CodeRow /\ y.user = x.user /\ y.status = "expired"
    BY DEF Chat!CodeRow, Chat!Statuses
  <2>3. \A k \in Codes : code[k] # Nil => code[k] \in Chat!CodeRow BY DEF ChatIInv, Chat!TypeOK
  <2>4. ASSUME NEW k \in late
        PROVE  code'[k] \in Chat!CodeRow /\ code'[k].user = code[k].user /\ code'[k].status = "expired"
    BY <2>1, <2>2, <2>3
  <2>5. ASSUME NEW k \in Codes \ late PROVE code'[k] = code[k] BY <2>1
  <2>6. code' \in [Codes -> Chat!CodeRow \cup {Nil}]
    <3>1. \A k \in Codes : code'[k] \in Chat!CodeRow \cup {Nil} BY <2>3, <2>4, <2>5
    <3> QED BY <2>1, <3>1
  <2>7. RowsStay BY <1>0, <2>4, <2>5 DEF RowsStay
  <2>8. \A j \in Codes : Decided(j)' => Decided(j) BY <2>4, <2>5 DEF Decided
  <2> QED BY <2>1, <2>6, <2>7, <2>8, PendingKeeps DEF ChatIInv, Chat!TypeOK
<1>3. ASSUME NEW c \in Pair, NEW k \in Codes, NEW kind \in Chat!Kinds, Chat!DecideLate(c, k, kind)
  PROVE ChatIInv'
  <2>1. code[k] # Nil /\ Chat!Spend(kind) /\ Chat!Write(k, "expired")
          /\ UNCHANGED <<Chat!rows, chatCall, chatCrossed>>
    BY <1>3 DEF Chat!DecideLate
  <2>2. chatUsed' \in [Chat!Kinds -> Nat] BY <2>1, ChatSpent DEF ChatIInv
  <2>3. /\ code' \in [Codes -> Chat!CodeRow \cup {Nil}] /\ RowsStay
        /\ code'[k].status = "expired" /\ \A j \in Codes : j # k => code'[j] = code[j]
    BY <2>1, ChatWritten DEF Chat!Statuses
  <2>4. \A j \in Codes : Decided(j)' => Decided(j) BY <2>3 DEF Decided
  <2> QED BY <2>1, <2>2, <2>3, <2>4, PendingKeeps
<1> QED BY <1>1, <1>2, <1>3

\* Storing what the owner decided keeps the invariant.
LEMMA StampKeeps == ASSUME Chat!ChatAssumption, ChatIInv, NEW c \in Pair, Chat!Stamp(c) PROVE ChatIInv'
<1> DEFINE k == chatCall[c].code
<1>0. chatCall[c] # Nil /\ chatCall[c].pc = "stamp" /\ Chat!Write(k, chatCall[c].verdict)
        /\ Chat!Over(c)
      /\ UNCHANGED <<Chat!rows, chatUsed, chatCrossed>>
  BY DEF Chat!Stamp, Chat!At
<1>1. Carries(c) BY <1>0, IsCall
<1>2. k \in Codes /\ code[k] # Nil /\ chatCall[c].verdict \in Chat!Statuses
  BY <1>0, <1>1 DEF Carries, Chat!Statuses
<1>3. /\ code' \in [Codes -> Chat!CodeRow \cup {Nil}] /\ RowsStay
      /\ \A j \in Codes : j # k => code'[j] = code[j]
  BY <1>0, <1>2, ChatWritten
<1>4. /\ chatCall' \in [Pair -> Chat!CallState \cup {Nil}]
           /\ \A d \in Pair \ {c} : chatCall'[d] = chatCall[d]
      /\ Carries(c)' /\ Careful(c)' /\ Chat!Deals(c)' = {}
  BY <1>0, CallEnds DEF ChatIInv
<1>5. \A j \in Codes : code[j] # Nil /\ ~Decided(j) /\ Decided(j)' => code[j].user \in Chat!Deals(c)
  BY <1>0, <1>3 DEF Decided, Chat!Deals
<1>6. OwnersStay /\ chatCrossed \subseteq chatCrossed'
  BY <1>0 DEF OwnersStay, Chat!rows
<1>7. CallsFit' /\ DealsAlone' BY <1>3, <1>4, <1>5, <1>6, CallMoved
<1> QED BY <1>0, <1>3, <1>4, <1>7, CodesKeep DEF ChatIInv, Chat!TypeOK

\* Whoever is admitted anew has no session.
LEMMA AdmitKeeps == ASSUME Chat!ChatAssumption, ChatIInv, NEW c \in Pair, Chat!Admit(c) PROVE ChatIInv'
<1> USE DEF ChatIInv
<1> DEFINE u == code[chatCall[c].code].user
<1>0. chatCall[c] # Nil /\ chatCall[c].pc = "admit" /\ ~member[u] /\ Chat!Goto(c, "stamp")
      /\ member' = [member EXCEPT ![u] = TRUE] /\ grants' = [grants EXCEPT ![u] = @ + 1]
      /\ UNCHANGED <<code, session, made, owner, running, chatUsed, chatCrossed>>
  BY DEF Chat!Admit, Chat!At
<1>1. chatCall[c] \in Chat!CallState /\ Carries(c) /\ Careful(c) BY <1>0, IsCall
<1>2. chatCall[c].code \in Codes /\ code[chatCall[c].code] # Nil
        /\ chatCall[c].verdict \in {"approved", "rejected"}
  BY <1>0, <1>1 DEF Carries
<1>3. u \in Persons
  <2>1. code[chatCall[c].code] \in Chat!CodeRow BY <1>2 DEF Chat!TypeOK
  <2> QED BY <2>1 DEF Chat!CodeRow
<1>4. /\ chatCall' \in [Pair -> Chat!CallState \cup {Nil}]
           /\ \A d \in Pair \ {c} : chatCall'[d] = chatCall[d]
      /\ chatCall'[c] = [chatCall[c] EXCEPT !.pc = "stamp"] /\ chatCall'[c] \in Chat!CallState
           /\ chatCall'[c].pc = "stamp"
  BY <1>0, CallGoes DEF Steps
<1>5. chatCall'[c].code = chatCall[c].code /\ chatCall'[c].verdict = chatCall[c].verdict
        /\ chatCall'[c].user = chatCall[c].user
  BY <1>1, <1>4 DEF Chat!CallState
<1>6. Carries(c)' /\ Chat!Deals(c)' \subseteq Chat!Deals(c)
  BY <1>0, <1>2, <1>4, <1>5 DEF Carries, Chat!Deals, InTurn
<1>7. Careful(c)' BY <1>0, <1>1, <1>4, <1>5 DEF Careful, Decided
<1>8. CallsFit' /\ DealsAlone' /\ WithoutGaps' BY <1>0, <1>4, <1>6, <1>7, PlainStep
<1>9. Chat!TypeOK'
  <2>1. member' \in [Persons -> BOOLEAN] BY <1>0, <1>3 DEF Chat!TypeOK
  <2>2. grants' \in [Persons -> Nat] BY <1>0, <1>3 DEF Chat!TypeOK
  <2> QED BY <1>0, <1>4, <2>1, <2>2 DEF Chat!TypeOK
<1>10. Chat!ContextsAreSeparate' BY <1>0 DEF Chat!ContextsAreSeparate
<1>11. Chat!SessionHasMember'
  <2> SUFFICES ASSUME NEW s \in Chat!SessionIds, session[s] # Nil
               PROVE  member'[session[s].user] /\ grants'[session[s].user] = session[s].grant
    BY <1>0 DEF Chat!SessionHasMember
  <2>1. session[s] \in Chat!SessionRow BY DEF Chat!TypeOK
  <2>2. session[s].user \in Persons BY <2>1 DEF Chat!SessionRow
  <2>3. member[session[s].user] /\ grants[session[s].user] = session[s].grant
    BY DEF Chat!SessionHasMember
  <2>4. session[s].user # u BY <1>0, <2>3
  <2> QED BY <1>0, <2>2, <2>3, <2>4 DEF Chat!TypeOK
<1> QED BY <1>8, <1>9, <1>10, <1>11

-----------------------------------------------------------------------------
(* Conversations and turns *)

\* A conversation created for a session keeps the invariant.
LEMMA ChatCreateKeeps == ASSUME Chat!ChatAssumption, ChatIInv, NEW c \in Pair, Chat!Create(c)
  PROVE ChatIInv'
<1> USE DEF ChatIInv
<1> DEFINE owned == {w \in Chat!ConvIds : owner[w] # Nil}
<1> DEFINE v == 1 + Chat!Cardinality(owned)
<1> DEFINE s == chatCall[c].session
<1> DEFINE new == [chatCall[c] EXCEPT !.conv = v, !.pc = "send"]
<1>0. chatCall[c] # Nil /\ chatCall[c].pc = "create" /\ v \in Chat!ConvIds
        /\ owner' = [owner EXCEPT ![v] = s]
      /\ chatCall' = [chatCall EXCEPT ![c] = new]
      /\ UNCHANGED <<code, member, grants, session, made, running, chatUsed, chatCrossed>>
  BY DEF Chat!Create, Chat!At
<1>1. chatCall[c] \in Chat!CallState /\ Carries(c) BY <1>0, IsCall
<1>2. chatCall[c].user \in Persons /\ s \in Chat!SessionIds BY <1>0, <1>1 DEF Carries
<1>3. PICK m \in 0 .. MaxRows : \A w \in Chat!ConvIds : owner[w] # Nil <=> w <= m BY DEF WithoutGaps
<1>4. MaxRows \in Nat /\ m \in Nat BY DEF Chat!ChatAssumption
<1>5. Chat!Cardinality(owned) = m
  <2>1. owned = 1 .. m BY <1>3, <1>4 DEF Chat!ConvIds
  <2>2. Chat!Cardinality(1 .. m) = m
    <3>1. Cardinality(1 .. m) = IF 1 > m THEN 0 ELSE m - 1 + 1 BY <1>4, FS_Interval
    <3> QED BY <1>4, <3>1 DEF Chat!Cardinality, Cardinality, Chat!IsFiniteSet, IsFiniteSet
  <2> QED BY <2>1, <2>2
<1>6. v = m + 1 /\ owner[v] = Nil
  <2>1. v = m + 1 BY <1>5, <1>4
  <2>2. ~(v <= m) BY <1>4, <2>1
  <2> QED BY <1>0, <1>3, <2>1, <2>2
<1> HIDE DEF v, owned
<1>7. new \in Chat!CallState BY <1>0, <1>1, WithConv
<1>8. new.pc = "send" /\ new.conv = v /\ new.session = s /\ new.user = chatCall[c].user
  BY <1>1 DEF Chat!CallState
<1> HIDE DEF new
<1>9. /\ chatCall' \in [Pair -> Chat!CallState \cup {Nil}] /\ chatCall'[c] = new
      /\ \A d \in Pair \ {c} : chatCall'[d] = chatCall[d]
  BY <1>0, <1>7, Assigned
<1>10. /\ owner' \in [Chat!ConvIds -> Chat!SessionIds \cup {Nil}] /\ owner'[v] = s
       /\ \A w \in Chat!ConvIds : w # v => owner'[w] = owner[w]
  BY <1>0, <1>2 DEF Chat!TypeOK
<1>11. OwnersStay /\ RowsStay /\ chatCrossed \subseteq chatCrossed'
       /\ \A k \in Codes : Decided(k)' <=> Decided(k)
  BY <1>0, <1>6, <1>10 DEF OwnersStay, RowsStay, Decided
<1>12. Carries(c)' /\ Careful(c)' /\ Chat!Deals(c)' = {}
  BY <1>0, <1>2, <1>8, <1>9, <1>10 DEF Carries, Careful, Chat!Deals, InTurn
<1>13. CallsFit' /\ DealsAlone' BY <1>9, <1>11, <1>12, CallMoved
<1>14. WithoutGaps'
  <2>1. m + 1 \in 0 .. MaxRows BY <1>0, <1>4, <1>6 DEF Chat!ConvIds
  <2>2. Nil \notin Chat!SessionIds BY DEF Chat!ChatAssumption, Chat!SessionIds
  <2>3. \A w \in Chat!ConvIds : owner'[w] # Nil <=> w <= m + 1
    <3> TAKE w \in Chat!ConvIds
    <3>0. w \in Nat BY DEF Chat!ConvIds
    <3>1. CASE w = v BY <1>2, <1>4, <1>6, <1>10, <2>2, <3>1
    <3>2. CASE w # v
      <4>1. owner'[w] = owner[w] BY <1>10, <3>2
      <4>2. w <= m <=> w <= m + 1 BY <1>4, <1>6, <3>0, <3>2
      <4> QED BY <1>3, <4>1, <4>2
    <3> QED BY <3>1, <3>2
  <2> QED BY <2>1, <2>3 DEF WithoutGaps
<1>15. Chat!TypeOK' BY <1>0, <1>9, <1>10 DEF Chat!TypeOK
<1>16. Chat!SessionHasMember' BY <1>0 DEF Chat!SessionHasMember
<1>17. Chat!ContextsAreSeparate'
  <2> SUFFICES ASSUME NEW t \in Chat!SessionIds, session[t] # Nil, session[t].conv # Nil
               PROVE  owner'[session[t].conv] = t
    BY <1>0 DEF Chat!ContextsAreSeparate
  <2>1. session[t] \in Chat!SessionRow BY DEF Chat!TypeOK
  <2>2. session[t].conv \in Chat!ConvIds BY <2>1 DEF Chat!SessionRow
  <2>3. owner[session[t].conv] = t BY DEF Chat!ContextsAreSeparate
  <2>4. t # Nil BY DEF Chat!ChatAssumption, Chat!SessionIds
  <2> QED BY <1>11, <2>2, <2>3, <2>4 DEF OwnersStay
<1> QED BY <1>13, <1>14, <1>15, <1>16, <1>17

\* A message sent, or refused, keeps the invariant.
LEMMA SendKeeps == ASSUME Chat!ChatAssumption, ChatIInv, NEW c \in Pair, Chat!Send(c) PROVE ChatIInv'
<1> USE DEF ChatIInv
<1> DEFINE v == chatCall[c].conv
<1>0. chatCall[c] # Nil /\ chatCall[c].pc = "send"
      /\ UNCHANGED <<code, member, grants, session, made, owner, chatUsed, chatCrossed>>
  BY DEF Chat!Send, Chat!At
<1>1. chatCall[c] \in Chat!CallState /\ Carries(c) BY <1>0, IsCall
<1>2. chatCall[c].user \in Persons /\ chatCall[c].session \in Chat!SessionIds /\ v \in Chat!ConvIds
        /\ owner[v] = chatCall[c].session
  BY <1>0, <1>1 DEF Carries
<1>3. /\ chatCall' \in [Pair -> Chat!CallState \cup {Nil}]
           /\ \A d \in Pair \ {c} : chatCall'[d] = chatCall[d]
      /\ Carries(c)' /\ Careful(c)' /\ Chat!Deals(c)' = {}
      /\ running' \subseteq Chat!ConvIds
  <2>1. CASE v \in running BY <2>1, CallEnds DEF Chat!Send, Chat!TypeOK
  <2>2. CASE v \notin running
    <3>1. running' = running \cup {v} /\ Chat!Goto(c, "subscribe") BY <2>2 DEF Chat!Send
    <3>2. /\ chatCall' \in [Pair -> Chat!CallState \cup {Nil}]
               /\ \A d \in Pair \ {c} : chatCall'[d] = chatCall[d]
          /\ chatCall'[c] = [chatCall[c] EXCEPT !.pc = "subscribe"]
               /\ chatCall'[c] \in Chat!CallState /\ chatCall'[c].pc = "subscribe"
      BY <1>0, <3>1, CallGoes DEF Steps
    <3>3. chatCall'[c].user = chatCall[c].user /\ chatCall'[c].session = chatCall[c].session
            /\ chatCall'[c].conv = v
      BY <1>1, <3>2 DEF Chat!CallState
    <3>4. Carries(c)' /\ Careful(c)' /\ Chat!Deals(c)' = {}
      BY <1>0, <1>2, <3>1, <3>2, <3>3 DEF Carries, Careful, Chat!Deals, InTurn
    <3> QED BY <1>2, <3>1, <3>2, <3>4 DEF Chat!TypeOK
  <2> QED BY <2>1, <2>2
<1>4. OwnersStay /\ RowsStay /\ chatCrossed \subseteq chatCrossed'
        /\ \A k \in Codes : Decided(k)' <=> Decided(k)
  BY <1>0 DEF OwnersStay, RowsStay, Decided
<1>5. CallsFit' /\ DealsAlone' BY <1>3, <1>4, CallMoved
<1>6. Chat!TypeOK' /\ Chat!SessionHasMember' /\ Chat!ContextsAreSeparate' /\ WithoutGaps'
  BY <1>0, <1>3 DEF Chat!TypeOK, Chat!SessionHasMember, Chat!ContextsAreSeparate, WithoutGaps
<1> QED BY <1>5, <1>6

\* The end of a turn on the channels of the relays.
LEMMA TurnEndsKeeps == ASSUME Chat!ChatAssumption, ChatIInv, NEW v \in Chat!ConvIds, Chat!TurnEnds(v)
  PROVE ChatIInv'
<1> USE DEF ChatIInv
<1>0. /\ running' = running \ {v}
      /\ chatCall' = [c \in Pair |->
                        IF (Chat!At(c, "bind") \/ Chat!At(c, "relay")) /\ chatCall[c].conv = v
                        THEN [chatCall[c] EXCEPT !.heard = TRUE] ELSE chatCall[c]]
      /\ UNCHANGED <<code, member, grants, session, made, owner, chatUsed, chatCrossed>>
  BY DEF Chat!TurnEnds
<1>2. \A x \in Chat!CallState :
        LET y == [x EXCEPT !.heard = TRUE] IN
        /\ y \in Chat!CallState /\ y.pc = x.pc /\ y.user = x.user
        /\ y.session = x.session /\ y.conv = x.conv
  <2> TAKE x \in Chat!CallState
  <2> DEFINE y == [x EXCEPT !.heard = TRUE]
  <2>1. y \in Chat!CallState BY DEF Chat!CallState
  <2>2. y.pc = x.pc /\ y.user = x.user /\ y.session = x.session /\ y.conv = x.conv
    BY DEF Chat!CallState
  <2> QED BY <2>1, <2>2
<1>3. Nil \notin Chat!CallState BY DEF Chat!ChatAssumption
<1>4. ASSUME NEW c \in Pair
      PROVE  chatCall'[c] \in Chat!CallState \cup {Nil} /\ Carries(c)' /\ Careful(c)'
               /\ Chat!Deals(c)' = Chat!Deals(c)
  <2>1. Carries(c) /\ Careful(c) BY DEF CallsFit
  <2>2. CASE ~((Chat!At(c, "bind") \/ Chat!At(c, "relay")) /\ chatCall[c].conv = v)
    <3>1. chatCall'[c] = chatCall[c] BY <1>0, <2>2
    <3>2. chatCall[c] \in Chat!CallState \cup {Nil} BY DEF Chat!TypeOK
    <3>3. Carries(c)' BY <1>0, <2>1, <3>1 DEF Carries
    <3>4. Careful(c)' BY <1>0, <2>1, <3>1 DEF Careful, Decided
    <3>5. Chat!Deals(c)' = Chat!Deals(c) BY <1>0, <3>1 DEF Chat!Deals
    <3> QED BY <3>1, <3>2, <3>3, <3>4, <3>5
  <2>3. CASE (Chat!At(c, "bind") \/ Chat!At(c, "relay")) /\ chatCall[c].conv = v
    <3>1. chatCall[c] \in Chat!CallState /\ chatCall[c] # Nil /\ chatCall[c].pc \in {"bind", "relay"}
      BY <2>3 DEF Chat!TypeOK, Chat!At
    <3>2. /\ chatCall'[c] \in Chat!CallState /\ chatCall'[c].pc = chatCall[c].pc
          /\ chatCall'[c].user = chatCall[c].user
          /\ chatCall'[c].session = chatCall[c].session /\ chatCall'[c].conv = chatCall[c].conv
      <4>1. chatCall'[c] = [chatCall[c] EXCEPT !.heard = TRUE] BY <1>0, <2>3
      <4> QED BY <1>2, <3>1, <4>1
    <3>3. Carries(c)' BY <1>0, <2>1, <3>1, <3>2 DEF Carries, InTurn
    <3>4. Careful(c)' /\ Chat!Deals(c)' = {} /\ Chat!Deals(c) = {}
      BY <1>3, <3>1, <3>2 DEF Careful, Chat!Deals
    <3> QED BY <3>2, <3>3, <3>4
  <2> QED BY <2>2, <2>3
<1>5. CallsFit' BY <1>4 DEF CallsFit
<1>6. DealsAlone' BY <1>0, <1>4 DEF DealsAlone
<1>7. chatCall' \in [Pair -> Chat!CallState \cup {Nil}]
  <2>1. \A c \in Pair : chatCall'[c] \in Chat!CallState \cup {Nil} BY <1>4
  <2> QED BY <1>0, <2>1
<1>8. Chat!TypeOK' BY <1>0, <1>7 DEF Chat!TypeOK
<1>9. Chat!SessionHasMember' /\ Chat!ContextsAreSeparate' /\ WithoutGaps'
  BY <1>0 DEF Chat!SessionHasMember, Chat!ContextsAreSeparate, WithoutGaps
<1> QED BY <1>5, <1>6, <1>8, <1>9

-----------------------------------------------------------------------------
\* Every step of the chats keeps the invariant.
LEMMA StepKeeps == ASSUME Chat!ChatAssumption, ChatIInv, [Chat!Next]_(Chat!vars) PROVE ChatIInv'
<1>1. CASE UNCHANGED Chat!vars
  <2>1. Chat!TypeOK' /\ Chat!SessionHasMember' /\ Chat!ContextsAreSeparate' /\ DealsAlone' /\ WithoutGaps'
    BY <1>1 DEF ChatIInv, Chat!vars, Chat!TypeOK, Chat!SessionHasMember, Chat!ContextsAreSeparate,
       DealsAlone, Chat!Deals, WithoutGaps
  <2>2. CallsFit' BY <1>1 DEF ChatIInv, Chat!vars, CallsFit, Carries, Careful, Decided
  <2> QED BY <2>1, <2>2 DEF ChatIInv
<1>2. CASE Chat!Next
  <2>1. ASSUME NEW c \in Pair, NEW u \in Persons,
               \/ \E kind \in Chat!Kinds : Chat!Arrive(c, u, kind)
               \/ Chat!Revoke(c, u)
               \/ \E n \in 1 .. grants[u] : Chat!Clear(c, u, n)
        PROVE  ChatIInv'
    <3>1. 1 .. grants[u] \subseteq Nat BY DEF ChatIInv, Chat!TypeOK
    <3> QED BY <2>1, <3>1, ArrivesKeeps, DeletesKeep
  <2>2. ASSUME NEW c \in Pair, NEW k \in Codes,
               \/ Chat!Expire(c, k) \/ Chat!Draw(c, k) \/ Chat!DrawTaken(c, k)
               \/ \E kind \in Chat!Kinds : Chat!Decide(c, k, kind) \/ Chat!DecideLate(c, k, kind)
        PROVE  ChatIInv'
    BY <2>2, ChatExpireKeeps, DrawKeeps, LooksKeep, DecideKeeps, TimeKeeps
  <2>3. ASSUME NEW c \in Pair,
               \/ Chat!Known(c) \/ Chat!Stranger(c) \/ Chat!ListPending(c) \/ Chat!Admit(c)
                 \/ Chat!AdmitTwice(c) \/ Chat!Stamp(c)
               \/ Chat!Drop(c) \/ Chat!FindNone(c) \/ Chat!Insert(c)
        PROVE  ChatIInv'
    BY <2>3, LooksKeep, ListPendingKeeps, AdmitKeeps, StampKeeps, DeletesKeep, SessionInsertKeeps
  <2>4. ASSUME NEW c \in Pair,
               \/ Chat!CleanSessions(c) \/ Chat!DeleteUser(c) \/ Chat!Sync(c)
               \/ Chat!Load(c) \/ Chat!Create(c) \/ Chat!Send(c) \/ Chat!Subscribe(c)
                 \/ Chat!Bind(c) \/ Chat!RelayEnds(c)
               \/ \E s \in Chat!SessionIds : Chat!Find(c, s)
        PROVE  ChatIInv'
    BY <2>4, LooksKeep, ArrivesKeeps, DeletesKeep, ChatCreateKeeps, SendKeeps, BindKeeps
  <2>5. ASSUME NEW k \in Codes, Chat!Elapse(k) PROVE ChatIInv' BY <2>5, TimeKeeps
  <2>6. CASE Chat!Cleanup BY <2>6, TimeKeeps
  <2>7. ASSUME NEW v \in Chat!ConvIds, Chat!TurnEnds(v) PROVE ChatIInv' BY <2>7, TurnEndsKeeps
  <2> QED BY <1>2, <2>1, <2>2, <2>3, <2>4, <2>5, <2>6, <2>7 DEF Chat!Next
<1> QED BY <1>1, <1>2

\* The invariant holds in every state of the chats.
LEMMA ChatInductive == ASSUME Chat!ChatAssumption PROVE Chat!Spec => []ChatIInv
<1>1. Chat!Init => ChatIInv BY ChatInitial
<1>2. ChatIInv /\ [Chat!Next]_(Chat!vars) => ChatIInv' BY StepKeeps
<1> QED BY <1>1, <1>2, PTL DEF Chat!Spec

\* A decided code is written by no step, if no other call dealt with the
\* codes of its person.
LEMMA DecisionKept ==
  ASSUME Chat!ChatAssumption, ChatIInv, [Chat!Next]_(Chat!vars),
           NEW k \in Codes, Decided(k), code[k].user \notin chatCrossed'
  PROVE  code'[k] = code[k]
<1> USE DEF ChatIInv
<1>1. ASSUME NEW c \in Pair, NEW j \in Codes, Chat!Expire(c, j) PROVE code'[k] = code[k]
  <2>1. chatCall[c] # Nil /\ chatCall[c].pc = "expire" /\ j \in chatCall[c].codes
          /\ Chat!Write(j, "expired") /\ chatCrossed' = chatCrossed
    BY <1>1 DEF Chat!Expire, Chat!At
  <2>2. Carries(c) /\ Careful(c) BY <2>1, IsCall
  <2>3. j # k BY <2>1, <2>2 DEF Carries, Careful
  <2> QED BY <2>1, <2>3 DEF Chat!Write, Chat!TypeOK
<1>2. ASSUME NEW c \in Pair, Chat!Stamp(c) PROVE code'[k] = code[k]
  <2>1. chatCall[c] # Nil /\ chatCall[c].pc = "stamp"
          /\ Chat!Write(chatCall[c].code, chatCall[c].verdict) /\ chatCrossed' = chatCrossed
    BY <1>2 DEF Chat!Stamp, Chat!At
  <2>2. Carries(c) /\ Careful(c) BY <2>1, IsCall
  <2>3. chatCall[c].code # k BY <2>1, <2>2 DEF Careful
  <2> QED BY <2>1, <2>3 DEF Chat!Write, Chat!TypeOK
<1>3. ASSUME NEW c \in Pair, NEW j \in Codes,
             \/ Chat!Draw(c, j) \/ \E kind \in Chat!Kinds : Chat!DecideLate(c, j, kind)
      PROVE  code'[k] = code[k]
  <2>1. code[j] = Nil \/ code[j].status = "pending" BY <1>3 DEF Chat!Draw, Chat!DecideLate
  <2>2. j # k BY <2>1 DEF Decided
  <2> QED BY <1>3, <2>2 DEF Chat!Draw, Chat!DecideLate, Chat!Write, Chat!TypeOK
<1>4. CASE Chat!Cleanup \/ \E j \in Codes : Chat!Elapse(j)
  <2>1. code[k].status # "pending" BY DEF Decided
  <2> QED BY <1>4, <2>1 DEF Chat!Cleanup, Chat!Elapse, Chat!TypeOK
<1>5. CASE UNCHANGED code BY <1>5
<1>6. ASSUME NEW c \in Pair, NEW u \in Persons,
             \/ \E kind \in Chat!Kinds : Chat!Arrive(c, u, kind)
             \/ Chat!Revoke(c, u)
             \/ \E n \in 1 .. grants[u] : Chat!Clear(c, u, n)
      PROVE  UNCHANGED code
  BY <1>6 DEF Chat!Arrive, Chat!Revoke, Chat!Clear
<1>7. ASSUME NEW c \in Pair,
               NEW j \in Codes, Chat!DrawTaken(c, j) \/ \E kind \in Chat!Kinds : Chat!Decide(c, j, kind)
      PROVE  UNCHANGED code
  BY <1>7 DEF Chat!DrawTaken, Chat!Decide
<1>8. ASSUME NEW c \in Pair,
             \/ Chat!Known(c) \/ Chat!Stranger(c) \/ Chat!ListPending(c) \/ Chat!Admit(c)
               \/ Chat!AdmitTwice(c)
             \/ Chat!Drop(c) \/ Chat!FindNone(c) \/ Chat!Insert(c)
             \/ Chat!CleanSessions(c) \/ Chat!DeleteUser(c) \/ Chat!Sync(c)
             \/ Chat!Load(c) \/ Chat!Create(c) \/ Chat!Send(c) \/ Chat!Subscribe(c) \/ Chat!Bind(c)
               \/ Chat!RelayEnds(c)
             \/ \E s \in Chat!SessionIds : Chat!Find(c, s)
      PROVE  UNCHANGED code
  BY <1>8 DEF Chat!Known, Chat!Stranger, Chat!ListPending, Chat!Admit, Chat!AdmitTwice, Chat!Drop,
     Chat!FindNone, Chat!Insert, Chat!CleanSessions,
              Chat!DeleteUser, Chat!Sync, Chat!Load, Chat!Create, Chat!Send, Chat!Subscribe,
               Chat!Bind, Chat!RelayEnds, Chat!Find
<1>9. ASSUME NEW v \in Chat!ConvIds, Chat!TurnEnds(v) PROVE UNCHANGED code BY <1>9 DEF Chat!TurnEnds
<1>10. CASE UNCHANGED Chat!vars BY <1>10 DEF Chat!vars
<1> QED BY <1>1, <1>2, <1>3, <1>4, <1>5, <1>6, <1>7, <1>8, <1>9, <1>10 DEF Chat!Next

\* The chats by themselves have the two invariants.
LEMMA Separate ==
  ASSUME Chat!ChatAssumption
  PROVE  Chat!Spec => [](Chat!TypeOK /\ Chat!SessionHasMember /\ Chat!ContextsAreSeparate)
<1>1. ChatIInv => Chat!TypeOK /\ Chat!SessionHasMember /\ Chat!ContextsAreSeparate BY DEF ChatIInv
<1> QED BY <1>1, ChatInductive, PTL

\* The chats by themselves let decisions stand.
LEMMA Stands == ASSUME Chat!ChatAssumption PROVE Chat!Spec => Chat!DecisionStands
<1>1. ChatIInv /\ [Chat!Next]_(Chat!vars) =>
        [\A k \in Codes :
           code[k] # Nil /\ code[k].status \in {"approved", "rejected"}
             /\ code[k].user \notin chatCrossed'
           => code'[k] = code[k]]_(Chat!vars)
  BY DecisionKept DEF Decided
<1> QED BY <1>1, ChatInductive, PTL DEF Chat!Spec, Chat!DecisionStands

\* The group implements the service.
LEMMA ChatImplemented == AccessSpec => Chat!Spec
<1>1. AccessInit => Chat!Init BY DEF AccessInit
<1>2. [AccessNext]_accessVars => [Chat!Next]_(Chat!vars)
  BY DEF AccessNext, accessVars, chatVars, Chat!vars
<1> QED BY <1>1, <1>2, PTL DEF AccessSpec, Chat!Spec

\* For any number of persons, codes, messages and requests of the owner: a
\* session belongs to somebody who is a member, whatever was revoked while
\* messages were on their way (session.rs, routes.rs).
THEOREM SessionsHaveMembers == ASSUME AccessAssumption PROVE AccessSpec => []SessionHasMember
<1>1. Chat!ChatAssumption BY DEF AccessAssumption
<1>2. Chat!Spec => [](Chat!TypeOK /\ Chat!SessionHasMember /\ Chat!ContextsAreSeparate)
  BY <1>1, Separate
<1>3. Chat!SessionHasMember => SessionHasMember BY DEF SessionHasMember
<1> QED BY <1>2, <1>3, ChatImplemented, PTL

\* A session is bound to a conversation made for it, however renewals and
\* messages interleave (session.rs, message_service.rs).
THEOREM ContextsStaySeparate == ASSUME AccessAssumption PROVE AccessSpec => []ContextsAreSeparate
<1>1. Chat!ChatAssumption BY DEF AccessAssumption
<1>2. Chat!Spec => [](Chat!TypeOK /\ Chat!SessionHasMember /\ Chat!ContextsAreSeparate)
  BY <1>1, Separate
<1>3. Chat!ContextsAreSeparate => ContextsAreSeparate BY DEF ContextsAreSeparate
<1> QED BY <1>2, <1>3, ChatImplemented, PTL

\* What the owner has decided on a code stands, whatever messages and requests
\* come, unless two calls dealt with the codes of the person at once
\* (pairing.rs).
THEOREM DecisionsStand == ASSUME AccessAssumption PROVE AccessSpec => DecisionStands
<1>1. Chat!ChatAssumption BY DEF AccessAssumption
<1>2. Chat!Spec => Chat!DecisionStands BY <1>1, Stands
<1> QED BY <1>2, ChatImplemented DEF DecisionStands

-----------------------------------------------------------------------------
\* Every variable of every service of the group stays of its type.
THEOREM AccessTyped == ASSUME AccessAssumption PROVE AccessSpec => []AccessTypeOK
<1>1. /\ Plugins!PluginAssumption
      /\ Bridge!RealtimeAssumption
      /\ Account!AccountAssumption
      /\ Chat!ChatAssumption
  BY DEF AccessAssumption
<1>2. Plugins!Spec => [](Plugins!TypeOK /\ Plugins!NoUpdateLost /\ Plugins!OffStaysOff)
  BY <1>1, PluginsHold
<1>3. Bridge!Spec => [](Bridge!TypeOK /\ Bridge!LossIsFullQueue)
  BY <1>1, Loss
<1>4. Account!Spec => [](Account!TypeOK /\ Account!LoggedOutStaysOut /\ Account!RestartKeepsSessions)
  BY <1>1, Safe
<1>5. Chat!Spec => [](Chat!TypeOK /\ Chat!SessionHasMember /\ Chat!ContextsAreSeparate)
  BY <1>1, Separate
<1>6. Plugins!TypeOK /\ Bridge!TypeOK /\ Account!TypeOK /\ Chat!TypeOK => AccessTypeOK
  BY DEF AccessTypeOK
<1> QED
  BY <1>2, <1>3, <1>4, <1>5, <1>6,
     PluginsImplemented, BridgeImplemented, AccountImplemented, ChatImplemented, PTL
=============================================================================
