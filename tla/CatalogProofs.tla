--------------------------- MODULE CatalogProofs ---------------------------
(***************************************************************************)
(* Proofs about Catalog, one service after the other; each ends in a       *)
(* theorem on the whole group, which implements each of its services.      *)
(*                                                                         *)
(* Roster: the row of a team, the conversations and the session in memory  *)
(* differ only by what the requests under way are about to do: one request *)
(* at a time is between its reading of the row and its writing, and who    *)
(* has written still has to tell the memory.                               *)
(* Servers: a copy follows its row, or a clean request is still to come to *)
(* that agent, or the copy is in doubt; a clean request knows what its row *)
(* is, and an unclean one has put its names in doubt.                      *)
(* Extensions: without a reload the registry is as the user wants it, and  *)
(* the store but for the one toggle of an extension under way; a reload    *)
(* carries what the user wants; and the file follows the store unless the  *)
(* writer is still to come.                                                *)
(* Order: who is emitted comes after what it needs; along the path of the  *)
(* search each requires all later ones, so that what closes on it is a     *)
(* knot; who is left with a knot has it reported, since each neighbour     *)
(* was left before, is further up or closed a cycle.                       *)
(***************************************************************************)
EXTENDS Catalog, Naturals, SequenceTheorems, FiniteSetTheorems, WellFoundedInduction, TLAPS

-----------------------------------------------------------------------------
(* The members of a team: TeamRoster.                                      *)

\* The request has read the row and its change is not over.
OpenSteps == {"create", "delete", "write", "drop", "insert"}
Opens(c) == rosterCall[c] # Nil /\ rosterCall[c].pc \in OpenSteps

\* It has still to bring the memory up to its change of slot s.
Pends(c, kinds, s) == Roster!At(c, "memory") /\ Roster!Is(c, kinds) /\ rosterCall[c].slot = s

\* Each kind of request has its own steps, its slot and its name.
RosterFormed(r) ==
  \/ /\ r.kind \in Roster!Adders /\ r.name \in Names
     /\ \/ r.pc \in {"lock", "create"} /\ r.slot = Nil
        \/ r.pc \in {"write", "memory"} /\ r.slot \in Roster!Slots
  \/ /\ r.kind = "remove" /\ r.name = Nil /\ r.slot \in Roster!Slots
     /\ r.pc \in {"delete", "write", "memory"}
  \/ r.kind = "rename" /\ r.name \in Names /\ r.slot \in Roster!Slots /\ r.pc \in {"write", "memory"}
  \/ r.kind = "drop" /\ r.slot = Nil /\ r.pc \in {"delete", "drop"}
  \/ r.kind = "ensure" /\ r.slot = Nil /\ r.pc = "insert"
RosterShape == \A c \in Pair : rosterCall[c] # Nil => RosterFormed(rosterCall[c])

\* One request at a time is between its reading and its writing.
One ==
  \A c \in Pair : Opens(c) =>
    /\ team /\ rosterCall[c].seen = teamRow
    /\ \A d \in Pair : Opens(d) => d = c
    /\ Roster!Is(c, Roster!Adders) => addLock = c
    /\ Roster!Is(c, {"drop"}) => ~live

\* The conversations are those of the row as it is to be.
RosterKept ==
  /\ (\A c \in Pair : ~Roster!At(c, "write") /\ ~Roster!At(c, "drop"))
       => conversations = Roster!Members(teamRow)
  /\ \A c \in Pair :
       /\ Roster!At(c, "write") =>
            conversations = Roster!Members([teamRow EXCEPT ![rosterCall[c].slot] = rosterCall[c].name])
       /\ Roster!At(c, "drop") => conversations = {}

\* A slot that was not handed out is nobody's.
RosterBounded ==
  /\ \A s \in Roster!Slots : s > slots => teamRow[s] = Nil
  /\ \A c \in Pair : rosterCall[c] # Nil /\ rosterCall[c].slot \in Roster!Slots
       => rosterCall[c].slot <= slots

Gone == ~team => teamRow = Roster!Nobody /\ ~live
Spawned == \A c \in Pair : Roster!Is(c, {"spawn"}) /\ ~rosterCall[c].stale => live

\* Nobody else has to do with a member that is being added.
Alone ==
  \A c, d \in Pair :
    c # d /\ Roster!Is(c, Roster!Adders) /\ rosterCall[c].slot \in Roster!Slots /\ rosterCall[d] # Nil
      => rosterCall[d].slot # rosterCall[c].slot

\* While the memory is to be told of a new name, no other name is taken.
RosterApart ==
  \A c, d \in Pair :
    c # d /\ Roster!At(c, "memory") /\ Roster!Is(c, {"rename"})
      => ~Roster!Is(d, {"rename"}) /\ ~(Roster!Is(d, Roster!Adders) /\ Opens(d))

\* What is to be added is not there yet, what is to be renamed is.
Ready ==
  \A c \in Pair : Roster!At(c, "write") =>
    /\ Roster!Is(c, Roster!Adders) => teamRow[rosterCall[c].slot] = Nil
    /\ Roster!Is(c, {"rename"}) => teamRow[rosterCall[c].slot] # Nil

\* The row has what the memory is to be told, but a member who got a new name
\* may be gone.
Written ==
  \A c \in Pair : team /\ Roster!At(c, "memory") =>
    \/ teamRow[rosterCall[c].slot] = rosterCall[c].name
    \/ Roster!Is(c, {"rename"}) /\ teamRow[rosterCall[c].slot] = Nil

\* Nobody else has the new name, in the row or in the memory.
Distinct ==
  \A c \in Pair : Roster!Is(c, {"rename"}) =>
    \A t \in Roster!Slots \ {rosterCall[c].slot} :
      teamRow[t] # rosterCall[c].name /\ (live => memory[t] # rosterCall[c].name)

\* The memory has what the row has, or it is about to.
Settles(c, s) ==
  \/ Pends(c, {"remove"}, s)
  \/ Pends(c, Roster!Adders, s) /\ memory[s] = Nil /\ (Roster!Is(c, {"spawn"}) => ~rosterCall[c].stale)
  \/ Pends(c, {"rename"}, s) /\ memory[s] # Nil /\ teamRow[s] # Nil
Settled == live => \A s \in Roster!Slots : memory[s] = teamRow[s] \/ \E c \in Pair : Settles(c, s)

Orderly ==
  /\ RosterShape /\ One /\ RosterKept /\ RosterBounded /\ Gone /\ Spawned
  /\ Alone /\ RosterApart /\ Ready /\ Written /\ Distinct /\ Settled
RosterIInv == Roster!TypeOK /\ (~excused => Orderly)


\* At the start there is no team.
LEMMA RosterInitial == ASSUME Roster!RosterAssumption, Roster!Init PROVE RosterIInv
<1>1. PICK n \in Names : teamRow = [Roster!Nobody EXCEPT ![1] = n] BY DEF Roster!Init
<1>2. 1 \in Roster!Slots /\ MaxSlots \in Nat BY DEF Roster!Slots, Roster!RosterAssumption
<1>3. teamRow \in Roster!Roster /\ teamRow[1] = n /\ \A s \in Roster!Slots \ {1} : teamRow[s] = Nil
  BY <1>1, <1>2 DEF Roster!Nobody, Roster!Roster
<1>4. Roster!Members(teamRow) = {1} /\ Nil # n BY <1>2, <1>3 DEF Roster!Members, Roster!RosterAssumption
<1>5. Roster!TypeOK
  BY <1>2, <1>3 DEF Roster!Init, Roster!TypeOK, Roster!Nobody, Roster!Roster, Roster!Kinds
<1>6. RosterShape /\ One /\ RosterKept /\ Gone /\ Spawned
  BY <1>4 DEF Roster!Init, RosterShape, One, Opens, RosterKept, Roster!At, Roster!Is, Gone, Spawned
<1>7. RosterBounded BY <1>2, <1>3 DEF Roster!Init, RosterBounded, Roster!Slots
<1>8. Alone /\ RosterApart /\ Ready /\ Written /\ Distinct /\ Settled
  BY DEF Roster!Init, Alone, RosterApart, Ready, Written, Distinct, Settled, Roster!At, Roster!Is
<1> QED BY <1>5, <1>6, <1>7, <1>8 DEF RosterIInv, Orderly

\* The counts of requests stay counts.
LEMMA RosterSpent ==
  ASSUME Roster!RosterAssumption, Roster!TypeOK, NEW kind \in Roster!Kinds, Roster!Spend(kind)
    PROVE rosterUsed' \in [Roster!Kinds -> Nat]
BY DEF Roster!TypeOK, Roster!Spend

\* A request that comes is well formed and the others stay as they are.
LEMMA RosterBegun ==
  ASSUME Roster!RosterAssumption, Roster!TypeOK, NEW c \in Pair, NEW kind \in Roster!Kinds,
           NEW s \in Roster!Slots \cup {Nil},
         NEW n \in Names \cup {Nil},
         NEW step \in {"lock", "create", "delete", "write", "memory", "drop", "insert"},
         Roster!Begin(c, kind, step, s, n)
  PROVE  /\ rosterUsed' \in [Roster!Kinds -> Nat]
              /\ rosterCall' \in [Pair -> Roster!CallState \cup {Nil}]
         /\ rosterCall[c] = Nil /\ rosterCall'[c] # Nil
         /\ rosterCall'[c].kind = kind /\ rosterCall'[c].pc = step /\ rosterCall'[c].slot = s
              /\ rosterCall'[c].name = n
         /\ rosterCall'[c].seen = teamRow /\ rosterCall'[c].stale = FALSE
         /\ \A d \in Pair \ {c} : rosterCall'[d] = rosterCall[d]
<1>1. Roster!Fresh(kind, step, s, n) \in Roster!CallState
  BY DEF Roster!Fresh, Roster!CallState, Roster!TypeOK
<1>2. Roster!Fresh(kind, step, s, n) # Nil BY <1>1 DEF Roster!RosterAssumption
<1>3. rosterUsed' \in [Roster!Kinds -> Nat] BY RosterSpent DEF Roster!Begin
<1>4. rosterCall' = [rosterCall EXCEPT ![c] = Roster!Fresh(kind, step, s, n)] /\ rosterCall[c] = Nil
  BY DEF Roster!Begin
<1>5. /\ rosterCall' \in [Pair -> Roster!CallState \cup {Nil}]
           /\ rosterCall'[c] = Roster!Fresh(kind, step, s, n)
      /\ \A d \in Pair \ {c} : rosterCall'[d] = rosterCall[d]
  BY <1>1, <1>4 DEF Roster!TypeOK
<1> QED BY <1>2, <1>3, <1>4, <1>5 DEF Roster!Fresh

\* A request to add a member keeps the invariant.
LEMMA AskKeeps ==
  ASSUME Roster!RosterAssumption, RosterIInv, NEW c \in Pair,
           NEW n \in Names, Roster!Add(c, n) \/ Roster!Spawn(c, n)
  PROVE  RosterIInv'
<1>1. /\ \E k \in Roster!Adders : Roster!Begin(c, k, "lock", Nil, n) /\ (k = "spawn" => live)
      /\ UNCHANGED <<Roster!rows, slots, conversations, Roster!session, addLock, excused>>
  BY DEF Roster!Add, Roster!Spawn, Roster!Adders
<1>2. PICK k \in Roster!Adders : Roster!Begin(c, k, "lock", Nil, n) /\ (k = "spawn" => live) BY <1>1
<1>3. k \in Roster!Kinds BY DEF Roster!Adders, Roster!Kinds
<1>4. /\ rosterUsed' \in [Roster!Kinds -> Nat] /\ rosterCall' \in [Pair -> Roster!CallState \cup {Nil}]
      /\ rosterCall[c] = Nil /\ rosterCall'[c] # Nil
      /\ rosterCall'[c].kind = k /\ rosterCall'[c].pc = "lock" /\ rosterCall'[c].slot = Nil
           /\ rosterCall'[c].name = n
      /\ rosterCall'[c].seen = teamRow /\ rosterCall'[c].stale = FALSE
      /\ \A d \in Pair \ {c} : rosterCall'[d] = rosterCall[d]
  BY <1>2, <1>3, RosterBegun DEF RosterIInv
<1>5. UNCHANGED <<teamRow, team, slots, conversations, live, memory, addLock, excused>>
  BY <1>1 DEF Roster!rows, Roster!session
<1>6. Roster!TypeOK' BY <1>4, <1>5 DEF RosterIInv, Roster!TypeOK
<1> SUFFICES ASSUME ~excused PROVE Orderly' BY <1>5, <1>6 DEF RosterIInv
<1>7. Orderly BY DEF RosterIInv
<1>8. RosterShape' BY <1>4, <1>7 DEF Orderly, RosterShape, RosterFormed, Roster!Adders
<1>9. One' BY <1>4, <1>5, <1>7 DEF Orderly, One, Opens, OpenSteps, Roster!Is
<1>10. RosterKept' BY <1>4, <1>5, <1>7 DEF Orderly, RosterKept, Roster!At
<1>11. RosterBounded' /\ Gone'
  BY <1>4, <1>5, <1>7 DEF Orderly, RosterBounded, Gone, Roster!RosterAssumption
<1>12. Spawned' BY <1>2, <1>4, <1>5, <1>7 DEF Orderly, Spawned, Roster!Is
<1>13. Alone' BY <1>4, <1>7 DEF Orderly, Alone, Roster!Is, Roster!RosterAssumption
<1>14. RosterApart'
  BY <1>4, <1>7 DEF Orderly, RosterApart, Roster!At, Roster!Is, Opens, OpenSteps, Roster!Adders
<1>15. Ready' /\ Written' BY <1>4, <1>5, <1>7 DEF Orderly, Ready, Written, Roster!At, Roster!Is
<1>16. Distinct' BY <1>4, <1>5, <1>7 DEF Orderly, Distinct, Roster!Is, Roster!Adders
<1>17. Settled' BY <1>4, <1>5, <1>7 DEF Orderly, Settled, Settles, Pends, Roster!At, Roster!Is
<1> QED
  BY <1>8, <1>9, <1>10, <1>11, <1>12, <1>13, <1>14, <1>15, <1>16, <1>17 DEF Orderly

\* A request to remove a member keeps the invariant.
LEMMA RemoveKeeps ==
  ASSUME Roster!RosterAssumption, RosterIInv, NEW c \in Pair,
           NEW s \in Roster!Slots, Roster!Remove(c, s)
    PROVE RosterIInv'
<1>1. /\ team /\ teamRow[s] # Nil /\ Roster!Begin(c, "remove", "delete", s, Nil)
           /\ Roster!Cross("remove", s)
      /\ UNCHANGED <<teamRow, team, slots, conversations, live, memory, addLock>>
  BY DEF Roster!Remove, Roster!rows, Roster!session
<1>2. "remove" \in Roster!Kinds BY DEF Roster!Kinds
<1>4. /\ rosterUsed' \in [Roster!Kinds -> Nat] /\ rosterCall' \in [Pair -> Roster!CallState \cup {Nil}]
      /\ rosterCall[c] = Nil /\ rosterCall'[c] # Nil
      /\ rosterCall'[c].kind = "remove" /\ rosterCall'[c].pc = "delete" /\ rosterCall'[c].slot = s
      /\ rosterCall'[c].name = Nil /\ rosterCall'[c].seen = teamRow /\ rosterCall'[c].stale = FALSE
      /\ \A d \in Pair \ {c} : rosterCall'[d] = rosterCall[d]
  BY <1>1, <1>2, RosterBegun DEF RosterIInv
<1>5. excused' \in BOOLEAN /\ (~excused' => ~excused /\ ~Roster!Meets("remove", s))
  BY <1>1 DEF Roster!Cross, RosterIInv, Roster!TypeOK
<1>6. Roster!TypeOK' BY <1>1, <1>4, <1>5 DEF RosterIInv, Roster!TypeOK
<1> SUFFICES ASSUME ~excused, ~Roster!Meets("remove", s) PROVE Orderly' BY <1>5, <1>6 DEF RosterIInv
<1>7. Orderly BY DEF RosterIInv
<1>7a. \A d \in Pair : ~Opens(d) BY DEF Roster!Meets, Opens, OpenSteps, Roster!Adders
<1>7b. \A d \in Pair : ~(Roster!At(d, "memory") /\ Roster!Is(d, Roster!Adders)
         /\ rosterCall[d].slot = s)
  BY DEF Roster!Meets, Roster!At, Roster!Is
<1>8. RosterShape' BY <1>4, <1>7 DEF Orderly, RosterShape, RosterFormed, Roster!Adders
<1>9. One' BY <1>1, <1>4, <1>7, <1>7a DEF Orderly, One, Opens, OpenSteps, Roster!Is, Roster!Adders
<1>10. RosterKept' BY <1>1, <1>4, <1>7, <1>7a DEF Orderly, RosterKept, Roster!At, Opens, OpenSteps
<1>11. RosterBounded' /\ Gone'
  <2>1. s <= slots
    BY <1>1, <1>7 DEF Orderly, RosterBounded, Roster!Slots, RosterIInv, Roster!TypeOK,
       Roster!RosterAssumption
  <2> QED BY <1>1, <1>4, <1>7, <2>1 DEF Orderly, RosterBounded, Gone
<1>12. Spawned' BY <1>1, <1>4, <1>7 DEF Orderly, Spawned, Roster!Is
<1>13. Alone'
  <2>1. \A d \in Pair : Roster!Is(d, Roster!Adders) /\ rosterCall[d].slot \in Roster!Slots
          => rosterCall[d].slot # s
    BY <1>7, <1>7a, <1>7b DEF Orderly, RosterShape, RosterFormed, Roster!At, Roster!Is, Opens,
       OpenSteps, Roster!Adders,
       Roster!RosterAssumption
  <2> QED BY <1>4, <1>7, <2>1 DEF Orderly, Alone, Roster!Is, Roster!Adders
<1>14. RosterApart' BY <1>4, <1>7 DEF Orderly, RosterApart, Roster!At, Roster!Is, Opens, Roster!Adders
<1>15. Ready' /\ Written' BY <1>1, <1>4, <1>7 DEF Orderly, Ready, Written, Roster!At, Roster!Is
<1>16. Distinct' BY <1>1, <1>4, <1>7 DEF Orderly, Distinct, Roster!Is
<1>17. Settled' BY <1>1, <1>4, <1>7 DEF Orderly, Settled, Settles, Pends, Roster!At, Roster!Is
<1> QED
  BY <1>8, <1>9, <1>10, <1>11, <1>12, <1>13, <1>14, <1>15, <1>16, <1>17 DEF Orderly

\* A rename keeps the invariant.
LEMMA RenameKeeps ==
  ASSUME Roster!RosterAssumption, RosterIInv, NEW c \in Pair, NEW s \in Roster!Slots,
           NEW n \in Names, Roster!Rename(c, s, n)
  PROVE  RosterIInv'
<1>1. /\ team /\ teamRow[s] # Nil /\ \A t \in Roster!Slots \ {s} : teamRow[t] # n
      /\ Roster!Begin(c, "rename", "write", s, n) /\ Roster!Cross("rename", s)
      /\ UNCHANGED <<teamRow, team, slots, conversations, live, memory, addLock>>
  BY DEF Roster!Rename, Roster!rows, Roster!session
<1>2. "rename" \in Roster!Kinds BY DEF Roster!Kinds
<1>4. /\ rosterUsed' \in [Roster!Kinds -> Nat] /\ rosterCall' \in [Pair -> Roster!CallState \cup {Nil}]
      /\ rosterCall[c] = Nil /\ rosterCall'[c] # Nil
      /\ rosterCall'[c].kind = "rename" /\ rosterCall'[c].pc = "write" /\ rosterCall'[c].slot = s
      /\ rosterCall'[c].name = n /\ rosterCall'[c].seen = teamRow /\ rosterCall'[c].stale = FALSE
      /\ \A d \in Pair \ {c} : rosterCall'[d] = rosterCall[d]
  BY <1>1, <1>2, RosterBegun DEF RosterIInv
<1>5. excused' \in BOOLEAN /\ (~excused' => ~excused /\ ~Roster!Meets("rename", s))
  BY <1>1 DEF Roster!Cross, RosterIInv, Roster!TypeOK
<1>6. Roster!TypeOK' BY <1>1, <1>4, <1>5 DEF RosterIInv, Roster!TypeOK
<1> SUFFICES ASSUME ~excused, ~Roster!Meets("rename", s) PROVE Orderly' BY <1>5, <1>6 DEF RosterIInv
<1>7. Orderly /\ Nil \notin Names BY DEF RosterIInv, Roster!RosterAssumption
<1>7a. \A d \in Pair : ~Opens(d) BY DEF Roster!Meets, Opens, OpenSteps, Roster!Adders
<1>7b. \A d \in Pair : ~(Roster!At(d, "memory") /\ Roster!Is(d, Roster!Adders)
         /\ rosterCall[d].slot = s)
  BY DEF Roster!Meets, Roster!At, Roster!Is
<1>7c. \A d \in Pair : Roster!At(d, "memory") => ~Roster!Is(d, {"remove"}) /\ ~Roster!Is(d, {"rename"})
  BY DEF Roster!Meets, Roster!At, Roster!Is
<1>7d. \A d \in Pair : ~Roster!Is(d, {"rename"})
  BY <1>7, <1>7a, <1>7c DEF Orderly, RosterShape, RosterFormed, Roster!At, Roster!Is, Opens, OpenSteps,
     Roster!Adders
<1>8. RosterShape' BY <1>4, <1>7 DEF Orderly, RosterShape, RosterFormed, Roster!Adders
<1>9. One' BY <1>1, <1>4, <1>7, <1>7a DEF Orderly, One, Opens, OpenSteps, Roster!Is, Roster!Adders
<1>10. RosterKept'
  <2>1. conversations = Roster!Members(teamRow)
    BY <1>7, <1>7a DEF Orderly, RosterKept, Roster!At, Opens, OpenSteps
  <2>2. teamRow \in Roster!Roster /\ [teamRow EXCEPT ![s] = n] \in Roster!Roster
    BY DEF RosterIInv, Roster!TypeOK, Roster!Roster
  <2>3. Roster!Members([teamRow EXCEPT ![s] = n]) = Roster!Members(teamRow)
    BY <1>1, <1>7, <2>2 DEF Roster!Members, Roster!Roster
  <2> QED BY <1>1, <1>4, <1>7, <1>7a, <2>1, <2>3 DEF Orderly, RosterKept, Roster!At, Opens, OpenSteps
<1>11. RosterBounded' /\ Gone'
  <2>1. s <= slots
    BY <1>1, <1>7 DEF Orderly, RosterBounded, Roster!Slots, RosterIInv, Roster!TypeOK,
       Roster!RosterAssumption
  <2> QED BY <1>1, <1>4, <1>7, <2>1 DEF Orderly, RosterBounded, Gone
<1>12. Spawned' BY <1>1, <1>4, <1>7 DEF Orderly, Spawned, Roster!Is
<1>13. Alone'
  <2>1. \A d \in Pair : Roster!Is(d, Roster!Adders) /\ rosterCall[d].slot \in Roster!Slots
          => rosterCall[d].slot # s
    BY <1>7, <1>7a, <1>7b DEF Orderly, RosterShape, RosterFormed, Roster!At, Roster!Is, Opens,
       OpenSteps, Roster!Adders,
       Roster!RosterAssumption
  <2> QED BY <1>4, <1>7, <2>1 DEF Orderly, Alone, Roster!Is, Roster!Adders
<1>14. RosterApart'
  BY <1>4, <1>7, <1>7d DEF Orderly, RosterApart, Roster!At, Roster!Is, Opens, Roster!Adders
<1>15. Ready' /\ Written'
  BY <1>1, <1>4, <1>7 DEF Orderly, Ready, Written, Roster!At, Roster!Is, Roster!Adders
<1>16. Distinct'
  <2>1. ASSUME live, NEW t \in Roster!Slots \ {s} PROVE memory[t] # n
    <3>1. memory[t] = teamRow[t] \/ \E d \in Pair : Settles(d, t)
      BY <1>7, <2>1 DEF Orderly, Settled
    <3>2. \A d \in Pair : Settles(d, t) => memory[t] = Nil
      BY <1>7c DEF Settles, Pends
    <3> QED BY <1>1, <1>7, <3>1, <3>2
  <2> QED BY <1>1, <1>4, <1>7, <2>1 DEF Orderly, Distinct, Roster!Is
<1>17. Settled' BY <1>1, <1>4, <1>7 DEF Orderly, Settled, Settles, Pends, Roster!At, Roster!Is
<1> QED
  BY <1>8, <1>9, <1>10, <1>11, <1>12, <1>13, <1>14, <1>15, <1>16, <1>17 DEF Orderly

\* The start of a session, which reads the row, keeps the invariant.
LEMMA EnsureKeeps ==
  ASSUME Roster!RosterAssumption, RosterIInv, NEW c \in Pair, Roster!Ensure(c) PROVE RosterIInv'
<1>1. /\ team /\ Roster!Begin(c, "ensure", "insert", Nil, Nil) /\ Roster!Cross("ensure", Nil)
      /\ UNCHANGED <<teamRow, team, slots, conversations, live, memory, addLock>>
  BY DEF Roster!Ensure, Roster!rows, Roster!session
<1>2. "ensure" \in Roster!Kinds BY DEF Roster!Kinds
<1>4. /\ rosterUsed' \in [Roster!Kinds -> Nat] /\ rosterCall' \in [Pair -> Roster!CallState \cup {Nil}]
      /\ rosterCall[c] = Nil /\ rosterCall'[c] # Nil
      /\ rosterCall'[c].kind = "ensure" /\ rosterCall'[c].pc = "insert" /\ rosterCall'[c].slot = Nil
      /\ rosterCall'[c].name = Nil /\ rosterCall'[c].seen = teamRow /\ rosterCall'[c].stale = FALSE
      /\ \A d \in Pair \ {c} : rosterCall'[d] = rosterCall[d]
  BY <1>1, <1>2, RosterBegun DEF RosterIInv
<1>5. excused' \in BOOLEAN /\ (~excused' => ~excused /\ ~Roster!Meets("ensure", Nil))
  BY <1>1 DEF Roster!Cross, RosterIInv, Roster!TypeOK
<1>6. Roster!TypeOK' BY <1>1, <1>4, <1>5 DEF RosterIInv, Roster!TypeOK
<1> SUFFICES ASSUME ~excused, ~Roster!Meets("ensure", Nil) PROVE Orderly' BY <1>5, <1>6 DEF RosterIInv
<1>7. Orderly BY DEF RosterIInv
<1>7a. \A d \in Pair : ~Opens(d) BY DEF Roster!Meets, Opens, OpenSteps, Roster!Adders
<1>8. RosterShape' BY <1>4, <1>7 DEF Orderly, RosterShape, RosterFormed, Roster!Adders
<1>9. One' BY <1>1, <1>4, <1>7, <1>7a DEF Orderly, One, Opens, OpenSteps, Roster!Is, Roster!Adders
<1>10. RosterKept' BY <1>1, <1>4, <1>7, <1>7a DEF Orderly, RosterKept, Roster!At, Opens, OpenSteps
<1>11. RosterBounded' /\ Gone'
  BY <1>1, <1>4, <1>7 DEF Orderly, RosterBounded, Gone, Roster!RosterAssumption
<1>12. Spawned' BY <1>1, <1>4, <1>7 DEF Orderly, Spawned, Roster!Is
<1>13. Alone' BY <1>4, <1>7 DEF Orderly, Alone, Roster!Is, Roster!Adders, Roster!RosterAssumption
<1>14. RosterApart' BY <1>4, <1>7 DEF Orderly, RosterApart, Roster!At, Roster!Is, Opens, Roster!Adders
<1>15. Ready' /\ Written' BY <1>1, <1>4, <1>7 DEF Orderly, Ready, Written, Roster!At, Roster!Is
<1>16. Distinct' BY <1>1, <1>4, <1>7 DEF Orderly, Distinct, Roster!Is
<1>17. Settled' BY <1>1, <1>4, <1>7 DEF Orderly, Settled, Settles, Pends, Roster!At, Roster!Is
<1> QED
  BY <1>8, <1>9, <1>10, <1>11, <1>12, <1>13, <1>14, <1>15, <1>16, <1>17 DEF Orderly

\* A session that goes marks the spawns and changes no call otherwise.
LEMMA Stopped ==
  ASSUME Roster!RosterAssumption,
           NEW after \in [Pair -> Roster!CallState \cup {Nil}], Roster!StopSession(after)
  PROVE  /\ rosterCall' \in [Pair -> Roster!CallState \cup {Nil}] /\ live' = FALSE
              /\ memory' = Roster!Nobody
         /\ \A d \in Pair :
              /\ rosterCall'[d] = Nil <=> after[d] = Nil
              /\ after[d] # Nil =>
                   /\ rosterCall'[d].kind = after[d].kind /\ rosterCall'[d].pc = after[d].pc
                   /\ rosterCall'[d].slot = after[d].slot /\ rosterCall'[d].name = after[d].name
                   /\ rosterCall'[d].seen = after[d].seen
                   /\ after[d].kind = "spawn" => rosterCall'[d].stale
<1>1. ASSUME NEW d \in Pair, after[d] # Nil
      PROVE  /\ [after[d] EXCEPT !.stale = TRUE] \in Roster!CallState
             /\ [after[d] EXCEPT !.stale = TRUE].kind = after[d].kind
             /\ [after[d] EXCEPT !.stale = TRUE].pc = after[d].pc
             /\ [after[d] EXCEPT !.stale = TRUE].slot = after[d].slot
             /\ [after[d] EXCEPT !.stale = TRUE].name = after[d].name
             /\ [after[d] EXCEPT !.stale = TRUE].seen = after[d].seen
             /\ [after[d] EXCEPT !.stale = TRUE].stale
  <2>1. after[d] \in Roster!CallState BY <1>1
  <2> QED BY <2>1 DEF Roster!CallState
<1>2. /\ rosterCall' = [c \in Pair |-> IF after[c] # Nil /\ after[c].kind = "spawn"
                              THEN [after[c] EXCEPT !.stale = TRUE] ELSE after[c]]
      /\ live' = FALSE /\ memory' = Roster!Nobody
  BY DEF Roster!StopSession
<1>3. ASSUME NEW d \in Pair
      PROVE  /\ rosterCall'[d] \in Roster!CallState \cup {Nil}
             /\ rosterCall'[d] = Nil <=> after[d] = Nil
             /\ after[d] # Nil =>
                   /\ rosterCall'[d].kind = after[d].kind /\ rosterCall'[d].pc = after[d].pc
                   /\ rosterCall'[d].slot = after[d].slot /\ rosterCall'[d].name = after[d].name
                   /\ rosterCall'[d].seen = after[d].seen
                   /\ after[d].kind = "spawn" => rosterCall'[d].stale
  <2>1. CASE after[d] # Nil /\ after[d].kind = "spawn"
    <3>1. rosterCall'[d] = [after[d] EXCEPT !.stale = TRUE] BY <1>2, <2>1
    <3> QED BY <1>1, <2>1, <3>1 DEF Roster!RosterAssumption
  <2>2. CASE ~(after[d] # Nil /\ after[d].kind = "spawn")
    <3>1. rosterCall'[d] = after[d] BY <1>2, <2>2
    <3> QED BY <2>2, <3>1
  <2> QED BY <2>1, <2>2
<1>4. rosterCall' \in [Pair -> Roster!CallState \cup {Nil}]
  <2>1. DOMAIN rosterCall' = Pair /\ rosterCall' = [c \in Pair |-> rosterCall'[c]] BY <1>2
  <2> QED BY <1>3, <2>1
<1> QED BY <1>2, <1>3, <1>4

\* The removal of the whole team keeps the invariant.
LEMMA RemoveTeamKeeps ==
  ASSUME Roster!RosterAssumption, RosterIInv, NEW c \in Pair, Roster!RemoveTeam(c) PROVE RosterIInv'
<1> DEFINE new == Roster!Fresh("drop", "delete", Nil, Nil)
           after == [rosterCall EXCEPT ![c] = new]
<1>1. /\ team /\ rosterCall[c] = Nil /\ Roster!Spend("drop") /\ Roster!StopSession(after)
           /\ Roster!Cross("drop", Nil)
      /\ UNCHANGED <<teamRow, team, slots, conversations, addLock>>
  BY DEF Roster!RemoveTeam, Roster!rows
<1>2. /\ new \in Roster!CallState /\ new.kind = "drop" /\ new.pc = "delete" /\ new.slot = Nil
      /\ new.name = Nil /\ new.seen = teamRow
  BY DEF Roster!Fresh, Roster!CallState, Roster!Kinds, RosterIInv, Roster!TypeOK
<1> HIDE DEF new
<1>3. /\ after \in [Pair -> Roster!CallState \cup {Nil}] /\ after[c] = new
      /\ \A d \in Pair \ {c} : after[d] = rosterCall[d]
  BY <1>2 DEF RosterIInv, Roster!TypeOK
<1>3a. new # Nil BY <1>2 DEF Roster!RosterAssumption
<1> HIDE DEF after
<1>3b. /\ rosterCall' \in [Pair -> Roster!CallState \cup {Nil}] /\ live' = FALSE
            /\ memory' = Roster!Nobody
       /\ \A d \in Pair :
            /\ rosterCall'[d] = Nil <=> after[d] = Nil
            /\ after[d] # Nil =>
                 /\ rosterCall'[d].kind = after[d].kind /\ rosterCall'[d].pc = after[d].pc
                 /\ rosterCall'[d].slot = after[d].slot /\ rosterCall'[d].name = after[d].name
                 /\ rosterCall'[d].seen = after[d].seen
                 /\ after[d].kind = "spawn" => rosterCall'[d].stale
  BY <1>1, <1>3, Stopped
<1>4. /\ rosterCall'[c] # Nil /\ rosterCall'[c].kind = "drop" /\ rosterCall'[c].pc = "delete"
      /\ rosterCall'[c].slot = Nil /\ rosterCall'[c].name = Nil /\ rosterCall'[c].seen = teamRow
      /\ \A d \in Pair \ {c} :
           /\ rosterCall'[d] = Nil <=> rosterCall[d] = Nil
           /\ rosterCall[d] # Nil =>
                /\ rosterCall'[d].kind = rosterCall[d].kind /\ rosterCall'[d].pc = rosterCall[d].pc
                /\ rosterCall'[d].slot = rosterCall[d].slot /\ rosterCall'[d].name = rosterCall[d].name
                /\ rosterCall'[d].seen = rosterCall[d].seen
                /\ rosterCall[d].kind = "spawn" => rosterCall'[d].stale
  BY <1>2, <1>3, <1>3a, <1>3b
<1>5. excused' \in BOOLEAN /\ (~excused' => ~excused /\ ~Roster!Meets("drop", Nil))
  BY <1>1 DEF Roster!Cross, RosterIInv, Roster!TypeOK
<1>6. Roster!TypeOK'
  <2>1. rosterUsed' \in [Roster!Kinds -> Nat] BY <1>1, RosterSpent DEF RosterIInv, Roster!Kinds
  <2>2. Roster!Nobody \in Roster!Roster BY DEF Roster!Nobody, Roster!Roster
  <2> QED BY <1>1, <1>3b, <1>5, <2>1, <2>2 DEF RosterIInv, Roster!TypeOK
<1> SUFFICES ASSUME ~excused, ~Roster!Meets("drop", Nil) PROVE Orderly' BY <1>5, <1>6 DEF RosterIInv
<1>7. Orderly BY DEF RosterIInv
<1>7a. \A d \in Pair : ~Opens(d) BY DEF Roster!Meets, Opens, OpenSteps, Roster!Adders
<1>8. RosterShape' BY <1>4, <1>7 DEF Orderly, RosterShape, RosterFormed, Roster!Adders
<1>9. One'
  BY <1>1, <1>3b, <1>4, <1>7, <1>7a DEF Orderly, One, Opens, OpenSteps, Roster!Is, Roster!Adders
<1>10. RosterKept' BY <1>1, <1>4, <1>7, <1>7a DEF Orderly, RosterKept, Roster!At, Opens, OpenSteps
<1>11. RosterBounded' /\ Gone'
  BY <1>1, <1>3b, <1>4, <1>7 DEF Orderly, RosterBounded, Gone, Roster!RosterAssumption
<1>12. Spawned' BY <1>4, <1>7 DEF Spawned, Roster!Is
<1>13. Alone' BY <1>4, <1>7 DEF Orderly, Alone, Roster!Is, Roster!Adders, Roster!RosterAssumption
<1>14. RosterApart' BY <1>4, <1>7 DEF Orderly, RosterApart, Roster!At, Roster!Is, Opens, Roster!Adders
<1>15. Ready' /\ Written' BY <1>1, <1>4, <1>7 DEF Orderly, Ready, Written, Roster!At, Roster!Is
<1>16. Distinct' BY <1>1, <1>3b, <1>4, <1>7 DEF Orderly, Distinct, Roster!Is
<1>17. Settled' BY <1>3b DEF Settled
<1> QED
  BY <1>8, <1>9, <1>10, <1>11, <1>12, <1>13, <1>14, <1>15, <1>16, <1>17 DEF Orderly

\* The stop of a session keeps the invariant.
LEMMA RosterStopKeeps ==
  ASSUME Roster!RosterAssumption, RosterIInv, Roster!Stop PROVE RosterIInv'
<1>1. Roster!Spend("stop") /\ Roster!StopSession(rosterCall)
        /\ UNCHANGED <<teamRow, team, slots, conversations, addLock, excused>>
  BY DEF Roster!Stop, Roster!rows
<1>3. rosterCall \in [Pair -> Roster!CallState \cup {Nil}] BY DEF RosterIInv, Roster!TypeOK
<1>4. /\ rosterCall' \in [Pair -> Roster!CallState \cup {Nil}] /\ live' = FALSE
           /\ memory' = Roster!Nobody
      /\ \A d \in Pair :
           /\ rosterCall'[d] = Nil <=> rosterCall[d] = Nil
           /\ rosterCall[d] # Nil =>
                /\ rosterCall'[d].kind = rosterCall[d].kind /\ rosterCall'[d].pc = rosterCall[d].pc
                /\ rosterCall'[d].slot = rosterCall[d].slot /\ rosterCall'[d].name = rosterCall[d].name
                /\ rosterCall'[d].seen = rosterCall[d].seen
                /\ rosterCall[d].kind = "spawn" => rosterCall'[d].stale
  BY <1>1, <1>3, Stopped
<1>6. Roster!TypeOK'
  <2>1. rosterUsed' \in [Roster!Kinds -> Nat] BY <1>1, RosterSpent DEF RosterIInv, Roster!Kinds
  <2>2. Roster!Nobody \in Roster!Roster BY DEF Roster!Nobody, Roster!Roster
  <2> QED BY <1>1, <1>4, <2>1, <2>2 DEF RosterIInv, Roster!TypeOK
<1> SUFFICES ASSUME ~excused PROVE Orderly' BY <1>1, <1>6 DEF RosterIInv
<1>7. Orderly BY DEF RosterIInv
<1>8. RosterShape' BY <1>4, <1>7 DEF Orderly, RosterShape, RosterFormed
<1>9. One' BY <1>1, <1>4, <1>7 DEF Orderly, One, Opens, Roster!Is
<1>10. RosterKept' BY <1>1, <1>4, <1>7 DEF Orderly, RosterKept, Roster!At
<1>11. RosterBounded' /\ Gone' BY <1>1, <1>4, <1>7 DEF Orderly, RosterBounded, Gone
<1>12. Spawned' BY <1>4, <1>7 DEF Spawned, Roster!Is
<1>13. Alone' BY <1>4, <1>7 DEF Orderly, Alone, Roster!Is
<1>14. RosterApart' BY <1>4, <1>7 DEF Orderly, RosterApart, Roster!At, Roster!Is, Opens
<1>15. Ready' /\ Written' BY <1>1, <1>4, <1>7 DEF Orderly, Ready, Written, Roster!At, Roster!Is
<1>16. Distinct' BY <1>1, <1>4, <1>7 DEF Orderly, Distinct, Roster!Is
<1>17. Settled' BY <1>4 DEF Settled
<1> QED
  BY <1>8, <1>9, <1>10, <1>11, <1>12, <1>13, <1>14, <1>15, <1>16, <1>17 DEF Orderly

\* A request that is over leaves the others and the lock of the others.
LEMMA RosterEnded ==
  ASSUME Roster!RosterAssumption, Roster!TypeOK, NEW c \in Pair, Roster!Over(c)
  PROVE  /\ rosterCall' \in [Pair -> Roster!CallState \cup {Nil}] /\ addLock' \in Pair \cup {Nil}
         /\ rosterCall'[c] = Nil /\ \A d \in Pair \ {c} : rosterCall'[d] = rosterCall[d]
         /\ \A d \in Pair \ {c} : addLock = d => addLock' = d
BY DEF Roster!Over, Roster!Free, Roster!TypeOK, Roster!RosterAssumption

\* A request that changes nothing at its end leaves all in order.
LEMMA RosterEndedKeeps ==
  ASSUME Roster!RosterAssumption, Roster!TypeOK, Orderly, NEW c \in Pair, Roster!Over(c),
         rosterCall[c] # Nil, rosterCall[c].pc \in {"lock", "create", "insert"},
         UNCHANGED <<teamRow, team, slots, conversations, live, memory>>
  PROVE  Orderly'
<1>1. UNCHANGED <<teamRow, team, slots, conversations, live, memory>> OBVIOUS
<1>4. /\ rosterCall'[c] = Nil /\ \A d \in Pair \ {c} : rosterCall'[d] = rosterCall[d]
      /\ \A d \in Pair \ {c} : addLock = d => addLock' = d
  BY RosterEnded
<1>7. Orderly OBVIOUS
<1>8. RosterShape' BY <1>4, <1>7 DEF Orderly, RosterShape
<1>9. One' BY <1>1, <1>4, <1>7 DEF Orderly, One, Opens, Roster!Is
<1>10. RosterKept' BY <1>1, <1>4, <1>7 DEF Orderly, RosterKept, Roster!At
<1>11. RosterBounded' /\ Gone' BY <1>1, <1>4, <1>7 DEF Orderly, RosterBounded, Gone
<1>12. Spawned' BY <1>1, <1>4, <1>7 DEF Orderly, Spawned, Roster!Is
<1>13. Alone' BY <1>4, <1>7 DEF Orderly, Alone, Roster!Is
<1>14. RosterApart' BY <1>4, <1>7 DEF Orderly, RosterApart, Roster!At, Roster!Is, Opens
<1>15. Ready' /\ Written' BY <1>1, <1>4, <1>7 DEF Orderly, Ready, Written, Roster!At, Roster!Is
<1>16. Distinct' BY <1>1, <1>4, <1>7 DEF Orderly, Distinct, Roster!Is
<1>17. Settled' BY <1>1, <1>4, <1>7 DEF Orderly, Settled, Settles, Pends, Roster!At, Roster!Is
<1> QED
  BY <1>8, <1>9, <1>10, <1>11, <1>12, <1>13, <1>14, <1>15, <1>16, <1>17 DEF Orderly

\* A request that is refused keeps the invariant.
LEMMA RefuseKeeps ==
  ASSUME Roster!RosterAssumption, RosterIInv, NEW c \in Pair, Roster!Refuse(c) PROVE RosterIInv'
<1>1. /\ rosterCall[c] # Nil /\ rosterCall[c].pc \in {"lock", "create", "insert"} /\ Roster!Over(c)
      /\ UNCHANGED <<teamRow, team, slots, conversations, live, memory, rosterUsed, excused>>
  BY DEF Roster!Refuse, Roster!At, Roster!rows, Roster!session
<1>2. Roster!TypeOK' BY <1>1, RosterEnded DEF RosterIInv, Roster!TypeOK
<1> QED BY <1>1, <1>2, RosterEndedKeeps DEF RosterIInv

\* A request that gets the lock and reads the row keeps the invariant.
LEMMA RosterLockKeeps ==
  ASSUME Roster!RosterAssumption, RosterIInv, NEW c \in Pair, Roster!Lock(c) PROVE RosterIInv'
<1>1. /\ rosterCall[c] # Nil /\ rosterCall[c].pc = "lock" /\ addLock = Nil
      /\ UNCHANGED <<teamRow, team, slots, conversations, live, memory, rosterUsed>>
  BY DEF Roster!Lock, Roster!At, Roster!rows, Roster!session
<1>2. CASE ~team
  <2>1. Roster!Over(c) /\ UNCHANGED excused BY <1>2 DEF Roster!Lock
  <2>2. Roster!TypeOK' BY <1>1, <2>1, RosterEnded DEF RosterIInv, Roster!TypeOK
  <2> QED BY <1>1, <2>1, <2>2, RosterEndedKeeps DEF RosterIInv
<1>3. CASE team
  <2> DEFINE new == [rosterCall[c] EXCEPT !.pc = "create", !.seen = teamRow]
  <2>1. addLock' = c /\ Roster!Cross(rosterCall[c].kind, Nil)
          /\ rosterCall' = [rosterCall EXCEPT ![c] = new]
    BY <1>3 DEF Roster!Lock
  <2>2. rosterCall[c] \in Roster!CallState /\ teamRow \in Roster!Roster
    BY <1>1 DEF RosterIInv, Roster!TypeOK
  <2>3. /\ new \in Roster!CallState /\ new.kind = rosterCall[c].kind /\ new.pc = "create"
        /\ new.slot = rosterCall[c].slot /\ new.name = rosterCall[c].name /\ new.seen = teamRow
        /\ new.stale = rosterCall[c].stale
    BY <2>2 DEF Roster!CallState
  <2> HIDE DEF new
  <2>4. /\ rosterCall' \in [Pair -> Roster!CallState \cup {Nil}] /\ rosterCall'[c] = new
        /\ \A d \in Pair \ {c} : rosterCall'[d] = rosterCall[d]
    BY <2>1, <2>3 DEF RosterIInv, Roster!TypeOK
  <2>5. /\ rosterCall'[c] # Nil /\ rosterCall'[c].kind = rosterCall[c].kind
             /\ rosterCall'[c].pc = "create"
        /\ rosterCall'[c].slot = rosterCall[c].slot /\ rosterCall'[c].name = rosterCall[c].name
             /\ rosterCall'[c].seen = teamRow
        /\ rosterCall'[c].stale = rosterCall[c].stale
    BY <2>3, <2>4 DEF Roster!RosterAssumption
  <2>6. excused' \in BOOLEAN /\ (~excused' => ~excused /\ ~Roster!Meets(rosterCall[c].kind, Nil))
    BY <2>1 DEF Roster!Cross, RosterIInv, Roster!TypeOK
  <2>7. Roster!TypeOK' BY <1>1, <2>1, <2>4, <2>6 DEF RosterIInv, Roster!TypeOK
  <2> SUFFICES ASSUME ~excused, ~Roster!Meets(rosterCall[c].kind, Nil) PROVE Orderly'
    BY <2>6, <2>7 DEF RosterIInv
  <2>8. Orderly BY DEF RosterIInv
  <2>9. rosterCall[c].kind \in Roster!Adders /\ rosterCall[c].slot = Nil /\ rosterCall[c].name \in Names
    BY <1>1, <2>8 DEF Orderly, RosterShape, RosterFormed, Roster!RosterAssumption
  <2>10. \A d \in Pair : ~Opens(d)
    <3> SUFFICES ASSUME NEW d \in Pair, Opens(d) PROVE FALSE OBVIOUS
    <3>1. Roster!Is(d, Roster!Adders) BY <2>9 DEF Roster!Meets, Opens, OpenSteps, Roster!Is
    <3>2. addLock = d BY <2>8, <3>1 DEF Orderly, One
    <3> QED BY <1>1, <3>2 DEF Roster!RosterAssumption
  <2>11. \A d \in Pair : ~(Roster!At(d, "memory") /\ Roster!Is(d, {"rename"}))
    BY <2>9 DEF Roster!Meets, Roster!At, Roster!Is
  <2>a. RosterShape' BY <2>4, <2>5, <2>8, <2>9 DEF Orderly, RosterShape, RosterFormed
  <2>b. One'
    BY <1>1, <1>3, <2>1, <2>4, <2>5, <2>9, <2>10 DEF One, Opens, OpenSteps, Roster!Is, Roster!Adders
  <2>c. RosterKept'
    BY <1>1, <2>4, <2>5, <2>8, <2>10 DEF Orderly, RosterKept, Roster!At, Opens, OpenSteps
  <2>d. RosterBounded' /\ Gone'
    BY <1>1, <2>4, <2>5, <2>8 DEF Orderly, RosterBounded, Gone
  <2>e. Spawned' BY <1>1, <2>4, <2>5, <2>8 DEF Orderly, Spawned, Roster!Is
  <2>f. Alone' BY <1>1, <2>4, <2>5, <2>8 DEF Orderly, Alone, Roster!Is
  <2>g. RosterApart'
    BY <1>1, <2>4, <2>5, <2>8, <2>11 DEF Orderly, RosterApart, Roster!At, Roster!Is, Opens
  <2>h. Ready' /\ Written' BY <1>1, <2>4, <2>5, <2>8 DEF Orderly, Ready, Written, Roster!At, Roster!Is
  <2>i. Distinct' BY <1>1, <2>4, <2>5, <2>8 DEF Orderly, Distinct, Roster!Is
  <2>j. Settled' BY <1>1, <2>4, <2>5, <2>8 DEF Orderly, Settled, Settles, Pends, Roster!At, Roster!Is
  <2> QED BY <2>a, <2>b, <2>c, <2>d, <2>e, <2>f, <2>g, <2>h, <2>i, <2>j DEF Orderly
<1> QED BY <1>2, <1>3 DEF RosterIInv, Roster!TypeOK

\* A conversation created for a member keeps the invariant.
LEMMA CreateKeeps ==
  ASSUME Roster!RosterAssumption, RosterIInv, NEW c \in Pair, Roster!Create(c) PROVE RosterIInv'
<1> DEFINE m == slots + 1
           new == [rosterCall[c] EXCEPT !.pc = "write", !.slot = m]
<1>1. /\ rosterCall[c] # Nil /\ rosterCall[c].pc = "create" /\ slots < MaxSlots
      /\ slots' = m /\ conversations' = conversations \cup {m}
           /\ rosterCall' = [rosterCall EXCEPT ![c] = new]
      /\ UNCHANGED <<teamRow, team, live, memory, addLock, rosterUsed, excused>>
  BY DEF Roster!Create, Roster!At, Roster!rows, Roster!session
<1>2. m \in Roster!Slots /\ slots < m /\ slots \in Nat /\ m \in Nat
  BY <1>1 DEF RosterIInv, Roster!TypeOK, Roster!Slots, Roster!RosterAssumption
<1>2a. m # Nil /\ \A s \in Roster!Slots : s \in Nat /\ (s > m => s > slots) /\ (s <= slots
         => s <= m /\ s # m)
  BY <1>2 DEF Roster!Slots, Roster!RosterAssumption
<1> HIDE DEF m
<1>2b. rosterCall[c] \in Roster!CallState BY <1>1 DEF RosterIInv, Roster!TypeOK
<1>3. /\ new \in Roster!CallState /\ new.kind = rosterCall[c].kind /\ new.pc = "write"
      /\ new.slot = m /\ new.name = rosterCall[c].name /\ new.seen = rosterCall[c].seen
      /\ new.stale = rosterCall[c].stale
  BY <1>2, <1>2b DEF Roster!CallState
<1> HIDE DEF new
<1>4. /\ rosterCall' \in [Pair -> Roster!CallState \cup {Nil}] /\ rosterCall'[c] = new
      /\ \A d \in Pair \ {c} : rosterCall'[d] = rosterCall[d]
  BY <1>1, <1>3 DEF RosterIInv, Roster!TypeOK
<1>5. /\ rosterCall'[c] # Nil /\ rosterCall'[c].kind = rosterCall[c].kind /\ rosterCall'[c].pc = "write"
      /\ rosterCall'[c].slot = m /\ rosterCall'[c].name = rosterCall[c].name
           /\ rosterCall'[c].seen = rosterCall[c].seen
      /\ rosterCall'[c].stale = rosterCall[c].stale
  BY <1>3, <1>4 DEF Roster!RosterAssumption
<1>6. Roster!TypeOK' BY <1>1, <1>2, <1>4 DEF RosterIInv, Roster!TypeOK
<1> SUFFICES ASSUME ~excused PROVE Orderly' BY <1>1, <1>6 DEF RosterIInv
<1>7. Orderly BY DEF RosterIInv
<1>7a. rosterCall[c].kind \in Roster!Adders /\ rosterCall[c].name \in Names
  BY <1>1, <1>7 DEF Orderly, RosterShape, RosterFormed
<1>7b. Opens(c) /\ Roster!Is(c, Roster!Adders) BY <1>1, <1>7a DEF Opens, OpenSteps, Roster!Is
<1>7c. team /\ rosterCall[c].seen = teamRow /\ addLock = c /\ \A d \in Pair : Opens(d) => d = c
  BY <1>7, <1>7b DEF Orderly, One
<1>7d. teamRow[m] = Nil /\ \A d \in Pair : rosterCall[d] # Nil => rosterCall[d].slot # m
  <2>1. m > slots BY <1>2
  <2>2. teamRow[m] = Nil BY <1>2, <1>7, <2>1 DEF Orderly, RosterBounded
  <2>3. ASSUME NEW d \in Pair, rosterCall[d] # Nil, rosterCall[d].slot = m PROVE FALSE
    <3>1. m <= slots BY <1>2, <1>7, <2>3 DEF Orderly, RosterBounded
    <3> QED BY <1>2, <3>1
  <2> QED BY <2>2, <2>3
<1>8. RosterShape' BY <1>2, <1>4, <1>5, <1>7, <1>7a DEF Orderly, RosterShape, RosterFormed
<1>9. One' BY <1>1, <1>4, <1>5, <1>7, <1>7a, <1>7c DEF One, Opens, OpenSteps, Roster!Is, Roster!Adders
<1>10. RosterKept'
  <2>1. conversations = Roster!Members(teamRow)
    BY <1>1, <1>7, <1>7c DEF Orderly, RosterKept, Roster!At, Opens, OpenSteps
  <2>2. Roster!Members([teamRow EXCEPT ![m] = rosterCall[c].name]) = Roster!Members(teamRow) \cup {m}
    BY <1>2, <1>7a DEF Roster!Members, RosterIInv, Roster!TypeOK, Roster!Roster, Roster!RosterAssumption
  <2>3. \A d \in Pair \ {c} : ~Roster!At(d, "write")' /\ ~Roster!At(d, "drop")'
    BY <1>4, <1>7c DEF Roster!At, Opens, OpenSteps
  <2>4. Roster!At(c, "write")' /\ ~Roster!At(c, "drop")' BY <1>5 DEF Roster!At
  <2> QED BY <1>1, <1>5, <2>1, <2>2, <2>3, <2>4 DEF RosterKept, Roster!At
<1>11. RosterBounded'
  <2>1. \A s \in Roster!Slots : s > m => teamRow[s] = Nil BY <1>2a, <1>7 DEF Orderly, RosterBounded
  <2>2. \A d \in Pair \ {c} : rosterCall[d] # Nil /\ rosterCall[d].slot \in Roster!Slots
          => rosterCall[d].slot <= m
    BY <1>2a, <1>7 DEF Orderly, RosterBounded
  <2>3. m <= m BY <1>2
  <2> QED BY <1>1, <1>4, <1>5, <2>1, <2>2, <2>3 DEF RosterBounded
<1>12. Gone' /\ Spawned' BY <1>1, <1>4, <1>5, <1>7 DEF Orderly, Gone, Spawned, Roster!Is
<1>13. Alone' BY <1>4, <1>5, <1>7, <1>7d DEF Orderly, Alone, Roster!Is
<1>14. RosterApart'
  BY <1>4, <1>5, <1>7, <1>7b DEF Orderly, RosterApart, Roster!At, Roster!Is, Opens, OpenSteps
<1>15. Ready' /\ Written'
  BY <1>1, <1>4, <1>5, <1>7, <1>7a, <1>7d DEF Orderly, Ready, Written, Roster!At, Roster!Is,
     Roster!Adders
<1>16. Distinct' BY <1>1, <1>4, <1>5, <1>7, <1>7a DEF Orderly, Distinct, Roster!Is, Roster!Adders
<1>17. Settled' BY <1>1, <1>4, <1>5, <1>7 DEF Orderly, Settled, Settles, Pends, Roster!At, Roster!Is
<1> QED
  BY <1>8, <1>9, <1>10, <1>11, <1>12, <1>13, <1>14, <1>15, <1>16, <1>17 DEF Orderly

\* A conversation deleted with its member keeps the invariant.
LEMMA MemberDeleteKeeps ==
  ASSUME Roster!RosterAssumption, RosterIInv, NEW c \in Pair, Roster!Delete(c) PROVE RosterIInv'
<1> DEFINE step == IF Roster!Is(c, {"drop"}) THEN "drop" ELSE "write"
           new == [rosterCall[c] EXCEPT !.pc = step]
<1>1. /\ rosterCall[c] # Nil /\ rosterCall[c].pc = "delete"
      /\ conversations'
           = conversations
                \ (IF Roster!Is(c, {"drop"}) THEN Roster!Members(rosterCall[c].seen) ELSE {rosterCall[c].slot})
      /\ rosterCall' = [rosterCall EXCEPT ![c] = new]
      /\ UNCHANGED <<teamRow, team, slots, live, memory, addLock, rosterUsed, excused>>
  BY DEF Roster!Delete, Roster!At, Roster!rows, Roster!session
<1>2. rosterCall[c] \in Roster!CallState /\ step \in {"drop", "write"}
  BY <1>1 DEF RosterIInv, Roster!TypeOK
<1>2a. step = (IF Roster!Is(c, {"drop"}) THEN "drop" ELSE "write") OBVIOUS
<1> HIDE DEF step
<1>3. /\ new \in Roster!CallState /\ new.kind = rosterCall[c].kind /\ new.pc = step
      /\ new.slot = rosterCall[c].slot /\ new.name = rosterCall[c].name /\ new.seen = rosterCall[c].seen
      /\ new.stale = rosterCall[c].stale
  BY <1>2 DEF Roster!CallState
<1> HIDE DEF new
<1>4. /\ rosterCall' \in [Pair -> Roster!CallState \cup {Nil}] /\ rosterCall'[c] = new
      /\ \A d \in Pair \ {c} : rosterCall'[d] = rosterCall[d]
  BY <1>1, <1>3 DEF RosterIInv, Roster!TypeOK
<1>5. /\ rosterCall'[c] # Nil /\ rosterCall'[c].kind = rosterCall[c].kind /\ rosterCall'[c].pc = step
      /\ rosterCall'[c].slot = rosterCall[c].slot /\ rosterCall'[c].name = rosterCall[c].name
      /\ rosterCall'[c].seen = rosterCall[c].seen /\ rosterCall'[c].stale = rosterCall[c].stale
  BY <1>3, <1>4 DEF Roster!RosterAssumption
<1>6. Roster!TypeOK' BY <1>1, <1>4 DEF RosterIInv, Roster!TypeOK
<1> SUFFICES ASSUME ~excused PROVE Orderly' BY <1>1, <1>6 DEF RosterIInv
<1>7. Orderly BY DEF RosterIInv
<1>7a. Opens(c) BY <1>1 DEF Opens, OpenSteps
<1>7b. /\ team /\ rosterCall[c].seen = teamRow /\ (\A d \in Pair : Opens(d) => d = c)
       /\ (Roster!Is(c, {"drop"}) => ~live)
  BY <1>7, <1>7a DEF Orderly, One
<1>7c. \/ rosterCall[c].kind = "remove" /\ rosterCall[c].slot \in Roster!Slots
            /\ rosterCall[c].name = Nil /\ step = "write"
       \/ rosterCall[c].kind = "drop" /\ rosterCall[c].slot = Nil /\ step = "drop"
  BY <1>1, <1>2a, <1>7 DEF Orderly, RosterShape, RosterFormed, Roster!Is
<1>8. RosterShape' BY <1>4, <1>5, <1>7, <1>7c DEF Orderly, RosterShape, RosterFormed
<1>9. One' BY <1>1, <1>4, <1>5, <1>7b, <1>7c DEF One, Opens, OpenSteps, Roster!Is, Roster!Adders
<1>10. RosterKept'
  <2>1. conversations = Roster!Members(teamRow)
    BY <1>1, <1>7, <1>7b DEF Orderly, RosterKept, Roster!At, Opens, OpenSteps
  <2>2. \A d \in Pair \ {c} : ~Roster!At(d, "write")' /\ ~Roster!At(d, "drop")'
    BY <1>4, <1>7b DEF Roster!At, Opens, OpenSteps
  <2>3. CASE rosterCall[c].kind = "remove"
    <3>1. /\ rosterCall[c].slot \in Roster!Slots /\ rosterCall[c].name = Nil
               /\ Roster!At(c, "write")' /\ ~Roster!At(c, "drop")'
          /\ ~Roster!Is(c, {"drop"})
      BY <1>5, <1>7c, <2>3 DEF Roster!At, Roster!Is
    <3>2. Roster!Members([teamRow EXCEPT ![rosterCall[c].slot] = Nil])
            = Roster!Members(teamRow) \ {rosterCall[c].slot}
      BY <3>1 DEF Roster!Members, RosterIInv, Roster!TypeOK, Roster!Roster
    <3> QED BY <1>1, <1>5, <2>1, <2>2, <3>1, <3>2 DEF RosterKept, Roster!At
  <2>4. CASE rosterCall[c].kind = "drop"
    <3>1. Roster!At(c, "drop")' /\ ~Roster!At(c, "write")' /\ Roster!Is(c, {"drop"})
      BY <1>1, <1>5, <1>7c, <2>4 DEF Roster!At, Roster!Is
    <3> QED BY <1>1, <1>7b, <2>1, <2>2, <3>1 DEF RosterKept, Roster!At
  <2> QED BY <1>7c, <2>3, <2>4
<1>11. RosterBounded' /\ Gone' BY <1>1, <1>4, <1>5, <1>7 DEF Orderly, RosterBounded, Gone
<1>12. Spawned' BY <1>1, <1>4, <1>5, <1>7 DEF Orderly, Spawned, Roster!Is
<1>13. Alone' BY <1>1, <1>4, <1>5, <1>7 DEF Orderly, Alone, Roster!Is
<1>14. RosterApart'
  BY <1>1, <1>4, <1>5, <1>7, <1>7c DEF Orderly, RosterApart, Roster!At, Roster!Is, Opens, OpenSteps,
     Roster!Adders
<1>15. Ready' /\ Written'
  BY <1>1, <1>4, <1>5, <1>7, <1>7c DEF Orderly, Ready, Written, Roster!At, Roster!Is, Roster!Adders
<1>16. Distinct' BY <1>1, <1>4, <1>5, <1>7 DEF Orderly, Distinct, Roster!Is
<1>17. Settled'
  BY <1>1, <1>4, <1>5, <1>7, <1>7c DEF Orderly, Settled, Settles, Pends, Roster!At, Roster!Is
<1> QED
  BY <1>8, <1>9, <1>10, <1>11, <1>12, <1>13, <1>14, <1>15, <1>16, <1>17 DEF Orderly

\* A request that only goes on is as it was, but at another step.
LEMMA Goes ==
  ASSUME Roster!RosterAssumption, Roster!TypeOK, NEW c \in Pair, rosterCall[c] # Nil,
         NEW step \in {"lock", "create", "delete", "write", "memory", "drop", "insert"},
         rosterCall' = [rosterCall EXCEPT ![c].pc = step]
  PROVE  /\ rosterCall' \in [Pair -> Roster!CallState \cup {Nil}] /\ rosterCall'[c] # Nil
         /\ rosterCall'[c].kind = rosterCall[c].kind /\ rosterCall'[c].pc = step
              /\ rosterCall'[c].slot = rosterCall[c].slot
         /\ rosterCall'[c].name = rosterCall[c].name /\ rosterCall'[c].seen = rosterCall[c].seen
         /\ rosterCall'[c].stale = rosterCall[c].stale
         /\ \A d \in Pair \ {c} : rosterCall'[d] = rosterCall[d]
<1> DEFINE new == [rosterCall[c] EXCEPT !.pc = step]
<1>1. rosterCall[c] \in Roster!CallState BY DEF Roster!TypeOK
<1>2. /\ new \in Roster!CallState /\ new.kind = rosterCall[c].kind /\ new.pc = step
           /\ new.slot = rosterCall[c].slot
      /\ new.name = rosterCall[c].name /\ new.seen = rosterCall[c].seen
           /\ new.stale = rosterCall[c].stale
  BY <1>1 DEF Roster!CallState
<1>3. rosterCall' = [rosterCall EXCEPT ![c] = new] OBVIOUS
<1> HIDE DEF new
<1>4. /\ rosterCall' \in [Pair -> Roster!CallState \cup {Nil}] /\ rosterCall'[c] = new
      /\ \A d \in Pair \ {c} : rosterCall'[d] = rosterCall[d]
  BY <1>2, <1>3 DEF Roster!TypeOK
<1> QED BY <1>2, <1>4 DEF Roster!RosterAssumption

\* The row, written back whole, keeps the invariant.
LEMMA RosterWriteKeeps ==
  ASSUME Roster!RosterAssumption, RosterIInv, NEW c \in Pair, Roster!Write(c) PROVE RosterIInv'
<1> DEFINE s == rosterCall[c].slot
           n == rosterCall[c].name
<1>1. /\ rosterCall[c] # Nil /\ rosterCall[c].pc = "write"
      /\ UNCHANGED <<team, slots, conversations, live, memory, rosterUsed>>
  BY DEF Roster!Write, Roster!At, Roster!session
<1>1a. rosterCall[c] \in Roster!CallState BY <1>1 DEF RosterIInv, Roster!TypeOK
<1>2. CASE ~team
  <2>1. Roster!Over(c) /\ UNCHANGED <<teamRow, excused>> BY <1>2 DEF Roster!Write
  <2>2. Roster!TypeOK' BY <1>1, <2>1, RosterEnded DEF RosterIInv, Roster!TypeOK
  <2>3. Opens(c) BY <1>1 DEF Opens, OpenSteps
  <2>4. excused BY <1>2, <2>3 DEF RosterIInv, Orderly, One
  <2> QED BY <2>1, <2>2, <2>4 DEF RosterIInv
<1>3. CASE team
  <2>1. /\ teamRow' = [rosterCall[c].seen EXCEPT ![s] = n]
             /\ rosterCall' = [rosterCall EXCEPT ![c].pc = "memory"]
        /\ addLock' = (IF Roster!Is(c, {"spawn"}) THEN Roster!Free(c) ELSE addLock)
        /\ excused' = (excused \/ (rosterCall[c].stale /\ live))
    BY <1>3 DEF Roster!Write
  <2>2. /\ rosterCall' \in [Pair -> Roster!CallState \cup {Nil}] /\ rosterCall'[c] # Nil
        /\ rosterCall'[c].kind = rosterCall[c].kind /\ rosterCall'[c].pc = "memory"
             /\ rosterCall'[c].slot = s
        /\ rosterCall'[c].name = n /\ rosterCall'[c].seen = rosterCall[c].seen
             /\ rosterCall'[c].stale = rosterCall[c].stale
        /\ \A d \in Pair \ {c} : rosterCall'[d] = rosterCall[d]
    BY <1>1, <2>1, Goes DEF RosterIInv
  <2>3. Roster!TypeOK'
    <3>1. rosterCall[c].seen \in Roster!Roster /\ n \in Names \cup {Nil}
            /\ rosterCall[c].stale \in BOOLEAN
      BY <1>1a DEF Roster!CallState
    <3>2. teamRow' \in Roster!Roster BY <2>1, <3>1 DEF Roster!Roster
    <3>3. excused' \in BOOLEAN BY <2>1, <3>1 DEF RosterIInv, Roster!TypeOK
    <3>4. addLock' \in Pair \cup {Nil} BY <2>1 DEF RosterIInv, Roster!TypeOK, Roster!Free
    <3> QED BY <1>1, <2>2, <3>2, <3>3, <3>4 DEF RosterIInv, Roster!TypeOK
  <2> SUFFICES ASSUME ~excused, ~(rosterCall[c].stale /\ live)
    PROVE Orderly' BY <2>1, <2>3 DEF RosterIInv
  <2>4. Orderly BY DEF RosterIInv
  <2>5. Opens(c) BY <1>1 DEF Opens, OpenSteps
  <2>6. /\ rosterCall[c].seen = teamRow /\ \A d \in Pair : Opens(d) => d = c
        /\ teamRow \in Roster!Roster /\ Nil \notin Names /\ Nil \notin Roster!Slots
    BY <2>4, <2>5 DEF Orderly, One, RosterIInv, Roster!TypeOK, Roster!RosterAssumption
  <2>7. /\ s \in Roster!Slots
        /\ \/ rosterCall[c].kind \in Roster!Adders /\ n \in Names
           \/ rosterCall[c].kind = "remove" /\ n = Nil
           \/ rosterCall[c].kind = "rename" /\ n \in Names
    BY <1>1, <2>4, <2>6 DEF Orderly, RosterShape, RosterFormed, Roster!Adders
  <2>8. teamRow'[s] = n /\ \A t \in Roster!Slots \ {s} : teamRow'[t] = teamRow[t]
    BY <2>1, <2>6, <2>7 DEF Roster!Roster
  <2>8a. teamRow' = [teamRow EXCEPT ![s] = n] BY <2>1, <2>6
  <2>9. /\ rosterCall[c].kind \in Roster!Adders => teamRow[s] = Nil
        /\ rosterCall[c].kind = "rename" => teamRow[s] # Nil
    BY <1>1, <2>4 DEF Orderly, Ready, Roster!At, Roster!Is
  <2>10. \A d \in Pair \ {c} : rosterCall[d] # Nil /\ rosterCall[d].slot = s
           => rosterCall[c].kind \notin Roster!Adders
    BY <1>1, <2>4, <2>7 DEF Orderly, Alone, Roster!Is
  <2>11. \A d \in Pair \ {c} :
           rosterCall[d] # Nil /\ rosterCall[d].kind \in Roster!Adders
             /\ rosterCall[d].slot \in Roster!Slots => rosterCall[d].slot # s
    BY <1>1, <2>4, <2>7 DEF Orderly, Alone, Roster!Is
  <2>12. \A d \in Pair \ {c} : Roster!At(d, "memory") /\ Roster!Is(d, {"rename"})
           => rosterCall[c].kind = "remove"
    BY <1>1, <2>4, <2>5, <2>7 DEF Orderly, RosterApart, Roster!Is
  <2> HIDE DEF s, n
  <2>a. RosterShape' BY <2>2, <2>4, <2>7 DEF Orderly, RosterShape, RosterFormed, Roster!Adders
  <2>b. One' BY <2>2, <2>6 DEF One, Opens, OpenSteps
  <2>c. RosterKept'
    <3>1. \A d \in Pair : ~Roster!At(d, "write")' /\ ~Roster!At(d, "drop")'
      BY <2>2, <2>6 DEF Roster!At, Opens, OpenSteps
    <3>2. conversations = Roster!Members([teamRow EXCEPT ![s] = n])
      BY <1>1, <2>4 DEF Orderly, RosterKept, Roster!At, s, n
    <3> QED BY <1>1, <2>8a, <3>1, <3>2 DEF RosterKept
  <2>d. RosterBounded' /\ Gone'
    <3>1. s <= slots BY <1>1, <2>4, <2>7 DEF Orderly, RosterBounded, s
    <3>2. \A t \in Roster!Slots : t > slots => t # s
      BY <2>7, <3>1 DEF RosterIInv, Roster!TypeOK, Roster!Slots, Roster!RosterAssumption
    <3> QED BY <1>1, <1>3, <2>2, <2>4, <2>8, <3>1, <3>2 DEF Orderly, RosterBounded, Gone, s
  <2>e. Spawned' BY <1>1, <2>2, <2>4 DEF Orderly, Spawned, Roster!Is
  <2>f. Alone' BY <1>1, <2>2, <2>4 DEF Orderly, Alone, Roster!Is, s
  <2>g. RosterApart'
    <3>1. rosterCall[c].kind = "rename"
            => \A d \in Pair \ {c} : ~Roster!At(d, "memory") \/ ~Roster!Is(d, {"rename"})
      BY <2>12
    <3>2. \A d \in Pair \ {c} : ~Opens(d) BY <2>6
    <3>3. \A d \in Pair \ {c} : Roster!Is(d, {"rename"}) => Roster!At(d, "memory") \/ Opens(d)
      BY <2>4 DEF Orderly, RosterShape, RosterFormed, Roster!Is, Roster!At, Opens, OpenSteps,
         Roster!Adders
    <3> QED
      BY <2>2, <2>4, <2>12, <3>1, <3>2, <3>3 DEF Orderly, RosterApart, Roster!At, Roster!Is, Opens,
         OpenSteps, Roster!Adders
  <2>h. Ready' BY <2>2, <2>6 DEF Ready, Roster!At, Opens, OpenSteps
  <2>i. Written'
    <3> SUFFICES ASSUME NEW d \in Pair, Roster!At(d, "memory")'
                 PROVE  \/ teamRow'[rosterCall'[d].slot] = rosterCall'[d].name
                        \/ Roster!Is(d, {"rename"})' /\ teamRow'[rosterCall'[d].slot] = Nil
      BY DEF Written
    <3>1. CASE d = c BY <2>2, <2>8, <3>1
    <3>2. CASE d # c
      <4>1. Roster!At(d, "memory") /\ rosterCall'[d] = rosterCall[d] BY <2>2, <3>2 DEF Roster!At
      <4>2. rosterCall[d].slot \in Roster!Slots
        BY <2>4, <4>1 DEF Orderly, RosterShape, RosterFormed, Roster!At
      <4>3. \/ teamRow[rosterCall[d].slot] = rosterCall[d].name
            \/ Roster!Is(d, {"rename"}) /\ teamRow[rosterCall[d].slot] = Nil
        BY <1>3, <2>4, <4>1 DEF Orderly, Written
      <4>4. CASE rosterCall[d].slot # s BY <2>8, <4>1, <4>2, <4>3, <4>4 DEF Roster!Is
      <4>5. CASE rosterCall[d].slot = s
        <5>1. rosterCall[c].kind \notin Roster!Adders /\ rosterCall[d].kind \notin Roster!Adders
          BY <2>7, <2>10, <2>11, <3>2, <4>1, <4>5 DEF Roster!At
        <5>2. CASE rosterCall[d].kind = "rename"
          <6>1. n = Nil BY <2>7, <2>12, <3>2, <4>1, <5>2 DEF Roster!At, Roster!Is, Roster!Adders
          <6> QED BY <2>8, <4>1, <4>5, <5>2, <6>1 DEF Roster!At, Roster!Is
        <5>3. CASE rosterCall[d].kind = "remove"
          <6>1. teamRow[s] = Nil
            BY <2>4, <4>1, <4>3, <4>5, <5>3 DEF Orderly, RosterShape, RosterFormed, Roster!At,
               Roster!Is, Roster!Adders
          <6>2. n = Nil BY <2>7, <2>9, <5>1, <6>1
          <6>3. rosterCall[d].name = Nil
            BY <2>4, <4>1, <5>3 DEF Orderly, RosterShape, RosterFormed, Roster!At, Roster!Adders
          <6> QED BY <2>8, <4>1, <4>5, <6>2, <6>3
        <5> QED BY <2>4, <4>1, <5>1, <5>2, <5>3 DEF Orderly, RosterShape, RosterFormed, Roster!At
      <4> QED BY <4>4, <4>5
    <3> QED BY <3>1, <3>2
  <2>j. Distinct'
    <3> SUFFICES ASSUME NEW d \in Pair, Roster!Is(d, {"rename"})',
          NEW t \in Roster!Slots, t # rosterCall'[d].slot
                 PROVE  teamRow'[t] # rosterCall'[d].name /\ (live' => memory'[t] # rosterCall'[d].name)
      BY DEF Distinct
    <3>1. /\ Roster!Is(d, {"rename"}) /\ rosterCall'[d].slot = rosterCall[d].slot
               /\ rosterCall'[d].name = rosterCall[d].name
      BY <1>1, <2>2 DEF Roster!Is, s, n
    <3>2. teamRow[t] # rosterCall[d].name /\ (live => memory[t] # rosterCall[d].name)
      BY <2>4, <3>1 DEF Orderly, Distinct
    <3>3. CASE d = c BY <1>1, <2>8, <3>1, <3>2, <3>3 DEF s
    <3>4. CASE d # c
      <4>1. Roster!At(d, "memory")
        BY <2>4, <2>6, <3>1, <3>4 DEF Orderly, RosterShape, RosterFormed, Roster!Is, Roster!At, Opens,
           OpenSteps, Roster!Adders
      <4>2. n = Nil BY <2>7, <2>12, <3>1, <3>4, <4>1 DEF Roster!Adders
      <4>3. rosterCall[d].name \in Names
        BY <2>4, <3>1 DEF Orderly, RosterShape, RosterFormed, Roster!Is, Roster!Adders
      <4> QED BY <1>1, <2>6, <2>8, <3>1, <3>2, <4>2, <4>3
    <3> QED BY <3>3, <3>4
  <2>k. Settled'
    <3> SUFFICES ASSUME live, NEW t \in Roster!Slots
                 PROVE  memory[t] = teamRow'[t] \/ \E d \in Pair : Settles(d, t)'
      BY <1>1 DEF Settled
    <3>1. memory[t] = teamRow[t] \/ \E d \in Pair : Settles(d, t) BY <2>4 DEF Orderly, Settled
    <3>2. CASE t # s
      <4>1. teamRow'[t] = teamRow[t] BY <2>8, <3>2
      <4>2. \A d \in Pair : Settles(d, t) => Settles(d, t)'
        BY <1>1, <2>2, <4>1 DEF Settles, Pends, Roster!At, Roster!Is
      <4> QED BY <3>1, <4>1, <4>2
    <3>3. CASE t = s
      <4>1. Roster!At(c, "memory")' /\ rosterCall'[c].slot = t BY <2>2, <3>3 DEF Roster!At
      <4>2. CASE rosterCall[c].kind = "remove"
        <5>1. Settles(c, t)' BY <2>2, <4>1, <4>2 DEF Settles, Pends, Roster!Is
        <5> QED BY <5>1
      <4>3. CASE rosterCall[c].kind \in Roster!Adders
        <5>1. \A d \in Pair : ~Settles(d, t)
          BY <1>1, <2>10, <3>3, <4>3 DEF Settles, Pends, Roster!At
        <5>2. memory[t] = Nil BY <2>9, <3>1, <3>3, <4>3, <5>1
        <5>3. Settles(c, t)' BY <1>1, <2>2, <4>1, <4>3, <5>2 DEF Settles, Pends, Roster!Is
        <5> QED BY <5>3
      <4>4. CASE rosterCall[c].kind = "rename"
        <5>1. teamRow[t] # Nil /\ teamRow'[t] # Nil
          BY <2>6, <2>7, <2>8, <2>9, <3>3, <4>4 DEF Roster!Adders
        <5>2. memory[t] # Nil
          <6>1. \A d \in Pair : ~Pends(d, {"remove"}, t)
            <7> SUFFICES ASSUME NEW d \in Pair, Pends(d, {"remove"}, t) PROVE FALSE OBVIOUS
            <7>1. rosterCall[d].name = Nil
              BY <2>4 DEF Orderly, RosterShape, RosterFormed, Pends, Roster!At, Roster!Is, Roster!Adders
            <7>2. teamRow[t] = Nil BY <1>3, <2>4, <7>1 DEF Orderly, Written, Pends
            <7> QED BY <5>1, <7>2
          <6>2. \A d \in Pair : ~Pends(d, Roster!Adders, t)
            BY <1>1, <2>7, <2>11, <3>3, <4>4 DEF Pends, Roster!At, Roster!Is, Roster!Adders
          <6> QED BY <3>1, <5>1, <6>1, <6>2 DEF Settles
        <5>3. Settles(c, t)' BY <1>1, <2>2, <4>1, <4>4, <5>1, <5>2 DEF Settles, Pends, Roster!Is
        <5> QED BY <5>3
      <4> QED BY <2>7, <4>2, <4>3, <4>4
    <3> QED BY <3>2, <3>3
  <2> QED BY <2>a, <2>b, <2>c, <2>d, <2>e, <2>f, <2>g, <2>h, <2>i, <2>j, <2>k DEF Orderly
<1> QED BY <1>2, <1>3 DEF RosterIInv, Roster!TypeOK

\* A step that fails keeps the invariant.
LEMMA RosterFailKeeps ==
  ASSUME Roster!RosterAssumption, RosterIInv, NEW c \in Pair, Roster!Fail(c) PROVE RosterIInv'
<1>1. /\ rosterCall[c] # Nil /\ Roster!Spend("fail") /\ excused' = TRUE
      /\ UNCHANGED <<teamRow, team, slots, conversations, live, memory>>
  BY DEF Roster!Fail, Roster!At, Roster!rows, Roster!session
<1>2. rosterUsed' \in [Roster!Kinds -> Nat] BY <1>1, RosterSpent DEF RosterIInv, Roster!Kinds
<1>3. rosterCall' \in [Pair -> Roster!CallState \cup {Nil}] /\ addLock' \in Pair \cup {Nil}
  <2>1. CASE Roster!At(c, "delete")
    <3>1. PICK step \in {"drop", "write"} : rosterCall' = [rosterCall EXCEPT ![c].pc = step]
            /\ addLock' = addLock
      BY <2>1 DEF Roster!Fail
    <3> QED BY <1>1, <3>1, Goes DEF RosterIInv, Roster!TypeOK
  <2>2. CASE ~Roster!At(c, "delete")
    <3>1. Roster!Over(c) BY <2>2 DEF Roster!Fail
    <3> QED BY <3>1, RosterEnded DEF RosterIInv
  <2> QED BY <2>1, <2>2
<1> QED BY <1>1, <1>2, <1>3 DEF RosterIInv, Roster!TypeOK

\* A member put into the session in memory keeps the invariant.
LEMMA RememberKeeps ==
  ASSUME Roster!RosterAssumption, RosterIInv, NEW c \in Pair, Roster!Remember(c) PROVE RosterIInv'
<1> DEFINE s == rosterCall[c].slot
           n == rosterCall[c].name
           told == CASE rosterCall[c].kind = "add" -> live
                     [] rosterCall[c].kind = "spawn" -> ~rosterCall[c].stale
                     [] rosterCall[c].kind = "remove" -> live
                     [] rosterCall[c].kind = "rename" ->
                          memory[s] # Nil /\ \A t \in Roster!Slots \ {s} : memory[t] # n
<1>1. /\ rosterCall[c] # Nil /\ rosterCall[c].pc = "memory" /\ Roster!Over(c)
      /\ memory' = (IF told THEN [memory EXCEPT ![s] = n] ELSE memory)
      /\ UNCHANGED <<teamRow, team, slots, conversations, live, rosterUsed, excused>>
  BY DEF Roster!Remember, Roster!At, Roster!rows
<1>2. rosterCall[c] \in Roster!CallState /\ memory \in Roster!Roster
  BY <1>1 DEF RosterIInv, Roster!TypeOK
<1>3. /\ rosterCall' \in [Pair -> Roster!CallState \cup {Nil}] /\ addLock' \in Pair \cup {Nil}
      /\ rosterCall'[c] = Nil /\ \A d \in Pair \ {c} : rosterCall'[d] = rosterCall[d]
      /\ \A d \in Pair \ {c} : addLock = d => addLock' = d
  BY <1>1, RosterEnded DEF RosterIInv
<1>4. n \in Names \cup {Nil} BY <1>2 DEF Roster!CallState
<1>4a. /\ rosterCall[c].kind = "add" => told = live
       /\ rosterCall[c].kind = "spawn" => told = ~rosterCall[c].stale
       /\ rosterCall[c].kind = "remove" => told = live
       /\ rosterCall[c].kind = "rename" =>
            told = (memory[s] # Nil /\ \A t \in Roster!Slots \ {s} : memory[t] # n)
  OBVIOUS
<1> HIDE DEF told
<1>5. memory' \in Roster!Roster BY <1>1, <1>2, <1>4 DEF Roster!Roster
<1>6. Roster!TypeOK' BY <1>1, <1>3, <1>5 DEF RosterIInv, Roster!TypeOK
<1> SUFFICES ASSUME ~excused PROVE Orderly' BY <1>1, <1>6 DEF RosterIInv
<1>7. Orderly /\ Nil \notin Names /\ Nil \notin Roster!Slots BY DEF RosterIInv, Roster!RosterAssumption
<1>7a. /\ s \in Roster!Slots
       /\ \/ rosterCall[c].kind \in Roster!Adders /\ n \in Names
          \/ rosterCall[c].kind = "remove" /\ n = Nil
          \/ rosterCall[c].kind = "rename" /\ n \in Names
  BY <1>1, <1>7 DEF Orderly, RosterShape, RosterFormed, Roster!Adders
<1>7b. /\ \A t \in Roster!Slots \ {s} : memory'[t] = memory[t]
       /\ told => memory'[s] = n
       /\ ~told => memory'[s] = memory[s]
  BY <1>1, <1>2, <1>7a DEF Roster!Roster
<1>7c. team => teamRow[s] = n \/ (rosterCall[c].kind = "rename" /\ teamRow[s] = Nil)
  BY <1>1, <1>7 DEF Orderly, Written, Roster!At, Roster!Is
<1>7d. live => team BY <1>7 DEF Orderly, Gone
<1> HIDE DEF s, n
<1>8. RosterShape' BY <1>3, <1>7 DEF Orderly, RosterShape
<1>9. One' BY <1>1, <1>3, <1>7 DEF Orderly, One, Opens, OpenSteps, Roster!Is
<1>10. RosterKept' BY <1>1, <1>3, <1>7 DEF Orderly, RosterKept, Roster!At
<1>11. RosterBounded' /\ Gone' BY <1>1, <1>3, <1>7 DEF Orderly, RosterBounded, Gone
<1>12. Spawned' BY <1>1, <1>3, <1>7 DEF Orderly, Spawned, Roster!Is
<1>13. Alone' BY <1>3, <1>7 DEF Orderly, Alone, Roster!Is
<1>14. RosterApart' BY <1>3, <1>7 DEF Orderly, RosterApart, Roster!At, Roster!Is, Opens
<1>15. Ready' /\ Written' BY <1>1, <1>3, <1>7 DEF Orderly, Ready, Written, Roster!At, Roster!Is
<1>16. Distinct'
  <2> SUFFICES ASSUME NEW d \in Pair, Roster!Is(d, {"rename"})',
        NEW t \in Roster!Slots, t # rosterCall'[d].slot
               PROVE  teamRow[t] # rosterCall[d].name /\ (live => memory'[t] # rosterCall[d].name)
    BY <1>1, <1>3 DEF Distinct, Roster!Is
  <2>1. d # c /\ rosterCall'[d] = rosterCall[d] /\ Roster!Is(d, {"rename"}) BY <1>3 DEF Roster!Is
  <2>2. teamRow[t] # rosterCall[d].name /\ (live => memory[t] # rosterCall[d].name)
    BY <1>7, <2>1 DEF Orderly, Distinct
  <2>3. CASE t # s BY <1>7b, <2>2, <2>3
  <2>4. CASE t = s
    <3>1. rosterCall[c].kind # "rename"
      BY <1>1, <1>7, <2>1 DEF Orderly, RosterApart, Roster!At, Roster!Is
    <3>2. live => teamRow[t] = n BY <1>7c, <1>7d, <2>4, <3>1
    <3> QED BY <1>7b, <2>2, <2>4, <3>2
  <2> QED BY <2>3, <2>4
<1>17. Settled'
  <2> SUFFICES ASSUME live, NEW t \in Roster!Slots
               PROVE  memory'[t] = teamRow[t] \/ \E d \in Pair : Settles(d, t)'
    BY <1>1 DEF Settled
  <2>1. memory[t] = teamRow[t] \/ \E d \in Pair : Settles(d, t) BY <1>7 DEF Orderly, Settled
  <2>2. team BY <1>7d
  <2>3. CASE t # s
    <3>1. memory'[t] = memory[t] BY <1>7b, <2>3
    <3>2. \A d \in Pair : Settles(d, t) => d # c BY <2>3 DEF Settles, Pends, s
    <3>3. \A d \in Pair \ {c} : Settles(d, t) => Settles(d, t)'
      BY <1>1, <1>3, <3>1 DEF Settles, Pends, Roster!At, Roster!Is
    <3> QED BY <2>1, <3>1, <3>2, <3>3
  <2>4. CASE t = s /\ told
    <3>1. CASE teamRow[t] = n BY <1>7b, <2>4, <3>1
    <3>2. CASE teamRow[t] # n
      <4>1. rosterCall[c].kind = "rename" /\ teamRow[t] = Nil BY <1>7c, <2>2, <2>4, <3>2
      <4>2. memory[t] # Nil BY <1>4a, <2>4, <4>1 DEF s
      <4>3. PICK d \in Pair : Settles(d, t) BY <2>1, <4>1, <4>2
      <4>4. Pends(d, {"remove"}, t) BY <4>1, <4>2, <4>3 DEF Settles
      <4>5. d # c BY <4>1, <4>4 DEF Pends, Roster!Is
      <4>6. Settles(d, t)' BY <1>3, <4>4, <4>5 DEF Settles, Pends, Roster!At, Roster!Is
      <4> QED BY <4>6
    <3> QED BY <3>1, <3>2
  <2>5. CASE t = s /\ ~told
    <3>1. memory'[t] = memory[t] BY <1>7b, <2>5
    <3>2. \A d \in Pair \ {c} : Settles(d, t) => Settles(d, t)'
      BY <1>1, <1>3, <3>1 DEF Settles, Pends, Roster!At, Roster!Is
    <3>3. ASSUME Settles(c, t) PROVE memory[t] = teamRow[t]
      <4>1. rosterCall[c].kind = "rename" /\ memory[t] # Nil /\ teamRow[t] # Nil
        BY <1>4a, <2>5, <3>3 DEF Settles, Pends, Roster!Is, Roster!Adders
      <4>2. PICK u \in Roster!Slots \ {s} : memory[u] = n BY <1>4a, <2>5, <4>1 DEF s
      <4>3. FALSE BY <1>1, <1>7, <4>1, <4>2 DEF Orderly, Distinct, Roster!Is, s, n
      <4> QED BY <4>3
    <3> QED BY <2>1, <3>1, <3>2, <3>3
  <2> QED BY <2>3, <2>4, <2>5
<1> QED
  BY <1>8, <1>9, <1>10, <1>11, <1>12, <1>13, <1>14, <1>15, <1>16, <1>17 DEF Orderly

\* A member taken from the session in memory keeps the invariant.
LEMMA DropKeeps ==
  ASSUME Roster!RosterAssumption, RosterIInv, NEW c \in Pair, Roster!Drop(c) PROVE RosterIInv'
<1>1. /\ rosterCall[c] # Nil /\ rosterCall[c].pc = "drop" /\ team' = FALSE
           /\ teamRow' = Roster!Nobody /\ Roster!Over(c)
      /\ UNCHANGED <<slots, conversations, live, memory, rosterUsed, excused>>
  BY DEF Roster!Drop, Roster!At, Roster!session
<1>2. /\ rosterCall' \in [Pair -> Roster!CallState \cup {Nil}] /\ addLock' \in Pair \cup {Nil}
      /\ rosterCall'[c] = Nil /\ \A d \in Pair \ {c} : rosterCall'[d] = rosterCall[d]
  BY <1>1, RosterEnded DEF RosterIInv
<1>3. Roster!Nobody \in Roster!Roster /\ \A s \in Roster!Slots : Roster!Nobody[s] = Nil
  BY DEF Roster!Nobody, Roster!Roster
<1>4. Roster!Members(Roster!Nobody) = {} BY <1>3 DEF Roster!Members
<1>6. Roster!TypeOK' BY <1>1, <1>2, <1>3 DEF RosterIInv, Roster!TypeOK
<1> SUFFICES ASSUME ~excused PROVE Orderly' BY <1>1, <1>6 DEF RosterIInv
<1>7. Orderly /\ Nil \notin Names BY DEF RosterIInv, Roster!RosterAssumption
<1>7a. Opens(c) /\ Roster!Is(c, {"drop"})
  BY <1>1, <1>7 DEF Orderly, RosterShape, RosterFormed, Opens, OpenSteps, Roster!Is
<1>7b. ~live /\ \A d \in Pair : Opens(d) => d = c BY <1>7, <1>7a DEF Orderly, One
<1>8. RosterShape' BY <1>2, <1>7 DEF Orderly, RosterShape
<1>9. One' BY <1>2, <1>7b DEF One, Opens
<1>10. RosterKept'
  <2>1. conversations = {} BY <1>1, <1>7 DEF Orderly, RosterKept, Roster!At
  <2>2. \A d \in Pair : ~Roster!At(d, "write")' /\ ~Roster!At(d, "drop")'
    BY <1>2, <1>7b DEF Roster!At, Opens, OpenSteps
  <2> QED BY <1>1, <1>4, <2>1, <2>2 DEF RosterKept
<1>11. RosterBounded' /\ Gone' BY <1>1, <1>2, <1>3, <1>7, <1>7b DEF Orderly, RosterBounded, Gone
<1>12. Spawned' BY <1>1, <1>2, <1>7 DEF Orderly, Spawned, Roster!Is
<1>13. Alone' BY <1>2, <1>7 DEF Orderly, Alone, Roster!Is
<1>14. RosterApart' BY <1>2, <1>7 DEF Orderly, RosterApart, Roster!At, Roster!Is, Opens
<1>15. Ready' /\ Written' BY <1>1, <1>2, <1>7b DEF Ready, Written, Roster!At, Opens, OpenSteps
<1>16. Distinct'
  <2>1. \A d \in Pair : Roster!Is(d, {"rename"}) => rosterCall[d].name # Nil
    BY <1>7 DEF Orderly, RosterShape, RosterFormed, Roster!Is, Roster!Adders
  <2> QED BY <1>1, <1>2, <1>3, <1>7b, <2>1 DEF Distinct, Roster!Is
<1>17. Settled' BY <1>1, <1>7b DEF Settled
<1> QED
  BY <1>8, <1>9, <1>10, <1>11, <1>12, <1>13, <1>14, <1>15, <1>16, <1>17 DEF Orderly

\* A session put into the map of sessions keeps the invariant.
LEMMA InsertKeeps ==
  ASSUME Roster!RosterAssumption, RosterIInv, NEW c \in Pair, Roster!Insert(c) PROVE RosterIInv'
<1>1. /\ rosterCall[c] # Nil /\ rosterCall[c].pc = "insert" /\ live' = TRUE
           /\ memory' = rosterCall[c].seen /\ Roster!Over(c)
      /\ UNCHANGED <<teamRow, team, slots, conversations, rosterUsed, excused>>
  BY DEF Roster!Insert, Roster!At, Roster!rows
<1>2. /\ rosterCall' \in [Pair -> Roster!CallState \cup {Nil}] /\ addLock' \in Pair \cup {Nil}
      /\ rosterCall'[c] = Nil /\ \A d \in Pair \ {c} : rosterCall'[d] = rosterCall[d]
  BY <1>1, RosterEnded DEF RosterIInv
<1>6. Roster!TypeOK'
  <2>1. rosterCall[c] \in Roster!CallState BY <1>1 DEF RosterIInv, Roster!TypeOK
  <2>2. rosterCall[c].seen \in Roster!Roster BY <2>1 DEF Roster!CallState
  <2> QED BY <1>1, <1>2, <2>2 DEF RosterIInv, Roster!TypeOK
<1> SUFFICES ASSUME ~excused PROVE Orderly' BY <1>1, <1>6 DEF RosterIInv
<1>7. Orderly BY DEF RosterIInv
<1>7a. Opens(c) BY <1>1 DEF Opens, OpenSteps
<1>7b. team /\ rosterCall[c].seen = teamRow /\ \A d \in Pair : Opens(d) => d = c
  BY <1>7, <1>7a DEF Orderly, One
<1>8. RosterShape' BY <1>2, <1>7 DEF Orderly, RosterShape
<1>9. One' BY <1>2, <1>7b DEF One, Opens
<1>10. RosterKept' BY <1>1, <1>2, <1>7 DEF Orderly, RosterKept, Roster!At
<1>11. RosterBounded' /\ Gone' BY <1>1, <1>2, <1>7, <1>7b DEF Orderly, RosterBounded, Gone
<1>12. Spawned' BY <1>1 DEF Spawned
<1>13. Alone' BY <1>2, <1>7 DEF Orderly, Alone, Roster!Is
<1>14. RosterApart' BY <1>2, <1>7 DEF Orderly, RosterApart, Roster!At, Roster!Is, Opens
<1>15. Ready' /\ Written' BY <1>1, <1>2, <1>7 DEF Orderly, Ready, Written, Roster!At, Roster!Is
<1>16. Distinct' BY <1>1, <1>2, <1>7, <1>7b DEF Orderly, Distinct, Roster!Is
<1>17. Settled' BY <1>1, <1>7b DEF Settled
<1> QED
  BY <1>8, <1>9, <1>10, <1>11, <1>12, <1>13, <1>14, <1>15, <1>16, <1>17 DEF Orderly

\* A crash keeps the invariant.
LEMMA RosterCrashKeeps ==
  ASSUME Roster!RosterAssumption, RosterIInv, Roster!Crash PROVE RosterIInv'
<1>1. /\ Roster!Spend("crash")
      /\ excused' = (excused \/ \E c \in Pair : Roster!Is(c, Roster!Adders \cup {"remove", "drop"}))
      /\ rosterCall' = [c \in Pair |-> Nil] /\ addLock' = Nil
      /\ live' = FALSE /\ memory' = Roster!Nobody
      /\ UNCHANGED <<teamRow, team, slots, conversations>>
  BY DEF Roster!Crash, Roster!rows
<1>2. Roster!Nobody \in Roster!Roster BY DEF Roster!Nobody, Roster!Roster
<1>3. rosterUsed' \in [Roster!Kinds -> Nat] BY <1>1, RosterSpent DEF RosterIInv, Roster!Kinds
<1>4. rosterCall' \in [Pair -> Roster!CallState \cup {Nil}] /\ \A d \in Pair : rosterCall'[d] = Nil
  BY <1>1
<1>5. excused' \in BOOLEAN /\ (~excused' => ~excused) BY <1>1 DEF RosterIInv, Roster!TypeOK
<1>6. Roster!TypeOK' BY <1>1, <1>2, <1>3, <1>4, <1>5 DEF RosterIInv, Roster!TypeOK
<1> SUFFICES ASSUME ~excused, \A c \in Pair : ~Roster!Is(c, Roster!Adders \cup {"remove", "drop"})
  PROVE Orderly'
  BY <1>1, <1>5, <1>6 DEF RosterIInv
<1>7. Orderly BY DEF RosterIInv
<1>8. RosterShape' /\ One' /\ Spawned' /\ Alone' /\ RosterApart' /\ Ready' /\ Written' /\ Distinct'
  BY <1>4 DEF RosterShape, One, Spawned, Alone, RosterApart, Ready, Written, Distinct, Roster!At,
     Roster!Is, Opens
<1>9. RosterKept'
  <2>1. conversations = Roster!Members(teamRow)
    <3>1. CASE \A c \in Pair : ~Roster!At(c, "write") /\ ~Roster!At(c, "drop")
      BY <1>7, <3>1 DEF Orderly, RosterKept
    <3>2. ASSUME NEW c \in Pair, Roster!At(c, "write") PROVE conversations = Roster!Members(teamRow)
      <4>1. /\ rosterCall[c].kind = "rename" /\ rosterCall[c].slot \in Roster!Slots
                 /\ rosterCall[c].name \in Names
        BY <1>7, <3>2 DEF Orderly, RosterShape, RosterFormed, Roster!At, Roster!Is
      <4>2. teamRow[rosterCall[c].slot] # Nil
        BY <1>7, <3>2, <4>1 DEF Orderly, Ready, Roster!At, Roster!Is
      <4>3. conversations = Roster!Members([teamRow EXCEPT ![rosterCall[c].slot] = rosterCall[c].name])
        BY <1>7, <3>2 DEF Orderly, RosterKept
      <4>4. teamRow \in Roster!Roster /\ Nil \notin Names
        BY DEF RosterIInv, Roster!TypeOK, Roster!RosterAssumption
      <4>5. Roster!Members([teamRow EXCEPT ![rosterCall[c].slot] = rosterCall[c].name])
              = Roster!Members(teamRow)
        BY <4>1, <4>2, <4>4 DEF Roster!Members, Roster!Roster
      <4> QED BY <4>3, <4>5
    <3>3. ASSUME NEW c \in Pair PROVE ~Roster!At(c, "drop")
      BY <1>7 DEF Orderly, RosterShape, RosterFormed, Roster!At, Roster!Is
    <3> QED BY <3>1, <3>2, <3>3
  <2> QED BY <1>1, <1>4, <2>1 DEF RosterKept, Roster!At
<1>10. RosterBounded' /\ Gone' /\ Settled' BY <1>1, <1>4, <1>7 DEF Orderly, RosterBounded, Gone, Settled
<1> QED BY <1>8, <1>9, <1>10 DEF Orderly

\* The invariant holds in every state of the roster.
LEMMA RosterInductive == ASSUME Roster!RosterAssumption PROVE Roster!Spec => []RosterIInv
<1>1. Roster!Init => RosterIInv BY RosterInitial
<1>2. RosterIInv /\ [Roster!Next]_(Roster!vars) => RosterIInv'
  <2> SUFFICES ASSUME RosterIInv, [Roster!Next]_(Roster!vars) PROVE RosterIInv' OBVIOUS
  <2>1. CASE UNCHANGED Roster!vars
    BY <2>1 DEF Roster!vars, RosterIInv, Roster!TypeOK, Orderly, RosterShape, One, RosterKept,
       RosterBounded, Gone, Spawned, Alone,
       RosterApart, Ready, Written, Distinct, Settled, Settles, Pends, Opens, Roster!At, Roster!Is
  <2>2. CASE Roster!Stop BY <2>2, RosterStopKeeps
  <2>3. CASE Roster!Crash BY <2>3, RosterCrashKeeps
  <2>4. ASSUME NEW c \in Pair, Roster!Request(c) PROVE RosterIInv'
    <3>1. ASSUME NEW n \in Names, Roster!Add(c, n) \/ Roster!Spawn(c, n)
      PROVE RosterIInv' BY <3>1, AskKeeps
    <3>2. ASSUME NEW s \in Roster!Slots, Roster!Remove(c, s) PROVE RosterIInv' BY <3>2, RemoveKeeps
    <3>3. ASSUME NEW s \in Roster!Slots, NEW n \in Names, Roster!Rename(c, s, n)
      PROVE RosterIInv' BY <3>3, RenameKeeps
    <3>4. CASE Roster!RemoveTeam(c) BY <3>4, RemoveTeamKeeps
    <3>5. CASE Roster!Ensure(c) BY <3>5, EnsureKeeps
    <3> QED BY <2>4, <3>1, <3>2, <3>3, <3>4, <3>5 DEF Roster!Request
  <2>5. ASSUME NEW c \in Pair, Roster!Continue(c) PROVE RosterIInv'
    BY <2>5, RosterLockKeeps, CreateKeeps, RefuseKeeps, MemberDeleteKeeps, RosterWriteKeeps, RosterFailKeeps,
       RememberKeeps, DropKeeps, InsertKeeps DEF Roster!Continue
  <2> QED BY <2>1, <2>2, <2>3, <2>4, <2>5 DEF Roster!Next
<1> QED BY <1>1, <1>2, PTL DEF Roster!Spec

\* The roster by itself agrees.
LEMMA Agreed == ASSUME Roster!RosterAssumption
  PROVE Roster!Spec => [](Roster!TypeOK /\ Roster!RosterAgrees)
<1>1. ASSUME RosterIInv, \A c \in Pair : rosterCall[c] = Nil, ~excused
      PROVE  /\ conversations = Roster!Members(teamRow)
             /\ live => team /\ memory = teamRow
             /\ ~team => conversations = {} /\ teamRow = Roster!Nobody
  <2>1. Orderly BY <1>1 DEF RosterIInv
  <2>2. conversations = Roster!Members(teamRow) BY <1>1, <2>1 DEF Orderly, RosterKept, Roster!At
  <2>3. live => team BY <2>1 DEF Orderly, Gone
  <2>4. ASSUME live PROVE memory = teamRow
    <3>1. \A s \in Roster!Slots : memory[s] = teamRow[s]
      BY <1>1, <2>1, <2>4 DEF Orderly, Settled, Settles, Pends, Roster!At
    <3>2. memory \in Roster!Roster /\ teamRow \in Roster!Roster BY <1>1 DEF RosterIInv, Roster!TypeOK
    <3> QED BY <3>1, <3>2 DEF Roster!Roster
  <2>5. ASSUME ~team PROVE conversations = {} /\ teamRow = Roster!Nobody
    <3>1. teamRow = Roster!Nobody BY <2>1, <2>5 DEF Orderly, Gone
    <3>2. Roster!Members(Roster!Nobody) = {} BY DEF Roster!Members, Roster!Nobody
    <3> QED BY <2>2, <3>1, <3>2
  <2> QED BY <2>2, <2>3, <2>4, <2>5
<1>2. RosterIInv => Roster!RosterAgrees BY <1>1 DEF Roster!RosterAgrees
<1>3. RosterIInv => Roster!TypeOK BY DEF RosterIInv
<1> QED BY <1>2, <1>3, RosterInductive, PTL

\* The group implements the service.
LEMMA RosterImplemented == CatalogSpec => Roster!Spec
<1>1. CatalogInit => Roster!Init BY DEF CatalogInit
<1>2. [CatalogNext]_catalogVars => [Roster!Next]_(Roster!vars)
  BY DEF CatalogNext, catalogVars, rosterVars, Roster!vars
<1> QED BY <1>1, <1>2, PTL DEF CatalogSpec, Roster!Spec

\* For any number of members, requests and crashes: when nothing is under way
\* the row of the team, the conversations and the session agree on who is in
\* the team and how it is called, as far as no step was lost (service.rs,
\* spawn_support.rs).
THEOREM RosterStaysAgreed == ASSUME CatalogAssumption PROVE CatalogSpec => []RosterAgrees
<1>1. Roster!RosterAssumption BY DEF CatalogAssumption
<1>2. Roster!Spec => [](Roster!TypeOK /\ Roster!RosterAgrees)
  BY <1>1, Agreed
<1>3. Roster!RosterAgrees => RosterAgrees BY DEF RosterAgrees
<1> QED BY <1>2, <1>3, RosterImplemented, PTL

-----------------------------------------------------------------------------
(* The MCP servers: McpSync.                                               *)

\* What the agents are to get of a request, and what they have to have.
Wanted(r) ==
  IF r.kind = "sync" \/ (r.kind = "toggle" /\ r.new.enabled) THEN r.new.transport ELSE Nil
CopyFits(a, copy, t) == copy = Mcp!Given(a, t) \/ Mcp!Looks(a, copy, t)
CopyFollows(a, n) ==
  /\ \A i \in Mcp!Enabled(n) : CopyFits(a, config[a][n], mcpRows[i].transport)
  /\ Mcp!Enabled(n) = {} => CopyFits(a, config[a][n], Nil)

\* The kinds of requests, their steps and what they carry.
McpFormed(r) ==
  /\ r.names = (IF r.old = Nil THEN {} ELSE {r.old.name})
                 \cup (IF r.new = Nil THEN {} ELSE {r.new.name})
  /\ r.pc \in {"write", "lock"} => r.agent = 1
  /\ \/ /\ r.kind = "toggle" /\ r.id \in Mcp!Ids /\ r.old \in Mcp!Row
        /\ r.new = [r.old EXCEPT !.enabled = ~@]
     \/ /\ r.kind = "delete" /\ r.id \in Mcp!Ids /\ r.old \in Mcp!Row /\ r.new = Nil
        /\ r.pc # "write" => r.old.enabled
     \/ /\ r.kind = "edit" /\ r.id \in Mcp!Ids /\ r.old \in Mcp!Row /\ r.new \in Mcp!Row
             /\ r.pc = "write"
        /\ r.clean => ~r.old.enabled /\ ~r.new.enabled
     \/ /\ r.kind \in {"add", "import"} /\ r.pc = "write" /\ r.new \in Mcp!Row
        /\ \/ r.id = Nil /\ r.old = Nil /\ ~r.new.enabled
           \/ /\ r.id \in Mcp!Ids /\ r.old \in Mcp!Row /\ r.old.name = r.new.name
              /\ r.clean => ~r.old.enabled /\ ~r.new.enabled
     \/ /\ r.kind = "sync" /\ r.id \in Mcp!Ids /\ r.old \in Mcp!Row /\ r.new = r.old /\ r.pc # "write"
        /\ r.clean => r.old.enabled
     \/ /\ r.kind = "remove" /\ r.id \in Mcp!Ids /\ r.old \in Mcp!Row /\ r.new = Nil /\ r.pc # "write"
        /\ r.clean => ~r.old.enabled
McpShape == \A c \in Pair : mcpCall[c] # Nil => McpFormed(mcpCall[c])

\* A name has one row, and an id that was not handed out has none.
Unique ==
  \A i, j \in Mcp!Ids :
    mcpRows[i] # Nil /\ mcpRows[j] # Nil /\ mcpRows[i].name = mcpRows[j].name => i = j
McpBounded ==
  /\ \A i \in Mcp!Ids : i > added => mcpRows[i] = Nil
  /\ \A c \in Pair : mcpCall[c] # Nil /\ mcpCall[c].id \in Mcp!Ids => mcpCall[c].id <= added

\* Who has to do with the same server as another is not clean, and its names
\* are in doubt.
Meet(r, q) == r.names \cap q.names # {} \/ (r.id = q.id /\ r.id # Nil)
McpApart ==
  \A c, d \in Pair :
    c # d /\ mcpCall[c] # Nil /\ mcpCall[d] # Nil /\ Meet(mcpCall[c], mcpCall[d])
      => ~mcpCall[c].clean /\ ~mcpCall[d].clean
InDoubt(n) == \A a \in Mcp!Agents : <<a, n>> \in doubt
Doubtful ==
  \A c \in Pair : mcpCall[c] # Nil /\ ~mcpCall[c].clean => \A n \in mcpCall[c].names : InDoubt(n)

\* What the row is called now that a request is about.
Called ==
  \A c \in Pair : mcpCall[c] # Nil /\ mcpCall[c].id \in Mcp!Ids /\ mcpRows[mcpCall[c].id] # Nil =>
    mcpRows[mcpCall[c].id].name \in mcpCall[c].names \/ InDoubt(mcpRows[mcpCall[c].id].name)

\* A clean request knows the row, and that its names are no other row's.
CleanKnows ==
  \A c \in Pair : mcpCall[c] # Nil /\ mcpCall[c].clean =>
    /\ \A i \in Mcp!Ids : mcpRows[i] # Nil /\ mcpRows[i].name \in mcpCall[c].names => i = mcpCall[c].id
    /\ mcpCall[c].id \in Mcp!Ids =>
         mcpRows[mcpCall[c].id] = IF mcpCall[c].pc = "write" THEN mcpCall[c].old
                            ELSE IF mcpCall[c].kind = "remove" THEN mcpCall[c].old ELSE mcpCall[c].new

\* Who holds the lock has the configuration as it is, and what it does to it is
\* as it should be, or in doubt.
Holds ==
  \A c \in Pair : mcpCall[c] # Nil /\ mcpCall[c].pc \in {"look", "put"} =>
    /\ syncLock = c /\ mcpCall[c].target \in Servers
    /\ mcpCall[c].pc = "put" => mcpCall[c].seen = config[mcpCall[c].agent]
    /\ IF mcpCall[c].clean
       THEN mcpCall[c].names = {mcpCall[c].target} /\ mcpCall[c].copy = Wanted(mcpCall[c])
       ELSE InDoubt(mcpCall[c].target)

\* A clean request has yet to come to this agent.
Comes(c, a, n) ==
  /\ mcpCall[c] # Nil /\ mcpCall[c].clean /\ mcpCall[c].pc # "write"
  /\ n \in mcpCall[c].names /\ mcpCall[c].agent <= a
Copied ==
  \A a \in Mcp!Agents, n \in Servers :
    <<a, n>> \in doubt \/ CopyFollows(a, n) \/ \E c \in Pair : Comes(c, a, n)

McpIInv ==
  /\ Mcp!TypeOK /\ McpShape /\ Unique /\ McpBounded /\ McpApart /\ Doubtful /\ Called /\ CleanKnows
       /\ Holds /\ Copied


\* At the start there are no rows and no copies.
LEMMA McpInitial == ASSUME Mcp!McpAssumption, Mcp!Init PROVE McpIInv
<1>1. /\ \A i \in Mcp!Ids : mcpRows[i] = Nil
      /\ \A a \in Mcp!Agents, n \in Servers : config[a][n] = Nil
      /\ \A c \in Pair : mcpCall[c] = Nil
  BY DEF Mcp!Init, Mcp!Blank
<1>2. Mcp!TypeOK BY DEF Mcp!Init, Mcp!TypeOK, Mcp!Config, Mcp!Blank, Mcp!McpAssumption, Mcp!Kinds
<1>3. McpShape /\ Unique /\ McpApart /\ Doubtful /\ Called /\ CleanKnows /\ Holds
  BY <1>1 DEF McpShape, Unique, McpApart, Doubtful, Called, CleanKnows, Holds
<1>4. McpBounded BY <1>1 DEF McpBounded
<1>5. Copied BY <1>1 DEF Copied, CopyFollows, CopyFits, Mcp!Given, Mcp!Enabled, Mcp!Named
<1> QED BY <1>2, <1>3, <1>4, <1>5 DEF McpIInv

\* The counts of requests stay counts.
LEMMA McpSpent ==
  ASSUME Mcp!TypeOK, NEW kind \in Mcp!Kinds, Mcp!Spend(kind) PROVE mcpUsed' \in [Mcp!Kinds -> Nat]
BY DEF Mcp!TypeOK, Mcp!Spend

\* The request that has come is as it is asked for, and not clean with its names
\* in doubt; who meets it is clean no more, and the others stay as they are.
Arrived(c, kind, i, old, new, step, odd) ==
  /\ mcpUsed' \in [Mcp!Kinds -> Nat] /\ mcpCall' \in [Pair -> Mcp!CallState \cup {Nil}]
  /\ doubt \subseteq doubt' /\ doubt' \subseteq Mcp!Agents \X Servers
  /\ UNCHANGED <<mcpRows, added, config, syncLock>>
  /\ mcpCall[c] = Nil /\ mcpCall'[c] # Nil
  /\ mcpCall'[c].kind = kind /\ mcpCall'[c].id = i
  /\ mcpCall'[c].old = old /\ mcpCall'[c].new = new
  /\ mcpCall'[c].pc = step /\ mcpCall'[c].agent = 1
  /\ mcpCall'[c].names = (IF old = Nil THEN {} ELSE {old.name})
                         \cup (IF new = Nil THEN {} ELSE {new.name})
  /\ mcpCall'[c].clean => ~odd
  /\ ~mcpCall'[c].clean => \A n \in mcpCall'[c].names : InDoubt(n)'
Met(c) ==
  \A d \in Pair \ {c} :
    /\ mcpCall'[d] = Nil <=> mcpCall[d] = Nil
    /\ mcpCall[d] # Nil =>
         /\ mcpCall'[d].kind = mcpCall[d].kind /\ mcpCall'[d].id = mcpCall[d].id
         /\ mcpCall'[d].names = mcpCall[d].names
         /\ mcpCall'[d].old = mcpCall[d].old /\ mcpCall'[d].new = mcpCall[d].new
         /\ mcpCall'[d].pc = mcpCall[d].pc /\ mcpCall'[d].target = mcpCall[d].target
         /\ mcpCall'[d].copy = mcpCall[d].copy /\ mcpCall'[d].agent = mcpCall[d].agent
         /\ mcpCall'[d].seen = mcpCall[d].seen
         /\ mcpCall'[d].clean => mcpCall[d].clean
         /\ Meet(mcpCall'[c], mcpCall'[d]) =>
              /\ ~mcpCall'[c].clean /\ ~mcpCall'[d].clean
              /\ \A n \in mcpCall'[d].names : InDoubt(n)'
         /\ ~Meet(mcpCall'[c], mcpCall'[d]) => mcpCall'[d] = mcpCall[d]

\* A request begins: it is well formed, and who meets it is clean no more.
LEMMA McpBegun ==
  ASSUME Mcp!McpAssumption, Mcp!TypeOK, NEW c \in Pair, NEW kind \in Mcp!Kinds,
           NEW i \in Mcp!Ids \cup {Nil},
         NEW old \in Mcp!Row \cup {Nil}, NEW new \in Mcp!Row \cup {Nil}, NEW step \in {"write", "lock"},
         NEW odd \in BOOLEAN, Mcp!Begin(c, kind, i, old, new, step, odd)
  PROVE  Arrived(c, kind, i, old, new, step, odd) /\ Met(c)
<1> DEFINE names == {r.name : r \in {old, new} \ {Nil}}
           meets(d) == /\ mcpCall[d] # Nil
                       /\ mcpCall[d].names \cap names # {} \/ (mcpCall[d].id = i /\ i # Nil)
           others == {d \in Pair : meets(d)}
           theirs == UNION {mcpCall[d].names : d \in others}
           mine == IF odd \/ others # {} THEN names ELSE {}
           doubtful == (UNION {mcpCall[d].names : d \in others}) \cup
                       (IF odd \/ others # {} THEN names ELSE {})
           record == [kind |-> kind, id |-> i, names |-> names, old |-> old, new |-> new,
                      pc |-> step, target |-> Nil, copy |-> Nil, agent |-> 1, seen |-> Mcp!Blank,
                      clean |-> ~odd /\ others = {}]
<1>1. /\ mcpCall[c] = Nil /\ Mcp!Spend(kind)
      /\ mcpCall' = [d \in Pair |-> IF d = c THEN record
                                  ELSE IF meets(d) THEN [mcpCall[d] EXCEPT !.clean = FALSE]
                                  ELSE mcpCall[d]]
      /\ doubt' = doubt \cup (Mcp!Agents \X doubtful)
      /\ UNCHANGED <<mcpRows, added, config, syncLock>>
  <2>1. mcpCall[c] = Nil /\ Mcp!Spend(kind) /\ UNCHANGED <<mcpRows, added, config, syncLock>>
    BY DEF Mcp!Begin, Mcp!table
  <2>2. doubt' = doubt \cup (Mcp!Agents \X doubtful) BY DEF Mcp!Begin
  <2>3. mcpCall' = [d \in Pair |-> IF d = c THEN record
                                  ELSE IF meets(d) THEN [mcpCall[d] EXCEPT !.clean = FALSE]
                                  ELSE mcpCall[d]]
    BY DEF Mcp!Begin
  <2> QED BY <2>1, <2>2, <2>3
<1>1a. doubtful = theirs \cup mine OBVIOUS
<1> HIDE DEF doubtful
<1>2. mcpUsed' \in [Mcp!Kinds -> Nat] BY <1>1, McpSpent
<1>3. /\ names = (IF old = Nil THEN {} ELSE {old.name}) \cup (IF new = Nil THEN {} ELSE {new.name})
      /\ names \subseteq Servers
  BY DEF Mcp!Row, Mcp!McpAssumption
<1>4. /\ record \in Mcp!CallState /\ record.kind = kind /\ record.id = i /\ record.old = old
      /\ record.new = new /\ record.pc = step /\ record.agent = 1 /\ record.names = names
      /\ record.clean = (~odd /\ others = {})
  <2>1. record.clean = (~odd /\ others = {}) OBVIOUS
  <2>2. Mcp!Blank \in Mcp!Config /\ 1 \in Mcp!Agents
    BY DEF Mcp!Blank, Mcp!Config, Mcp!Agents, Mcp!McpAssumption
  <2> HIDE DEF names, others, meets
  <2>3. record \in Mcp!CallState BY <1>3, <2>2 DEF Mcp!CallState
  <2> QED BY <2>1, <2>3
<1>5. record # Nil BY <1>4 DEF Mcp!McpAssumption
<1>6. mcpCall'[c] = record BY <1>1
<1>7. doubtful \subseteq Servers
  <2>1. \A d \in others : mcpCall[d].names \subseteq Servers
    <3> SUFFICES ASSUME NEW d \in others PROVE mcpCall[d].names \subseteq Servers OBVIOUS
    <3>1. mcpCall[d] \in Mcp!CallState BY DEF Mcp!TypeOK
    <3> QED BY <3>1 DEF Mcp!CallState
  <2> HIDE DEF others, names
  <2>2. theirs \subseteq Servers BY <2>1
  <2>3. mine \subseteq Servers BY <1>3
  <2> QED BY <1>1a, <2>2, <2>3
<1>8. \A n \in doubtful : InDoubt(n)' BY <1>1 DEF InDoubt
<1>9. \A d \in Pair : mcpCall[d] \in Mcp!CallState \cup {Nil} BY DEF Mcp!TypeOK
<1>10. ASSUME NEW d \in Pair \ {c}, mcpCall[d] # Nil
       PROVE  /\ meets(d) => mcpCall'[d] = [mcpCall[d] EXCEPT !.clean = FALSE]
              /\ ~meets(d) => mcpCall'[d] = mcpCall[d]
              /\ meets(d) <=> Meet(record, mcpCall[d])
   <2>1. meets(d) <=> Meet(record, mcpCall[d])
     BY <1>4, <1>10 DEF Meet
   <2> QED BY <1>1, <2>1
<1>11. /\ doubt \subseteq doubt' /\ doubt' \subseteq Mcp!Agents \X Servers BY <1>1, <1>7 DEF Mcp!TypeOK
<1>12. ~record.clean => \A n \in names : InDoubt(n)'
  <2>1. ~record.clean => odd \/ others # {} BY <1>4
  <2>2. ~record.clean => mine = names BY <2>1
  <2>3. mine \subseteq doubtful BY <1>1a
  <2> HIDE DEF names, mine, doubtful, record
  <2> QED BY <1>8, <2>2, <2>3
<1>13. ASSUME NEW d \in Pair \ {c}, mcpCall[d] # Nil
       PROVE  /\ mcpCall'[d] \in Mcp!CallState
              /\ mcpCall'[d].kind = mcpCall[d].kind /\ mcpCall'[d].id = mcpCall[d].id
              /\ mcpCall'[d].names = mcpCall[d].names
              /\ mcpCall'[d].old = mcpCall[d].old /\ mcpCall'[d].new = mcpCall[d].new
              /\ mcpCall'[d].pc = mcpCall[d].pc /\ mcpCall'[d].target = mcpCall[d].target
              /\ mcpCall'[d].copy = mcpCall[d].copy /\ mcpCall'[d].agent = mcpCall[d].agent
              /\ mcpCall'[d].seen = mcpCall[d].seen
              /\ mcpCall'[d].clean => mcpCall[d].clean
              /\ meets(d) => ~mcpCall'[d].clean
  <2>1. mcpCall[d] \in Mcp!CallState BY <1>9, <1>13
  <2>2. CASE meets(d)
    <3>1. mcpCall'[d] = [mcpCall[d] EXCEPT !.clean = FALSE] BY <1>10, <1>13, <2>2
    <3> HIDE DEF meets, names
    <3>2. mcpCall'[d] \in Mcp!CallState BY <2>1, <3>1 DEF Mcp!CallState
    <3> QED BY <2>1, <2>2, <3>1, <3>2 DEF Mcp!CallState
  <2>3. CASE ~meets(d)
    <3>1. mcpCall'[d] = mcpCall[d] BY <1>10, <1>13, <2>3
    <3> QED BY <2>1, <2>3, <3>1
  <2> QED BY <2>2, <2>3
<1>14. ASSUME NEW d \in Pair \ {c}, mcpCall[d] # Nil, meets(d)
       PROVE  ~record.clean /\ \A n \in mcpCall[d].names : InDoubt(n)'
  <2>1. d \in others BY <1>14
  <2>2. ~record.clean BY <1>4, <2>1
  <2>3. mcpCall[d].names \subseteq theirs BY <2>1
  <2> QED BY <1>1a, <1>8, <2>2, <2>3
<1>15. \A d \in Pair \ {c} : mcpCall[d] = Nil => mcpCall'[d] = Nil BY <1>1
<1> HIDE DEF meets, names, others, mine, theirs, doubtful, record
<1>16. \A d \in Pair \ {c} : mcpCall'[d] = Nil <=> mcpCall[d] = Nil
  BY <1>13, <1>15 DEF Mcp!McpAssumption
<1>17. mcpCall' \in [Pair -> Mcp!CallState \cup {Nil}]
  <2>1. DOMAIN mcpCall' = Pair /\ mcpCall' = [d \in Pair |-> mcpCall'[d]] BY <1>1
  <2> QED BY <1>4, <1>6, <1>13, <1>15, <2>1
<1>18. ASSUME NEW d \in Pair \ {c}, mcpCall[d] # Nil
       PROVE  /\ Meet(mcpCall'[c], mcpCall'[d]) =>
                   /\ ~mcpCall'[c].clean /\ ~mcpCall'[d].clean
                   /\ \A n \in mcpCall'[d].names : InDoubt(n)'
              /\ ~Meet(mcpCall'[c], mcpCall'[d]) => mcpCall'[d] = mcpCall[d]
  <2>1. mcpCall'[d].names = mcpCall[d].names /\ mcpCall'[d].id = mcpCall[d].id BY <1>13, <1>18
  <2>2. Meet(mcpCall'[c], mcpCall'[d]) <=> Meet(record, mcpCall[d]) BY <1>6, <2>1 DEF Meet
  <2>3. Meet(mcpCall'[c], mcpCall'[d]) <=> meets(d) BY <1>10, <1>18, <2>2
  <2> QED BY <1>6, <1>10, <1>13, <1>14, <1>18, <2>3
<1>19. Arrived(c, kind, i, old, new, step, odd)
  BY <1>1, <1>2, <1>3, <1>4, <1>5, <1>6, <1>11, <1>12, <1>17 DEF Arrived
<1>20. Met(c) BY <1>13, <1>16, <1>18 DEF Met
<1> QED BY <1>19, <1>20

\* A request that begins, whatever it asks, keeps the invariant.
LEMMA BeginKeeps ==
  ASSUME Mcp!McpAssumption, McpIInv, NEW c \in Pair, NEW kind \in Mcp!Kinds,
           NEW i \in Mcp!Ids \cup {Nil},
         NEW old \in Mcp!Row \cup {Nil}, NEW new \in Mcp!Row \cup {Nil}, NEW step \in {"write", "lock"},
         NEW odd \in BOOLEAN, Arrived(c, kind, i, old, new, step, odd), Met(c),
         i \in Mcp!Ids => mcpRows[i] # Nil /\ old = mcpRows[i],
         old # Nil => \A j \in Mcp!Ids : mcpRows[j] # Nil /\ mcpRows[j].name = old.name => j = i,
         new # Nil => \A j \in Mcp!Ids : mcpRows[j] # Nil /\ mcpRows[j].name = new.name => j = i,
         step = "lock" => kind = "remove" \/ (kind = "sync" /\ new = old),
         McpFormed(mcpCall'[c])
  PROVE  McpIInv'
<1> USE DEF McpIInv
<1>1. /\ mcpUsed' \in [Mcp!Kinds -> Nat] /\ mcpCall' \in [Pair -> Mcp!CallState \cup {Nil}]
      /\ doubt \subseteq doubt' /\ doubt' \subseteq Mcp!Agents \X Servers
      /\ UNCHANGED <<mcpRows, added, config, syncLock>>
      /\ mcpCall[c] = Nil /\ mcpCall'[c] # Nil
      /\ mcpCall'[c].kind = kind /\ mcpCall'[c].id = i
      /\ mcpCall'[c].old = old /\ mcpCall'[c].new = new
      /\ mcpCall'[c].pc = step /\ mcpCall'[c].agent = 1
      /\ mcpCall'[c].names = (IF old = Nil THEN {} ELSE {old.name})
                             \cup (IF new = Nil THEN {} ELSE {new.name})
      /\ mcpCall'[c].clean => ~odd
      /\ ~mcpCall'[c].clean => \A n \in mcpCall'[c].names : InDoubt(n)'
  BY DEF Arrived
<1>2. \A d \in Pair \ {c} :
        /\ mcpCall'[d] = Nil <=> mcpCall[d] = Nil
        /\ mcpCall[d] # Nil =>
             /\ mcpCall'[d].kind = mcpCall[d].kind /\ mcpCall'[d].id = mcpCall[d].id
             /\ mcpCall'[d].names = mcpCall[d].names
             /\ mcpCall'[d].old = mcpCall[d].old /\ mcpCall'[d].new = mcpCall[d].new
             /\ mcpCall'[d].pc = mcpCall[d].pc /\ mcpCall'[d].target = mcpCall[d].target
             /\ mcpCall'[d].copy = mcpCall[d].copy /\ mcpCall'[d].agent = mcpCall[d].agent
             /\ mcpCall'[d].seen = mcpCall[d].seen
             /\ mcpCall'[d].clean => mcpCall[d].clean
             /\ Meet(mcpCall'[c], mcpCall'[d]) =>
                  /\ ~mcpCall'[c].clean /\ ~mcpCall'[d].clean
                  /\ \A n \in mcpCall'[d].names : InDoubt(n)'
             /\ ~Meet(mcpCall'[c], mcpCall'[d]) => mcpCall'[d] = mcpCall[d]
  BY DEF Met
<1> DEFINE Stays(n) == \A a \in Mcp!Agents : <<a, n>> \in doubt'
<1>3. /\ \A n : InDoubt(n) => Stays(n)
      /\ \A n : InDoubt(n)' <=> Stays(n)
  BY <1>1 DEF InDoubt, Mcp!Agents
<1> HIDE DEF Stays
<1>4. Mcp!TypeOK' BY <1>1 DEF Mcp!TypeOK
<1>5. McpShape'
  <2>1. ASSUME NEW d \in Pair \ {c}, mcpCall'[d] # Nil PROVE McpFormed(mcpCall'[d])
    <3>1. mcpCall[d] # Nil /\ McpFormed(mcpCall[d]) BY <1>2, <2>1 DEF McpShape
    <3>2. /\ mcpCall'[d].kind = mcpCall[d].kind /\ mcpCall'[d].id = mcpCall[d].id
          /\ mcpCall'[d].names = mcpCall[d].names
          /\ mcpCall'[d].old = mcpCall[d].old /\ mcpCall'[d].new = mcpCall[d].new
          /\ mcpCall'[d].pc = mcpCall[d].pc /\ mcpCall'[d].agent = mcpCall[d].agent
          /\ mcpCall'[d].clean => mcpCall[d].clean
      BY <1>2, <3>1
    <3> QED BY <3>1, <3>2 DEF McpFormed
  <2> QED BY <2>1 DEF McpShape
<1>6. Unique' BY <1>1 DEF Unique
<1>7. McpBounded'
  <2>1. i \in Mcp!Ids => i <= added BY DEF McpBounded, Mcp!Ids, Mcp!TypeOK, Mcp!McpAssumption
  <2> QED BY <1>1, <1>2, <2>1 DEF McpBounded
<1>8. McpApart'
  <2> SUFFICES ASSUME NEW d \in Pair, NEW e \in Pair, d # e, mcpCall'[d] # Nil, mcpCall'[e] # Nil,
                      Meet(mcpCall'[d], mcpCall'[e])
               PROVE  ~mcpCall'[d].clean /\ ~mcpCall'[e].clean
    BY DEF McpApart
  <2>1. CASE d = c BY <1>2, <2>1
  <2>2. CASE e = c
    <3>1. Meet(mcpCall'[c], mcpCall'[d]) BY <2>2 DEF Meet
    <3> QED BY <1>2, <2>2, <3>1
  <2>3. CASE d # c /\ e # c
    <3>1. Meet(mcpCall[d], mcpCall[e]) BY <1>2, <2>3 DEF Meet
    <3>2. ~mcpCall[d].clean /\ ~mcpCall[e].clean BY <1>2, <2>3, <3>1 DEF McpApart
    <3> QED BY <1>2, <2>3, <3>2
  <2> QED BY <2>1, <2>2, <2>3
<1>9. Doubtful'
  <2> SUFFICES ASSUME NEW d \in Pair, mcpCall'[d] # Nil, ~mcpCall'[d].clean, NEW n \in mcpCall'[d].names
               PROVE  InDoubt(n)'
    BY DEF Doubtful
  <2>1. CASE d = c BY <1>1, <2>1
  <2>2. CASE d # c /\ Meet(mcpCall'[c], mcpCall'[d]) BY <1>2, <2>2
  <2>3. CASE d # c /\ ~Meet(mcpCall'[c], mcpCall'[d]) BY <1>2, <1>3, <2>3 DEF Doubtful
  <2> QED BY <2>1, <2>2, <2>3
<1>10. Called'
  <2> SUFFICES ASSUME NEW d \in Pair, mcpCall'[d] # Nil, mcpCall'[d].id \in Mcp!Ids, mcpRows[mcpCall'[d].id] # Nil
               PROVE  \/ mcpRows[mcpCall'[d].id].name \in mcpCall'[d].names
                      \/ Stays(mcpRows[mcpCall'[d].id].name)
    BY <1>1 DEF Called, InDoubt, Mcp!Agents, Stays
  <2>1. CASE d = c BY <1>1, <2>1
  <2>2. CASE d # c BY <1>2, <1>3, <2>2 DEF Called
  <2> QED BY <2>1, <2>2
<1>11. CleanKnows'
  <2> SUFFICES ASSUME NEW d \in Pair, mcpCall'[d] # Nil, mcpCall'[d].clean
               PROVE  /\ \A j \in Mcp!Ids : mcpRows[j] # Nil /\ mcpRows[j].name \in mcpCall'[d].names
                           => j = mcpCall'[d].id
                      /\ mcpCall'[d].id \in Mcp!Ids =>
                           mcpRows[mcpCall'[d].id] =
                             IF mcpCall'[d].pc = "write" THEN mcpCall'[d].old
                             ELSE IF mcpCall'[d].kind
                               = "remove" THEN mcpCall'[d].old ELSE mcpCall'[d].new
    BY <1>1 DEF CleanKnows
  <2>1. CASE d = c BY <1>1, <2>1
  <2>2. CASE d # c BY <1>2, <2>2 DEF CleanKnows
  <2> QED BY <2>1, <2>2
<1>12. Holds'
  <2> SUFFICES ASSUME NEW d \in Pair, mcpCall'[d] # Nil, mcpCall'[d].pc \in {"look", "put"}
               PROVE  /\ syncLock = d /\ mcpCall'[d].target \in Servers
                      /\ mcpCall'[d].pc = "put" => mcpCall'[d].seen = config[mcpCall'[d].agent]
                      /\ IF mcpCall'[d].clean
                         THEN mcpCall'[d].names = {mcpCall'[d].target}
                           /\ mcpCall'[d].copy = Wanted(mcpCall'[d])
                         ELSE Stays(mcpCall'[d].target)
    BY <1>1 DEF Holds, InDoubt, Mcp!Agents, Stays
  <2>1. d # c /\ mcpCall[d] # Nil /\ mcpCall[d].pc \in {"look", "put"} BY <1>1, <1>2
  <2>2. /\ syncLock = d /\ mcpCall[d].target \in Servers
        /\ mcpCall[d].pc = "put" => mcpCall[d].seen = config[mcpCall[d].agent]
        /\ IF mcpCall[d].clean
           THEN mcpCall[d].names = {mcpCall[d].target} /\ mcpCall[d].copy = Wanted(mcpCall[d])
           ELSE InDoubt(mcpCall[d].target)
    BY <2>1 DEF Holds
  <2>3. Wanted(mcpCall'[d]) = Wanted(mcpCall[d]) BY <1>2, <2>1 DEF Wanted
  <2>4. CASE Meet(mcpCall'[c], mcpCall'[d])
    <3>1. ~mcpCall'[d].clean /\ \A n \in mcpCall'[d].names : InDoubt(n)' BY <1>2, <2>1, <2>4
    <3> QED BY <1>2, <1>3, <2>1, <2>2, <3>1
  <2>5. CASE ~Meet(mcpCall'[c], mcpCall'[d]) BY <1>2, <1>3, <2>1, <2>2, <2>5
  <2> QED BY <2>4, <2>5
<1>13. Copied'
  <2> SUFFICES ASSUME NEW a \in Mcp!Agents, NEW n \in Servers
               PROVE  <<a, n>> \in doubt' \/ CopyFollows(a, n)' \/ \E d \in Pair : Comes(d, a, n)'
    BY DEF Copied, Mcp!Agents
  <2>1. <<a, n>> \in doubt \/ CopyFollows(a, n) \/ \E d \in Pair : Comes(d, a, n) BY DEF Copied
  <2>2. CopyFollows(a, n) => CopyFollows(a, n)' BY <1>1 DEF CopyFollows, Mcp!Enabled, Mcp!Named
  <2>3. ASSUME NEW d \in Pair, Comes(d, a, n) PROVE <<a, n>> \in doubt' \/ Comes(d, a, n)'
    <3>1. d # c /\ mcpCall[d] # Nil BY <1>1, <2>3 DEF Comes
    <3>2. CASE Meet(mcpCall'[c], mcpCall'[d])
      <4>1. InDoubt(n)' BY <1>2, <2>3, <3>1, <3>2 DEF Comes
      <4> QED BY <4>1 DEF InDoubt, Mcp!Agents
    <3>3. CASE ~Meet(mcpCall'[c], mcpCall'[d])
      <4>1. mcpCall'[d] = mcpCall[d] BY <1>2, <3>1, <3>3
      <4> QED BY <2>3, <4>1 DEF Comes
    <3> QED BY <3>2, <3>3
  <2> QED BY <1>1, <2>1, <2>2, <2>3
<1> QED BY <1>4, <1>5, <1>6, <1>7, <1>8, <1>9, <1>10, <1>11, <1>12, <1>13

\* Every kind of request keeps the invariant as it begins.
LEMMA RequestKeeps ==
  ASSUME Mcp!McpAssumption, McpIInv, NEW c \in Pair, Mcp!Request(c) PROVE McpIInv'
<1>0. /\ \A i \in Mcp!Ids : mcpRows[i] # Nil => mcpRows[i] \in Mcp!Row
      /\ \A r \in Mcp!Row : r # Nil /\ r.name \in Servers /\ r.enabled \in BOOLEAN
           /\ r.transport \in Transports
      /\ Nil \notin Mcp!Ids /\ Mcp!TypeOK
  BY DEF McpIInv, Mcp!TypeOK, Mcp!Row, Mcp!McpAssumption
<1>1. ASSUME NEW i \in Mcp!Ids, mcpRows[i] # Nil,
               NEW j \in Mcp!Ids, mcpRows[j] # Nil, mcpRows[j].name = mcpRows[i].name
      PROVE  j = i
  BY <1>1 DEF McpIInv, Unique
<1>2. ASSUME NEW i \in Mcp!Ids, Mcp!Toggle(c, i) PROVE McpIInv'
  <2> DEFINE old == mcpRows[i]
             new == [mcpRows[i] EXCEPT !.enabled = ~@]
             no == FALSE
  <2>0. no \in BOOLEAN OBVIOUS
  <2>1. mcpRows[i] # Nil /\ Mcp!Begin(c, "toggle", i, old, new, "write", no) BY <1>2 DEF Mcp!Toggle
  <2>2. old \in Mcp!Row /\ new \in Mcp!Row /\ new.name = old.name BY <1>0, <2>1 DEF Mcp!Row
  <2>2a. new = [old EXCEPT !.enabled = ~@] OBVIOUS
  <2>3. "toggle" \in Mcp!Kinds BY DEF Mcp!Kinds
  <2>3a. old = mcpRows[i] OBVIOUS
  <2> HIDE DEF old, new, no
  <2>3b. Arrived(c, "toggle", i, old, new, "write", no) /\ Met(c)
    BY <1>0, <2>0, <2>1, <2>2, <2>2a, <2>3, McpBegun
  <2>4. McpFormed(mcpCall'[c])
    BY <1>0, <2>0, <2>1, <2>2, <2>2a, <2>3, <2>3b DEF Arrived, McpFormed
  <2> QED BY <1>1, <2>0, <2>1, <2>2, <2>3, <2>3a, <2>4, <2>3b, BeginKeeps
<1>3. ASSUME NEW i \in Mcp!Ids, Mcp!Delete(c, i) PROVE McpIInv'
  <2> DEFINE no == FALSE
  <2>1. mcpRows[i] # Nil /\ Mcp!Begin(c, "delete", i, mcpRows[i], Nil, "write", no)
    BY <1>3 DEF Mcp!Delete
  <2>2. mcpRows[i] \in Mcp!Row /\ no \in BOOLEAN BY <1>0, <2>1
  <2>3. "delete" \in Mcp!Kinds BY DEF Mcp!Kinds
  <2> HIDE DEF no
  <2>3b. Arrived(c, "delete", i, mcpRows[i], Nil, "write", no) /\ Met(c)
    BY <1>0, <2>1, <2>2, <2>3, McpBegun
  <2>4. McpFormed(mcpCall'[c]) BY <1>0, <2>1, <2>2, <2>3, <2>3b DEF Arrived, McpFormed
  <2>5. \A j \in Mcp!Ids : mcpRows[j] # Nil /\ mcpRows[j].name = mcpRows[i].name => j = i BY <1>1, <2>1
  <2>6. \A old \in Mcp!Row \cup {Nil} : old = mcpRows[i] => McpIInv'
    BY <2>1, <2>2, <2>3, <2>4, <2>3b, <2>5, BeginKeeps
  <2> QED BY <2>2, <2>6
<1>4. ASSUME NEW i \in Mcp!Ids, Mcp!SyncToAgents(c, i) PROVE McpIInv'
  <2> DEFINE odd == ~mcpRows[i].enabled
  <2>1. mcpRows[i] # Nil /\ Mcp!Begin(c, "sync", i, mcpRows[i], mcpRows[i], "lock", odd)
    BY <1>4 DEF Mcp!SyncToAgents
  <2>2. mcpRows[i] \in Mcp!Row /\ odd \in BOOLEAN /\ (~odd => mcpRows[i].enabled) BY <1>0, <2>1
  <2>3. "sync" \in Mcp!Kinds BY DEF Mcp!Kinds
  <2> HIDE DEF odd
  <2>3b. Arrived(c, "sync", i, mcpRows[i], mcpRows[i], "lock", odd) /\ Met(c)
    BY <1>0, <2>1, <2>2, <2>3, McpBegun
  <2>4. McpFormed(mcpCall'[c]) BY <1>0, <2>1, <2>2, <2>3, <2>3b DEF Arrived, McpFormed
  <2>5. \A j \in Mcp!Ids : mcpRows[j] # Nil /\ mcpRows[j].name = mcpRows[i].name => j = i BY <1>1, <2>1
  <2> QED BY <2>1, <2>2, <2>3, <2>4, <2>3b, <2>5, BeginKeeps
<1>5. ASSUME NEW i \in Mcp!Ids, Mcp!RemoveFromAgents(c, i) PROVE McpIInv'
  <2> DEFINE odd == mcpRows[i].enabled
  <2>1. mcpRows[i] # Nil /\ Mcp!Begin(c, "remove", i, mcpRows[i], Nil, "lock", odd)
    BY <1>5 DEF Mcp!RemoveFromAgents
  <2>2. mcpRows[i] \in Mcp!Row /\ odd \in BOOLEAN /\ (~odd => ~mcpRows[i].enabled) BY <1>0, <2>1
  <2>3. "remove" \in Mcp!Kinds BY DEF Mcp!Kinds
  <2> HIDE DEF odd
  <2>3b. Arrived(c, "remove", i, mcpRows[i], Nil, "lock", odd) /\ Met(c)
    BY <1>0, <2>1, <2>2, <2>3, McpBegun
  <2>4. McpFormed(mcpCall'[c]) BY <1>0, <2>1, <2>2, <2>3, <2>3b DEF Arrived, McpFormed
  <2>5. \A j \in Mcp!Ids : mcpRows[j] # Nil /\ mcpRows[j].name = mcpRows[i].name => j = i BY <1>1, <2>1
  <2> QED BY <2>1, <2>2, <2>3, <2>4, <2>3b, <2>5, BeginKeeps
<1>6. ASSUME NEW i \in Mcp!Ids, NEW n \in Servers, NEW t \in Transports, Mcp!Edit(c, i, n, t)
  PROVE McpIInv'
  <2> DEFINE new == [mcpRows[i] EXCEPT !.name = n, !.transport = t]
             odd == mcpRows[i].enabled
  <2>1. /\ mcpRows[i] # Nil /\ Mcp!Named(n) \subseteq {i}
             /\ Mcp!Begin(c, "edit", i, mcpRows[i], new, "write", odd)
    BY <1>6 DEF Mcp!Edit
  <2>2. mcpRows[i] \in Mcp!Row /\ odd \in BOOLEAN /\ (~odd => ~mcpRows[i].enabled) BY <1>0, <2>1
  <2>3. new \in Mcp!Row /\ new.name = n /\ new.enabled = mcpRows[i].enabled BY <2>2 DEF Mcp!Row
  <2>4. "edit" \in Mcp!Kinds BY DEF Mcp!Kinds
  <2>5. \A j \in Mcp!Ids : mcpRows[j] # Nil /\ mcpRows[j].name = n => j = i BY <2>1 DEF Mcp!Named
  <2> HIDE DEF new, odd
  <2>5a. Arrived(c, "edit", i, mcpRows[i], new, "write", odd) /\ Met(c)
    BY <1>0, <2>1, <2>2, <2>3, <2>4, McpBegun
  <2>6. McpFormed(mcpCall'[c]) BY <1>0, <2>1, <2>2, <2>3, <2>4, <2>5a DEF Arrived, McpFormed
  <2> QED BY <1>1, <2>1, <2>2, <2>3, <2>4, <2>5, <2>6, <2>5a, BeginKeeps
<1>7. ASSUME NEW kind \in {"add", "import"}, NEW n \in Servers, NEW t \in Transports,
             Mcp!AddOrImport(c, kind, n, t)
      PROVE  McpIInv'
  <2>0. kind \in Mcp!Kinds BY DEF Mcp!Kinds
  <2>1. CASE Mcp!Named(n) = {}
          /\ Mcp!Begin(c, kind, Nil, Nil, [name |-> n, enabled |-> FALSE, transport |-> t],
                                        "write", FALSE)
    <3> DEFINE new == [name |-> n, enabled |-> FALSE, transport |-> t]
    <3>1. new \in Mcp!Row /\ new.name = n /\ ~new.enabled BY DEF Mcp!Row
    <3>2. \A j \in Mcp!Ids : mcpRows[j] # Nil /\ mcpRows[j].name = n => FALSE BY <2>1 DEF Mcp!Named
    <3> DEFINE no == FALSE
    <3>3. Mcp!Begin(c, kind, Nil, Nil, new, "write", no) /\ no \in BOOLEAN BY <2>1
    <3> HIDE DEF new, no
    <3>3b. Arrived(c, kind, Nil, Nil, new, "write", no) /\ Met(c)
      BY <1>0, <2>0, <3>1, <3>3, McpBegun
    <3>4. McpFormed(mcpCall'[c]) BY <1>0, <2>0, <3>1, <3>3, <3>3b DEF Arrived, McpFormed
    <3> QED BY <1>0, <2>0, <3>1, <3>2, <3>3, <3>4, <3>3b, BeginKeeps
  <2>2. ASSUME NEW i \in Mcp!Named(n),
               Mcp!Begin(c, kind, i, mcpRows[i],
                     [mcpRows[i] EXCEPT !.transport = t, !.enabled = kind = "add"
                       /\ mcpRows[i].enabled],
                     "write", mcpRows[i].enabled)
        PROVE  McpIInv'
    <3> DEFINE on == kind = "add" /\ mcpRows[i].enabled
               new == [mcpRows[i] EXCEPT !.transport = t, !.enabled = on]
               odd == mcpRows[i].enabled
    <3>1. i \in Mcp!Ids /\ mcpRows[i] # Nil /\ mcpRows[i].name = n
            /\ Mcp!Begin(c, kind, i, mcpRows[i], new, "write", odd)
      BY <2>2 DEF Mcp!Named
    <3>2. /\ mcpRows[i] \in Mcp!Row /\ odd \in BOOLEAN /\ (~odd => ~mcpRows[i].enabled)
          /\ on \in BOOLEAN /\ (on => mcpRows[i].enabled)
      BY <1>0, <3>1
    <3>2a. new = [mcpRows[i] EXCEPT !.transport = t, !.enabled = on] OBVIOUS
    <3> HIDE DEF on, new
    <3>3. new \in Mcp!Row /\ new.name = n /\ new.enabled = on BY <3>1, <3>2, <3>2a DEF Mcp!Row
    <3> HIDE DEF odd
    <3>3b. Arrived(c, kind, i, mcpRows[i], new, "write", odd) /\ Met(c)
      BY <1>0, <2>0, <3>1, <3>2, <3>3, McpBegun
    <3>4. McpFormed(mcpCall'[c]) BY <1>0, <2>0, <3>1, <3>2, <3>3, <3>3b DEF Arrived, McpFormed
    <3> QED BY <1>1, <2>0, <3>1, <3>2, <3>3, <3>4, <3>3b, BeginKeeps
  <2> QED BY <1>7, <2>1, <2>2 DEF Mcp!AddOrImport
<1> QED BY <1>2, <1>3, <1>4, <1>5, <1>6, <1>7 DEF Mcp!Request

\* A request that is over changes no other.
LEMMA McpEnded ==
  ASSUME Mcp!TypeOK, NEW c \in Pair, Mcp!Over(c)
  PROVE  /\ mcpCall' \in [Pair -> Mcp!CallState \cup {Nil}] /\ mcpCall'[c] = Nil
         /\ \A d \in Pair \ {c} : mcpCall'[d] = mcpCall[d]
BY DEF Mcp!Over, Mcp!TypeOK

\* A request that is over before it comes to the agents, and is not clean or
\* has written nothing.
LEMMA McpEndedKeeps ==
  ASSUME Mcp!McpAssumption, McpIInv, NEW c \in Pair, Mcp!Over(c),
         \A a, n : ~Comes(c, a, n),
         UNCHANGED <<mcpRows, added, config, mcpUsed, doubt, syncLock>>
  PROVE  McpIInv'
<1> USE DEF McpIInv
<1>1. /\ mcpCall' \in [Pair -> Mcp!CallState \cup {Nil}] /\ mcpCall'[c] = Nil
      /\ \A d \in Pair \ {c} : mcpCall'[d] = mcpCall[d]
  BY McpEnded
<1>2. UNCHANGED <<mcpRows, added, config, mcpUsed, doubt, syncLock>> OBVIOUS
<1>3. Mcp!TypeOK' BY <1>1, <1>2 DEF Mcp!TypeOK
<1>4. McpShape' /\ Unique' /\ McpBounded' /\ McpApart'
  BY <1>1, <1>2 DEF McpShape, Unique, McpBounded, McpApart
<1>5. Doubtful' /\ Called' BY <1>1, <1>2 DEF Doubtful, Called, InDoubt
<1>6. CleanKnows' BY <1>1, <1>2 DEF CleanKnows
<1>7. Holds' BY <1>1, <1>2 DEF Holds, InDoubt
<1>8. Copied'
  <2> SUFFICES ASSUME NEW a \in Mcp!Agents, NEW n \in Servers
               PROVE  <<a, n>> \in doubt' \/ CopyFollows(a, n)' \/ \E d \in Pair : Comes(d, a, n)'
    BY DEF Copied, Mcp!Agents
  <2>1. <<a, n>> \in doubt \/ CopyFollows(a, n) \/ \E d \in Pair : Comes(d, a, n) BY DEF Copied
  <2>2. CopyFollows(a, n) => CopyFollows(a, n)' BY <1>2 DEF CopyFollows, Mcp!Enabled, Mcp!Named
  <2>3. \A d \in Pair : Comes(d, a, n) => d # c /\ Comes(d, a, n)' BY <1>1 DEF Comes
  <2> QED BY <1>2, <2>1, <2>2, <2>3
<1> QED BY <1>3, <1>4, <1>5, <1>6, <1>7, <1>8

\* A write that is refused keeps the invariant.
LEMMA WriteFailsKeeps ==
  ASSUME Mcp!McpAssumption, McpIInv, NEW c \in Pair, Mcp!WriteFails(c) PROVE McpIInv'
<1>1. /\ mcpCall[c].pc = "write" /\ Mcp!Over(c)
           /\ UNCHANGED <<mcpRows, added, config, mcpUsed, doubt, syncLock>>
  BY DEF Mcp!WriteFails, Mcp!At, Mcp!table
<1>2. \A a, n : ~Comes(c, a, n) BY <1>1 DEF Comes
<1> QED BY <1>1, <1>2, McpEndedKeeps

\* A row that is written changes what has to be copied of its old and its new
\* name only.
LEMMA McpWriteKeeps ==
  ASSUME Mcp!McpAssumption, McpIInv, NEW c \in Pair, Mcp!Write(c) PROVE McpIInv'
<1> USE DEF McpIInv
<1> DEFINE r == mcpCall[c]
           x == IF r.id # Nil THEN r.id ELSE added + 1
<1>1. /\ mcpCall[c] # Nil /\ r.pc = "write" /\ r \in Mcp!CallState /\ McpFormed(r)
      /\ UNCHANGED <<config, syncLock, mcpUsed, doubt>>
  BY DEF Mcp!Write, Mcp!At, McpShape, Mcp!TypeOK
<1>1a. /\ r.new = Nil => r.id \in Mcp!Ids
       /\ r.new # Nil => r.new \in Mcp!Row
       /\ r.id \in Mcp!Ids \cup {Nil} /\ Nil \notin Mcp!Ids /\ Nil \notin Mcp!Row
       /\ \A n \in {r.old, r.new} \ {Nil} : n \in Mcp!Row
  BY <1>1 DEF McpFormed, Mcp!CallState, Mcp!McpAssumption
<1>2. /\ r.new = Nil => mcpRows[r.id] # Nil
      /\ r.new # Nil => Mcp!Named(r.new.name) \subseteq {r.id}
  BY DEF Mcp!Write
<1>3. CASE mcpRows' = mcpRows /\ added' = added /\ r.id \in Mcp!Ids /\ mcpRows[r.id] = Nil
  <2>1. ~r.clean
    <3>1. r.clean => mcpRows[r.id] = r.old BY <1>1, <1>3 DEF CleanKnows
    <3>2. r.old # Nil BY <1>1, <1>1a, <1>3 DEF McpFormed
    <3> QED BY <1>3, <3>1, <3>2
  <2>2. CASE Mcp!Over(c)
    <3>1. \A a, n : ~Comes(c, a, n) BY <1>1 DEF Comes
    <3> QED BY <1>1, <1>3, <2>2, <3>1, McpEndedKeeps
  <2>3. CASE ~Mcp!Over(c)
    <3> DEFINE new == [mcpCall[c] EXCEPT !.pc = "lock"]
    <3>1. Mcp!Tells(r) /\ mcpCall' = [mcpCall EXCEPT ![c] = new] BY <2>3 DEF Mcp!Write
    <3>2. /\ new \in Mcp!CallState /\ new.kind = r.kind /\ new.id = r.id /\ new.names = r.names
          /\ new.old = r.old /\ new.new = r.new /\ new.pc = "lock" /\ new.agent = r.agent
          /\ new.clean = r.clean
      BY <1>1 DEF Mcp!CallState
    <3> HIDE DEF new, r
    <3>3. /\ mcpCall' \in [Pair -> Mcp!CallState \cup {Nil}] /\ mcpCall'[c] = new /\ new # Nil
          /\ \A d \in Pair \ {c} : mcpCall'[d] = mcpCall[d]
      BY <3>1, <3>2 DEF Mcp!TypeOK, Mcp!McpAssumption
    <3>4. mcpCall[c] = r /\ mcpCall[c] # Nil BY <1>1 DEF r
    <3>5. McpFormed(new) BY <1>1, <3>1, <3>2 DEF McpFormed, Mcp!Tells
    <3>6. Mcp!TypeOK' /\ McpShape' BY <1>1, <1>3, <3>3, <3>5 DEF Mcp!TypeOK, McpShape
    <3>7. Unique' /\ McpBounded' BY <1>3, <3>2, <3>3, <3>4 DEF Unique, McpBounded
    <3>8. McpApart'
      BY <3>2, <3>3, <3>4 DEF McpApart, Meet
    <3>9. Doubtful' /\ Called'
      BY <1>1, <1>3, <3>2, <3>3, <3>4 DEF Doubtful, Called, InDoubt
    <3>10. CleanKnows' BY <1>3, <2>1, <3>2, <3>3, <3>4 DEF CleanKnows, r
    <3>11. Holds' BY <1>1, <3>2, <3>3 DEF Holds, InDoubt
    <3>12. Copied'
      <4> SUFFICES ASSUME NEW a \in Mcp!Agents, NEW n \in Servers
                   PROVE  <<a, n>> \in doubt' \/ CopyFollows(a, n)' \/ \E d \in Pair : Comes(d, a, n)'
        BY DEF Copied, Mcp!Agents
      <4>1. <<a, n>> \in doubt \/ CopyFollows(a, n) \/ \E d \in Pair : Comes(d, a, n) BY DEF Copied
      <4>2. CopyFollows(a, n) => CopyFollows(a, n)' BY <1>1, <1>3 DEF CopyFollows, Mcp!Enabled, Mcp!Named
      <4>3. \A d \in Pair : Comes(d, a, n) => d # c /\ Comes(d, a, n)'
        BY <1>1, <3>3 DEF Comes, r
      <4> QED BY <1>1, <4>1, <4>2, <4>3
    <3> QED BY <3>6, <3>7, <3>8, <3>9, <3>10, <3>11, <3>12
  <2> QED BY <2>2, <2>3
<1>4. CASE ~(mcpRows' = mcpRows /\ added' = added /\ r.id \in Mcp!Ids /\ mcpRows[r.id] = Nil)
  <2>1. /\ mcpRows' = [mcpRows EXCEPT ![x] = r.new] /\ x \in Mcp!Ids /\ added' \in 0 .. MaxServers
        /\ r.id \in Mcp!Ids => x = r.id /\ added' = added /\ mcpRows[x] # Nil
        /\ r.id = Nil => x = added + 1 /\ added' = x /\ added < MaxServers
    <3>1. CASE r.id # Nil
      <4>1. /\ mcpRows' = IF mcpRows[r.id] = Nil THEN mcpRows ELSE [mcpRows EXCEPT ![r.id] = r.new]
            /\ added' = added
        BY <3>1 DEF Mcp!Write
      <4> QED BY <1>1a, <1>4, <3>1, <4>1 DEF Mcp!TypeOK
    <3>2. CASE r.id = Nil
      <4>1. added < MaxServers /\ added' = added + 1 /\ mcpRows' = [mcpRows EXCEPT ![added'] = r.new]
        BY <3>2 DEF Mcp!Write
      <4>2. added + 1 \in Mcp!Ids /\ added + 1 \in 0 .. MaxServers
        BY <4>1 DEF Mcp!TypeOK, Mcp!Ids, Mcp!McpAssumption
      <4> QED BY <1>1a, <3>2, <4>1, <4>2
    <3> QED BY <3>1, <3>2
  <2>1a. /\ \A d \in Pair \ {c} : mcpCall[d] # Nil /\ mcpCall[d].id = x => r.id = x
         /\ r.id = Nil => mcpRows[x] = Nil
    <3> SUFFICES ASSUME r.id = Nil
                 PROVE  mcpRows[x] = Nil /\ \A d \in Pair \ {c} : mcpCall[d] # Nil => mcpCall[d].id # x
      BY <1>1a, <2>1
    <3>1. x \in Mcp!Ids /\ x > added BY <2>1 DEF Mcp!TypeOK, Mcp!Ids, Mcp!McpAssumption
    <3>2. ~(x <= added) BY <3>1 DEF Mcp!TypeOK, Mcp!Ids, Mcp!McpAssumption
    <3> QED BY <3>1, <3>2 DEF McpBounded
  <2> HIDE DEF x
  <2>2. /\ mcpRows'[x] = r.new /\ \A j \in Mcp!Ids \ {x} : mcpRows'[j] = mcpRows[j]
        /\ mcpRows' \in [Mcp!Ids -> Mcp!Row \cup {Nil}]
    BY <1>1a, <2>1 DEF Mcp!TypeOK
  <2>3. \A j \in Mcp!Ids : mcpRows[j] # Nil /\ r.new # Nil /\ mcpRows[j].name = r.new.name => j = x
    BY <1>1a, <1>2, <2>1 DEF Mcp!Named
  <2>4. /\ r.new # Nil => r.new.name \in r.names
        /\ r.old # Nil => r.old.name \in r.names
    BY <1>1 DEF McpFormed
  <2>5. ASSUME NEW d \in Pair \ {c}, mcpCall[d] # Nil,
               (r.new # Nil /\ r.new.name \in mcpCall[d].names) \/ mcpCall[d].id = x
        PROVE  ~r.clean /\ ~mcpCall[d].clean
    <3>1. Meet(r, mcpCall[d]) BY <1>1a, <2>1, <2>1a, <2>4, <2>5 DEF Meet
    <3> QED BY <1>1, <2>5, <3>1 DEF McpApart
  <2>6. \/ Mcp!Tells(r) /\ mcpCall'[c] # Nil /\ mcpCall'[c].pc = "lock"
        \/ ~Mcp!Tells(r) /\ mcpCall'[c] = Nil
    <3>1. CASE Mcp!Tells(r)
      <4>1. mcpCall' = [mcpCall EXCEPT ![c].pc = "lock"] BY <3>1 DEF Mcp!Write
      <4>2. mcpCall'[c] = [mcpCall[c] EXCEPT !.pc = "lock"] BY <4>1 DEF Mcp!TypeOK
      <4>3. mcpCall'[c] \in Mcp!CallState /\ mcpCall'[c].pc = "lock" BY <1>1, <4>2 DEF Mcp!CallState
      <4> QED BY <3>1, <4>3 DEF Mcp!McpAssumption
    <3>2. CASE ~Mcp!Tells(r)
      <4>1. Mcp!Over(c) BY <3>2 DEF Mcp!Write
      <4> QED BY <3>2, <4>1, McpEnded
    <3> QED BY <3>1, <3>2
  <2>7. /\ mcpCall' \in [Pair -> Mcp!CallState \cup {Nil}]
        /\ \A d \in Pair \ {c} : mcpCall'[d] = mcpCall[d]
        /\ mcpCall'[c] # Nil =>
             /\ mcpCall'[c].kind = r.kind /\ mcpCall'[c].id = r.id /\ mcpCall'[c].names = r.names
             /\ mcpCall'[c].old = r.old /\ mcpCall'[c].new = r.new /\ mcpCall'[c].agent = r.agent
             /\ mcpCall'[c].clean = r.clean
    <3>1. CASE Mcp!Tells(r)
      <4> DEFINE new == [mcpCall[c] EXCEPT !.pc = "lock"]
      <4>1. mcpCall' = [mcpCall EXCEPT ![c] = new] BY <3>1 DEF Mcp!Write
      <4>2. /\ new \in Mcp!CallState /\ new.kind = r.kind /\ new.id = r.id /\ new.names = r.names
            /\ new.old = r.old /\ new.new = r.new /\ new.agent = r.agent /\ new.clean = r.clean
        BY <1>1 DEF Mcp!CallState
      <4> HIDE DEF new, r
      <4> QED BY <4>1, <4>2 DEF Mcp!TypeOK
    <3>2. CASE ~Mcp!Tells(r)
      <4>1. Mcp!Over(c) BY <3>2 DEF Mcp!Write
      <4> QED BY <4>1, McpEnded
    <3> QED BY <3>1, <3>2
  <2>7a. Mcp!Tells(r) => r.kind \in {"toggle", "delete"} /\ r.id \in Mcp!Ids
    BY <1>1 DEF Mcp!Tells, McpFormed
  <2>8. Mcp!TypeOK' BY <1>1, <2>1, <2>2, <2>7 DEF Mcp!TypeOK
  <2>9. McpShape'
    <3>1. mcpCall'[c] # Nil => McpFormed(mcpCall'[c]) BY <1>1, <2>6, <2>7 DEF McpFormed, Mcp!Tells
    <3> QED BY <2>7, <3>1 DEF McpShape
  <2>10. Unique' BY <2>2, <2>3 DEF Unique
  <2>11. McpBounded'
    <3>1. x <= added' /\ added <= added' /\ added \in Nat /\ added' \in Nat
      <4>1. added \in Nat BY DEF Mcp!TypeOK
      <4>2. CASE r.id \in Mcp!Ids
        <5>1. x <= added BY <1>1, <2>1, <4>2 DEF McpBounded
        <5> QED BY <2>1, <4>1, <4>2, <5>1
      <4>3. CASE r.id = Nil
        <5>1. added' = added + 1 /\ x = added' BY <2>1, <4>3
        <5> QED BY <4>1, <5>1
      <4> QED BY <1>1a, <4>2, <4>3
    <3>2. \A j \in Mcp!Ids : j > added' => j # x /\ j > added BY <3>1 DEF Mcp!Ids
    <3>3. \A j \in Mcp!Ids : j <= added => j <= added' BY <3>1 DEF Mcp!Ids
    <3>4. \A j \in Mcp!Ids : j > added' => mcpRows'[j] = Nil BY <2>2, <3>2 DEF McpBounded
    <3>5. \A d \in Pair : mcpCall'[d] # Nil => mcpCall[d] # Nil /\ mcpCall'[d].id = mcpCall[d].id
      BY <1>1, <2>7 DEF r
    <3> QED BY <3>3, <3>4, <3>5 DEF McpBounded
  <2>12. McpApart' BY <1>1, <2>7 DEF McpApart, Meet, r
  <2>13. Doubtful' BY <1>1, <2>7 DEF Doubtful, InDoubt, r
  <2>14. Called'
    <3> SUFFICES ASSUME NEW d \in Pair, mcpCall'[d] # Nil, mcpCall'[d].id \in Mcp!Ids, mcpRows'[mcpCall'[d].id] # Nil
                 PROVE  \/ mcpRows'[mcpCall'[d].id].name \in mcpCall'[d].names
                        \/ InDoubt(mcpRows'[mcpCall'[d].id].name)
      BY <1>1 DEF Called, InDoubt
    <3>1. mcpCall[d] # Nil /\ mcpCall'[d].id = mcpCall[d].id /\ mcpCall'[d].names = mcpCall[d].names
      BY <1>1, <2>7 DEF r
    <3>2. CASE mcpCall[d].id # x BY <2>2, <3>1, <3>2 DEF Called
    <3>3. CASE mcpCall[d].id = x
      <4>1. mcpRows'[x] = r.new /\ r.new # Nil /\ r.new.name \in r.names BY <2>2, <2>4, <3>1, <3>3
      <4>2. CASE d = c BY <3>1, <3>3, <4>1, <4>2 DEF r
      <4>3. CASE d # c
        <5>1. ~r.clean BY <2>5, <3>1, <3>3, <4>3
        <5>2. InDoubt(r.new.name) BY <1>1, <4>1, <5>1 DEF Doubtful
        <5> QED BY <3>1, <3>3, <4>1, <5>2
      <4> QED BY <4>2, <4>3
    <3> QED BY <3>2, <3>3
  <2>15. CleanKnows'
    <3> SUFFICES ASSUME NEW d \in Pair, mcpCall'[d] # Nil, mcpCall'[d].clean
                 PROVE  /\ \A j \in Mcp!Ids : mcpRows'[j] # Nil
                             /\ mcpRows'[j].name \in mcpCall'[d].names
                             => j = mcpCall'[d].id
                        /\ mcpCall'[d].id \in Mcp!Ids =>
                             mcpRows'[mcpCall'[d].id] =
                               IF mcpCall'[d].pc = "write" THEN mcpCall'[d].old
                               ELSE IF mcpCall'[d].kind
                                 = "remove" THEN mcpCall'[d].old ELSE mcpCall'[d].new
      BY DEF CleanKnows
    <3>1. CASE d = c
      <4>1. /\ r.clean /\ r.id \in Mcp!Ids /\ x = r.id /\ mcpCall'[c].pc = "lock" /\ r.kind # "remove"
            /\ mcpCall'[c].id = x /\ mcpCall'[c].names = r.names /\ mcpCall'[c].new = r.new
            /\ mcpCall'[c].kind = r.kind
        BY <2>1, <2>6, <2>7, <2>7a, <3>1
      <4>2. \A j \in Mcp!Ids : mcpRows[j] # Nil /\ mcpRows[j].name \in r.names => j = x
        BY <1>1, <4>1 DEF CleanKnows
      <4> QED BY <2>2, <3>1, <4>1, <4>2
    <3>2. CASE d # c
      <4>1. mcpCall'[d] = mcpCall[d] BY <2>7, <3>2
      <4>2. mcpCall[d].id # x /\ ~(r.new # Nil /\ r.new.name \in mcpCall[d].names)
        BY <2>5, <3>2, <4>1
      <4> QED BY <2>2, <4>1, <4>2 DEF CleanKnows
    <3> QED BY <3>1, <3>2
  <2>16. Holds'
    <3> SUFFICES ASSUME NEW d \in Pair, mcpCall'[d] # Nil, mcpCall'[d].pc \in {"look", "put"}
                 PROVE  mcpCall'[d] = mcpCall[d]
      BY <1>1 DEF Holds, InDoubt
    <3>1. d # c BY <2>6
    <3> QED BY <2>7, <3>1
  <2>17. Copied'
    <3> SUFFICES ASSUME NEW a \in Mcp!Agents, NEW n \in Servers, <<a, n>> \notin doubt
                 PROVE  CopyFollows(a, n)' \/ \E d \in Pair : Comes(d, a, n)'
      BY <1>1 DEF Copied, Mcp!Agents
    <3>1. CopyFollows(a, n) \/ \E d \in Pair : Comes(d, a, n) BY DEF Copied
    <3>2. \A d \in Pair : Comes(d, a, n) => d # c /\ Comes(d, a, n)' BY <1>1, <2>7 DEF Comes
    <3>3. CASE n \in r.names
      <4>1. r.clean BY <1>1, <3>3 DEF Doubtful, InDoubt
      <4>2. CASE Mcp!Tells(r)
        <5>1. r.agent = 1 /\ 1 <= a BY <1>1 DEF McpFormed, Mcp!Agents
        <5>2. Comes(c, a, n)' BY <2>6, <2>7, <3>3, <4>1, <4>2, <5>1 DEF Comes
        <5> QED BY <5>2
      <4>3. CASE ~Mcp!Tells(r)
        <5>1. \A j \in Mcp!Ids : mcpRows[j] # Nil /\ mcpRows[j].name = n => j = r.id
          BY <1>1, <3>3, <4>1 DEF CleanKnows
        <5>2. r.id \in Mcp!Ids => mcpRows[r.id] = r.old BY <1>1, <4>1 DEF CleanKnows
        <5>3. /\ r.old # Nil => ~r.old.enabled
              /\ r.new # Nil => ~r.new.enabled
          BY <1>1, <4>1, <4>3 DEF McpFormed, Mcp!Tells
        <5>4. Mcp!Enabled(n) = {} BY <1>1a, <5>1, <5>2, <5>3 DEF Mcp!Enabled, Mcp!Named
        <5>5. Mcp!Enabled(n)' = {}
          BY <1>1a, <2>1, <2>2, <5>1, <5>2, <5>3 DEF Mcp!Enabled, Mcp!Named
        <5>6. CopyFollows(a, n) => CopyFollows(a, n)' BY <1>1, <5>4, <5>5 DEF CopyFollows
        <5> QED BY <3>1, <3>2, <5>6
      <4> QED BY <4>2, <4>3
    <3>4. CASE n \notin r.names
      <4>1. mcpRows[x] # Nil => mcpRows[x].name # n
        <5> SUFFICES ASSUME mcpRows[x] # Nil, mcpRows[x].name = n PROVE FALSE OBVIOUS
        <5>1. r.id \in Mcp!Ids /\ x = r.id BY <1>1a, <2>1, <2>1a
        <5>2. InDoubt(n) BY <1>1, <3>4, <5>1 DEF Called
        <5> QED BY <5>2 DEF InDoubt
      <4>2. r.new # Nil => r.new.name # n BY <2>4, <3>4
      <4>3. /\ Mcp!Enabled(n)' = Mcp!Enabled(n) /\ \A j \in Mcp!Enabled(n) : mcpRows'[j] = mcpRows[j]
        BY <2>2, <4>1, <4>2 DEF Mcp!Enabled, Mcp!Named
      <4>4. CopyFollows(a, n) => CopyFollows(a, n)' BY <1>1, <4>3 DEF CopyFollows
      <4> QED BY <3>1, <3>2, <4>4
    <3> QED BY <3>3, <3>4
  <2> QED BY <2>8, <2>9, <2>10, <2>11, <2>12, <2>13, <2>14, <2>15, <2>16, <2>17
<1> QED BY <1>3, <1>4

\* A request that gets the lock, and reads the row again, keeps the invariant.
LEMMA McpLockKeeps ==
  ASSUME Mcp!McpAssumption, McpIInv, NEW c \in Pair, Mcp!Lock(c) PROVE McpIInv'
<1> USE DEF McpIInv
<1> DEFINE r == mcpCall[c]
           target == IF Mcp!Copies(r) THEN mcpRows[r.id].name ELSE r.old.name
           copy == IF Mcp!Copies(r) THEN mcpRows[r.id].transport ELSE Nil
<1>1. /\ mcpCall[c] # Nil /\ r.pc = "lock" /\ r \in Mcp!CallState /\ McpFormed(r) /\ syncLock = Nil
      /\ UNCHANGED <<mcpRows, added, config, mcpUsed, doubt>>
  BY DEF Mcp!Lock, Mcp!At, McpShape, Mcp!TypeOK, Mcp!table
<1>2. /\ r.id \in Mcp!Ids /\ r.old \in Mcp!Row /\ r.kind \in {"toggle", "delete", "sync", "remove"}
      /\ r.old # Nil
      /\ Mcp!Copies(r) => r.new \in Mcp!Row /\ r.new # Nil /\ r.kind # "remove"
      /\ r.names \subseteq Servers
  <2>1. r.id \in Mcp!Ids /\ r.old \in Mcp!Row /\ r.kind \in {"toggle", "delete", "sync", "remove"}
    BY <1>1 DEF McpFormed
  <2>2. r.names \subseteq Servers BY <1>1 DEF Mcp!CallState
  <2>3. Mcp!Copies(r) => r.kind \in {"sync", "toggle"} BY DEF Mcp!Copies
  <2>4. r.kind = "toggle" => r.new = [r.old EXCEPT !.enabled = ~@] BY <1>1 DEF McpFormed
  <2>5. r.kind = "sync" => r.new = r.old BY <1>1 DEF McpFormed
  <2> HIDE DEF r
  <2>6. Mcp!Copies(r) => r.new \in Mcp!Row BY <2>1, <2>3, <2>4, <2>5 DEF Mcp!Row
  <2> QED BY <2>1, <2>2, <2>3, <2>6 DEF Mcp!McpAssumption
<1>3. r.clean => mcpRows[r.id] = IF r.kind = "remove" THEN r.old ELSE r.new
  BY <1>1, <1>2 DEF CleanKnows
<1>4. CASE Mcp!Copies(r) /\ mcpRows[r.id] = Nil
  <2>1. Mcp!Over(c) /\ UNCHANGED syncLock BY <1>4 DEF Mcp!Lock
  <2>2. ~r.clean BY <1>2, <1>3, <1>4
  <2>3. \A a, n : ~Comes(c, a, n) BY <2>2 DEF Comes
  <2> QED BY <1>1, <2>1, <2>3, McpEndedKeeps
<1>5. CASE ~(Mcp!Copies(r) /\ mcpRows[r.id] = Nil)
  <2> DEFINE new == [r EXCEPT !.pc = "look", !.target = target, !.copy = copy]
  <2>1. syncLock' = c /\ mcpCall' = [mcpCall EXCEPT ![c] = new]
    <3>1. /\ syncLock' = c
          /\ mcpCall' = [mcpCall EXCEPT ![c].pc = "look",
                                  ![c].target
                                    = IF Mcp!Copies(r) THEN mcpRows[r.id].name ELSE r.old.name,
                                  ![c].copy = IF Mcp!Copies(r) THEN mcpRows[r.id].transport ELSE Nil]
      BY <1>5 DEF Mcp!Lock
    <3> QED BY <3>1 DEF Mcp!TypeOK
  <2>2. target \in Servers /\ copy \in Transports \cup {Nil}
    BY <1>2, <1>5 DEF Mcp!TypeOK, Mcp!Row
  <2>3. /\ r.clean => r.names = {target} /\ copy = Wanted(r)
        /\ ~r.clean => InDoubt(target)
    <3>1. ASSUME r.clean PROVE r.names = {target} /\ copy = Wanted(r)
      <4>1. CASE Mcp!Copies(r)
        <5>1. mcpRows[r.id] = r.new BY <1>2, <1>3, <3>1, <4>1
        <5>2. target = r.new.name /\ copy = r.new.transport BY <4>1, <5>1
        <5>3. r.old.name = r.new.name /\ r.new # Nil
          BY <1>1, <1>2, <4>1 DEF McpFormed, Mcp!Copies, Mcp!Row
        <5>4. r.names = {r.new.name} BY <1>1, <1>2, <5>3 DEF McpFormed
        <5>5. Wanted(r) = r.new.transport BY <4>1 DEF Wanted, Mcp!Copies
        <5> QED BY <5>2, <5>4, <5>5
      <4>2. CASE ~Mcp!Copies(r)
        <5>1. target = r.old.name /\ copy = Nil BY <4>2
        <5>2. r.new # Nil => r.new.name = r.old.name BY <1>1, <4>2 DEF McpFormed, Mcp!Copies, Mcp!Row
        <5>3. r.names = {r.old.name} BY <1>1, <1>2, <5>2 DEF McpFormed
        <5>4. Wanted(r) = Nil BY <4>2 DEF Wanted, Mcp!Copies
        <5> QED BY <5>1, <5>3, <5>4
      <4> QED BY <4>1, <4>2
    <3>2. ASSUME ~r.clean PROVE InDoubt(target)
      <4>1. \A n \in r.names : InDoubt(n) BY <1>1, <3>2 DEF Doubtful
      <4>2. CASE Mcp!Copies(r)
        <5>1. mcpRows[r.id] # Nil BY <1>5, <4>2
        <5>2. mcpRows[r.id].name \in r.names \/ InDoubt(mcpRows[r.id].name)
          BY <1>1, <1>2, <5>1 DEF Called
        <5> QED BY <4>1, <4>2, <5>2
      <4>3. CASE ~Mcp!Copies(r)
        <5>1. r.old.name \in r.names BY <1>1, <1>2 DEF McpFormed
        <5> QED BY <4>1, <4>3, <5>1
      <4> QED BY <4>2, <4>3
    <3> QED BY <3>1, <3>2
  <2> HIDE DEF target, copy
  <2>4. /\ new \in Mcp!CallState /\ new.kind = r.kind /\ new.id = r.id /\ new.names = r.names
        /\ new.old = r.old /\ new.new = r.new /\ new.pc = "look" /\ new.agent = r.agent
        /\ new.clean = r.clean /\ new.target = target /\ new.copy = copy
    BY <1>1, <2>2 DEF Mcp!CallState
  <2> HIDE DEF new, r
  <2>5. /\ mcpCall' \in [Pair -> Mcp!CallState \cup {Nil}] /\ mcpCall'[c] = new /\ new # Nil
        /\ \A d \in Pair \ {c} : mcpCall'[d] = mcpCall[d]
    BY <2>1, <2>4 DEF Mcp!TypeOK, Mcp!McpAssumption
  <2>6. mcpCall[c] = r BY DEF r
  <2>7. McpFormed(new) BY <1>1, <1>2, <2>4 DEF McpFormed
  <2>8. Mcp!TypeOK' /\ McpShape' BY <1>1, <2>1, <2>5, <2>7 DEF Mcp!TypeOK, McpShape
  <2>9. Unique' /\ McpBounded' BY <1>1, <2>4, <2>5, <2>6 DEF Unique, McpBounded
  <2>10. McpApart' BY <1>1, <2>4, <2>5, <2>6 DEF McpApart, Meet
  <2>11. Doubtful' /\ Called'
    BY <1>1, <2>4, <2>5, <2>6 DEF Doubtful, Called, InDoubt
  <2>12. CleanKnows' BY <1>1, <2>4, <2>5, <2>6 DEF CleanKnows
  <2>13. Holds'
    <3>1. \A d \in Pair \ {c} : mcpCall[d] # Nil => mcpCall[d].pc \notin {"look", "put"}
      BY <1>1 DEF Holds, Mcp!McpAssumption
    <3>2. Wanted(new) = Wanted(r) BY <2>4 DEF Wanted
    <3> QED BY <1>1, <2>1, <2>2, <2>3, <2>4, <2>5, <3>1, <3>2 DEF Holds, InDoubt
  <2>14. Copied'
    <3> SUFFICES ASSUME NEW a \in Mcp!Agents, NEW n \in Servers
                 PROVE  <<a, n>> \in doubt' \/ CopyFollows(a, n)' \/ \E d \in Pair : Comes(d, a, n)'
      BY DEF Copied, Mcp!Agents
    <3>1. <<a, n>> \in doubt \/ CopyFollows(a, n) \/ \E d \in Pair : Comes(d, a, n) BY DEF Copied
    <3>2. CopyFollows(a, n) => CopyFollows(a, n)' BY <1>1 DEF CopyFollows, Mcp!Enabled, Mcp!Named
    <3>3. \A d \in Pair : Comes(d, a, n) => Comes(d, a, n)'
      BY <1>1, <2>4, <2>5, <2>6 DEF Comes
    <3> QED BY <1>1, <3>1, <3>2, <3>3
  <2> QED BY <2>8, <2>9, <2>10, <2>11, <2>12, <2>13, <2>14
<1> QED BY <1>4, <1>5

\* The agent a request is at is done with: its copy is what the request wants,
\* or in doubt.
LEMMA AdvanceKeeps ==
  ASSUME Mcp!McpAssumption, McpIInv,
           NEW c \in Pair, mcpCall[c] # Nil, mcpCall[c].pc \in {"look", "put"},
         Mcp!Advance(c), UNCHANGED <<mcpRows, added>>, mcpUsed' \in [Mcp!Kinds -> Nat],
         config' \in [Mcp!Agents -> Mcp!Config], doubt' \subseteq Mcp!Agents \X Servers,
         \A a \in Mcp!Agents, n \in Servers :
           a # mcpCall[c].agent \/ n # mcpCall[c].target =>
             /\ config'[a][n] = config[a][n]
             /\ <<a, n>> \in doubt' <=> <<a, n>> \in doubt,
         mcpCall[c].clean => \/ <<mcpCall[c].agent, mcpCall[c].target>> \in doubt'
                             \/ CopyFits(mcpCall[c].agent,
                                         config'[mcpCall[c].agent][mcpCall[c].target], mcpCall[c].copy),
         ~mcpCall[c].clean => doubt \subseteq doubt'
  PROVE  McpIInv'
<1> USE DEF McpIInv
<1> DEFINE r == mcpCall[c]
           g == r.agent
           t == r.target
           Stays(n) == \A a \in Mcp!Agents : <<a, n>> \in doubt'
<1>1. /\ r \in Mcp!CallState /\ McpFormed(r) /\ syncLock = c /\ g \in Mcp!Agents /\ t \in Servers
      /\ r.clean => r.names = {t} /\ r.copy = Wanted(r)
      /\ ~r.clean => InDoubt(t)
      /\ r.pc # "write"
  BY DEF Holds, McpShape, Mcp!TypeOK, Mcp!CallState
<1>2. /\ r.kind \in {"toggle", "delete", "sync", "remove"} /\ r.id \in Mcp!Ids /\ r.old \in Mcp!Row
      /\ r.new # Nil => r.new \in Mcp!Row
      /\ Nil \notin Mcp!Row /\ Count \in Nat /\ Nil \notin Pair
  <2>1. r.kind \in {"toggle", "delete", "sync", "remove"} /\ r.id \in Mcp!Ids /\ r.old \in Mcp!Row
    BY <1>1 DEF McpFormed
  <2>2. Nil \notin Mcp!Row /\ Count \in Nat /\ Nil \notin Pair BY DEF Mcp!McpAssumption
  <2>3. r.new \in Mcp!Row \cup {Nil} BY <1>1 DEF Mcp!CallState
  <2> QED BY <2>1, <2>2, <2>3
<1>3. /\ mcpCall' \in [Pair -> Mcp!CallState \cup {Nil}]
           /\ \A d \in Pair \ {c} : mcpCall'[d] = mcpCall[d]
      /\ mcpCall'[c] # Nil =>
           /\ mcpCall'[c].kind = r.kind /\ mcpCall'[c].id = r.id /\ mcpCall'[c].names = r.names
           /\ mcpCall'[c].old = r.old /\ mcpCall'[c].new = r.new /\ mcpCall'[c].clean = r.clean
           /\ mcpCall'[c].target = t /\ mcpCall'[c].copy = r.copy /\ mcpCall'[c].pc = "look"
           /\ mcpCall'[c].agent = g + 1 /\ syncLock' = c
      /\ mcpCall'[c] = Nil => syncLock' = Nil
      /\ g < Count => mcpCall'[c] # Nil
  <2>1. CASE g < Count
    <3> DEFINE new == [mcpCall[c] EXCEPT !.agent = g + 1, !.pc = "look"]
    <3>1. mcpCall' = [mcpCall EXCEPT ![c] = new] /\ UNCHANGED syncLock
      BY <2>1 DEF Mcp!Advance, Mcp!TypeOK
    <3>2. g + 1 \in Mcp!Agents BY <1>1, <1>2, <2>1 DEF Mcp!Agents
    <3>3. /\ new \in Mcp!CallState /\ new.kind = r.kind /\ new.id = r.id /\ new.names = r.names
          /\ new.old = r.old /\ new.new = r.new /\ new.clean = r.clean
          /\ new.target = t /\ new.copy = r.copy /\ new.pc = "look" /\ new.agent = g + 1
      BY <1>1, <3>2 DEF Mcp!CallState
    <3> HIDE DEF new, g, t, r
    <3>4. new # Nil BY <3>3 DEF Mcp!McpAssumption
    <3> QED BY <1>1, <3>1, <3>3, <3>4 DEF Mcp!TypeOK
  <2>2. CASE ~(g < Count)
    <3>1. Mcp!Over(c) /\ syncLock' = Nil BY <2>2 DEF Mcp!Advance
    <3> QED BY <2>2, <3>1, McpEnded
  <2> QED BY <2>1, <2>2
<1>4. /\ syncLock' \in Pair \cup {Nil}
      /\ UNCHANGED <<mcpRows, added>> /\ mcpUsed' \in [Mcp!Kinds -> Nat]
      /\ config' \in [Mcp!Agents -> Mcp!Config] /\ doubt' \subseteq Mcp!Agents \X Servers
      /\ mcpCall[c] = r /\ r # Nil
      /\ \A a \in Mcp!Agents, n \in Servers :
           a # g \/ n # t => /\ config'[a][n] = config[a][n]
                             /\ <<a, n>> \in doubt' <=> <<a, n>> \in doubt
      /\ r.clean => <<g, t>> \in doubt' \/ CopyFits(g, config'[g][t], r.copy)
      /\ ~r.clean => doubt \subseteq doubt'
  BY <1>3
<1> HIDE DEF r, g, t
<1>5. \A d \in Pair : mcpCall'[d] # Nil =>
        /\ mcpCall[d] # Nil
        /\ mcpCall'[d].kind = mcpCall[d].kind /\ mcpCall'[d].id = mcpCall[d].id
        /\ mcpCall'[d].names = mcpCall[d].names /\ mcpCall'[d].old = mcpCall[d].old
        /\ mcpCall'[d].new = mcpCall[d].new /\ mcpCall'[d].clean = mcpCall[d].clean
        /\ d # c => mcpCall'[d] = mcpCall[d]
  BY <1>3, <1>4
<1>6. ASSUME NEW n \in Servers, InDoubt(n), n # t \/ ~r.clean PROVE Stays(n)
  BY <1>4, <1>6 DEF InDoubt
<1>7. \A n : InDoubt(n)' <=> Stays(n) BY DEF InDoubt, Mcp!Agents
<1> HIDE DEF Stays
<1>8. \A d \in Pair : mcpCall[d] # Nil => mcpCall[d].names \subseteq Servers
  BY DEF Mcp!TypeOK, Mcp!CallState
<1>9. Mcp!TypeOK' BY <1>3, <1>4 DEF Mcp!TypeOK
<1>10. McpShape'
  <2>1. mcpCall'[c] # Nil => McpFormed(mcpCall'[c]) BY <1>1, <1>2, <1>3 DEF McpFormed
  <2> QED BY <1>3, <1>5, <2>1 DEF McpShape
<1>11. Unique' BY <1>4 DEF Unique
<1>12. McpBounded' BY <1>4, <1>5 DEF McpBounded
<1>13. McpApart' BY <1>5 DEF McpApart, Meet
<1>14. Doubtful'
  <2> SUFFICES ASSUME NEW d \in Pair, mcpCall'[d] # Nil, ~mcpCall'[d].clean, NEW n \in mcpCall'[d].names
               PROVE  Stays(n)
    BY <1>7 DEF Doubtful
  <2>1. mcpCall[d] # Nil /\ ~mcpCall[d].clean /\ n \in mcpCall[d].names BY <1>5
  <2>2. InDoubt(n) /\ n \in Servers BY <1>8, <2>1 DEF Doubtful
  <2>3. CASE n # t \/ ~r.clean BY <1>6, <2>2, <2>3
  <2>4. CASE n = t /\ r.clean
    <3>1. d # c /\ Meet(r, mcpCall[d]) BY <1>1, <1>4, <2>1, <2>4 DEF Meet
    <3>2. ~r.clean BY <1>4, <2>1, <3>1 DEF McpApart
    <3> QED BY <2>4, <3>2
  <2> QED BY <2>3, <2>4
<1>15. Called'
  <2> SUFFICES ASSUME NEW d \in Pair, mcpCall'[d] # Nil, mcpCall'[d].id \in Mcp!Ids, mcpRows[mcpCall'[d].id] # Nil
               PROVE  \/ mcpRows[mcpCall'[d].id].name \in mcpCall'[d].names
                      \/ Stays(mcpRows[mcpCall'[d].id].name)
    BY <1>4 DEF Called, InDoubt, Mcp!Agents, Stays
  <2> DEFINE i == mcpCall[d].id
             n == mcpRows[i].name
  <2>1. /\ mcpCall[d] # Nil /\ mcpCall'[d].id = i /\ i \in Mcp!Ids /\ mcpRows[i] # Nil
        /\ mcpCall'[d].names = mcpCall[d].names
    BY <1>5
  <2>2. n \in mcpCall[d].names \/ InDoubt(n) BY <2>1 DEF Called
  <2>3. n \in Servers BY <2>1 DEF Mcp!TypeOK, Mcp!Row
  <2>4. CASE n # t \/ ~r.clean BY <1>6, <2>1, <2>2, <2>3, <2>4
  <2>5. CASE n = t /\ r.clean
    <3>1. i = r.id BY <1>1, <1>4, <2>1, <2>5 DEF CleanKnows
    <3>2. CASE d = c BY <1>1, <1>4, <2>1, <2>5, <3>2
    <3>3. CASE d # c
      <4>1. Meet(r, mcpCall[d]) BY <1>2, <2>1, <3>1 DEF Meet, Mcp!McpAssumption
      <4>2. ~r.clean BY <1>4, <2>1, <3>3, <4>1 DEF McpApart
      <4> QED BY <2>5, <4>2
    <3> QED BY <3>2, <3>3
  <2> QED BY <2>4, <2>5
<1>16. CleanKnows'
  <2> SUFFICES ASSUME NEW d \in Pair, mcpCall'[d] # Nil, mcpCall'[d].clean
               PROVE  /\ \A j \in Mcp!Ids : mcpRows[j] # Nil /\ mcpRows[j].name \in mcpCall'[d].names
                           => j = mcpCall'[d].id
                      /\ mcpCall'[d].id \in Mcp!Ids =>
                           mcpRows[mcpCall'[d].id] =
                             IF mcpCall'[d].pc = "write" THEN mcpCall'[d].old
                             ELSE IF mcpCall'[d].kind
                               = "remove" THEN mcpCall'[d].old ELSE mcpCall'[d].new
    BY <1>4 DEF CleanKnows
  <2>1. mcpCall'[d].pc = "write" <=> mcpCall[d].pc = "write" BY <1>1, <1>3, <1>4
  <2> QED BY <1>5, <2>1 DEF CleanKnows
<1>17. Holds'
  <2> SUFFICES ASSUME NEW d \in Pair, mcpCall'[d] # Nil, mcpCall'[d].pc \in {"look", "put"}
               PROVE  /\ syncLock' = d /\ mcpCall'[d].target \in Servers
                      /\ mcpCall'[d].pc = "put" => mcpCall'[d].seen = config'[mcpCall'[d].agent]
                      /\ IF mcpCall'[d].clean
                         THEN mcpCall'[d].names = {mcpCall'[d].target}
                           /\ mcpCall'[d].copy = Wanted(mcpCall'[d])
                         ELSE Stays(mcpCall'[d].target)
    BY DEF Holds, InDoubt, Mcp!Agents, Stays
  <2>1. CASE d # c
    <3>1. syncLock = d BY <1>5, <2>1 DEF Holds
    <3> QED BY <1>1, <2>1, <3>1
  <2>2. CASE d = c
    <3>1. Wanted(mcpCall'[c]) = Wanted(r) BY <1>3, <2>2 DEF Wanted
    <3>2. ~r.clean => Stays(t) BY <1>1, <1>6
    <3> QED BY <1>1, <1>3, <2>2, <3>1, <3>2
  <2> QED BY <2>1, <2>2
<1>18. Copied'
  <2> SUFFICES ASSUME NEW a \in Mcp!Agents, NEW n \in Servers, <<a, n>> \notin doubt'
               PROVE  CopyFollows(a, n)' \/ \E d \in Pair : Comes(d, a, n)'
    BY DEF Copied, Mcp!Agents
  <2>0. Mcp!Named(n)' = Mcp!Named(n) /\ Mcp!Enabled(n)' = Mcp!Enabled(n)
    BY <1>4 DEF Mcp!Named, Mcp!Enabled
  <2>1. CASE a = g /\ n = t
    <3>1. r.clean BY <1>1, <1>4, <2>1 DEF InDoubt
    <3>2. CopyFits(a, config'[a][n], Wanted(r)) BY <1>1, <1>4, <2>1, <3>1
    <3>3. \A i \in Mcp!Ids : mcpRows[i] # Nil /\ mcpRows[i].name = n => i = r.id
      BY <1>1, <1>4, <2>1, <3>1 DEF CleanKnows
    <3>4. mcpRows[r.id] = IF r.kind = "remove" THEN r.old ELSE r.new
      BY <1>1, <1>2, <1>4, <3>1 DEF CleanKnows
    <3>5. CASE Wanted(r) # Nil
      <4>1. r.new # Nil /\ mcpRows[r.id] = r.new /\ Wanted(r) = r.new.transport
        <5>1. r.kind \in {"sync", "toggle"} /\ Wanted(r) = r.new.transport
          BY <3>5 DEF Wanted
        <5>2. mcpRows[r.id] = r.new BY <3>4, <5>1
        <5>3. r.kind = "sync" => r.new = r.old BY <1>1 DEF McpFormed
        <5>4. r.kind = "toggle" => r.new = [r.old EXCEPT !.enabled = ~@] BY <1>1 DEF McpFormed
        <5>5. r.new \in Mcp!Row BY <1>2, <5>1, <5>3, <5>4 DEF Mcp!Row
        <5> QED BY <1>2, <5>1, <5>2, <5>5
      <4>2. r.new.enabled
        <5>1. r.kind = "sync" \/ (r.kind = "toggle" /\ r.new.enabled) BY <3>5 DEF Wanted
        <5>2. CASE r.kind = "sync" BY <1>1, <3>1, <5>2 DEF McpFormed
        <5> QED BY <5>1, <5>2
      <4>3. r.new.name = n
        <5>1. r.kind \in {"sync", "toggle"} BY <3>5 DEF Wanted
        <5>2. r.kind = "sync" => r.new = r.old BY <1>1 DEF McpFormed
        <5>3. r.kind = "toggle" => r.new = [r.old EXCEPT !.enabled = ~@] BY <1>1 DEF McpFormed
        <5>4. r.old \in Mcp!Row /\ r.old # Nil BY <1>2
        <5>5. r.new.name = r.old.name BY <5>1, <5>2, <5>3, <5>4 DEF Mcp!Row
        <5>6. r.names = {r.old.name} \cup {r.new.name} BY <1>1, <4>1, <5>4 DEF McpFormed
        <5> QED BY <1>1, <2>1, <3>1, <5>5, <5>6
      <4>4. r.id \in Mcp!Enabled(n) BY <1>2, <4>1, <4>2, <4>3 DEF Mcp!Enabled, Mcp!Named
      <4>5. \A i \in Mcp!Enabled(n) : i = r.id BY <3>3 DEF Mcp!Enabled, Mcp!Named
      <4> QED BY <1>4, <2>0, <3>2, <4>1, <4>4, <4>5 DEF CopyFollows
    <3>6. CASE Wanted(r) = Nil
      <4>1. mcpRows[r.id] # Nil => ~mcpRows[r.id].enabled
        <5>1. CASE r.kind = "toggle"
          <6>1. r.new \in Mcp!Row BY <1>1, <5>1 DEF McpFormed, Mcp!Row
          <6>2. r.new.transport # Nil BY <6>1 DEF Mcp!Row, Mcp!McpAssumption
          <6> QED BY <3>4, <3>6, <5>1, <6>2 DEF Wanted
        <5>2. CASE r.kind = "delete" BY <1>1, <3>4, <5>2 DEF McpFormed
        <5>3. CASE r.kind = "sync"
          <6>1. r.new \in Mcp!Row BY <1>1, <1>2, <5>3 DEF McpFormed
          <6>2. r.new.transport # Nil BY <6>1 DEF Mcp!Row, Mcp!McpAssumption
          <6> QED BY <3>6, <5>3, <6>2 DEF Wanted
        <5>4. CASE r.kind = "remove" BY <1>1, <3>1, <3>4, <5>4 DEF McpFormed
        <5> QED BY <1>2, <5>1, <5>2, <5>3, <5>4
      <4>2. Mcp!Enabled(n) = {} BY <3>3, <4>1 DEF Mcp!Enabled, Mcp!Named
      <4> QED BY <2>0, <3>2, <3>6, <4>2 DEF CopyFollows
    <3> QED BY <3>5, <3>6
  <2>2. CASE a # g \/ n # t
    <3>1. /\ <<a, n>> \notin doubt /\ config'[a][n] = config[a][n] BY <1>4, <2>2
    <3>2. CopyFollows(a, n) \/ \E d \in Pair : Comes(d, a, n) BY <3>1 DEF Copied
    <3>3. CopyFollows(a, n) => CopyFollows(a, n)' BY <1>4, <2>0, <3>1 DEF CopyFollows
    <3>4. ASSUME NEW d \in Pair, Comes(d, a, n) PROVE Comes(d, a, n)'
      <4>1. CASE d # c BY <1>3, <3>4, <4>1 DEF Comes
      <4>2. CASE d = c
        <5>1. r.clean /\ n = t /\ g <= a BY <1>1, <1>4, <3>4, <4>2 DEF Comes, g
        <5>2. g < Count /\ g + 1 <= a BY <1>1, <1>2, <2>2, <5>1 DEF Mcp!Agents
        <5> QED BY <1>1, <1>3, <4>2, <5>1, <5>2 DEF Comes
      <4> QED BY <4>1, <4>2
    <3> QED BY <3>2, <3>3, <3>4
  <2> QED BY <2>1, <2>2
<1> QED BY <1>9, <1>10, <1>11, <1>12, <1>13, <1>14, <1>15, <1>16, <1>17, <1>18

\* The reading of the configuration of an agent keeps the invariant.
LEMMA LookKeeps ==
  ASSUME Mcp!McpAssumption, McpIInv, NEW c \in Pair, Mcp!Look(c) PROVE McpIInv'
<1> USE DEF McpIInv
<1> DEFINE r == mcpCall[c]
<1>1. /\ mcpCall[c] # Nil /\ r.pc = "look" /\ r \in Mcp!CallState /\ McpFormed(r)
      /\ UNCHANGED <<mcpRows, added, config, mcpUsed>>
      /\ r.agent \in Mcp!Agents /\ syncLock = c /\ r.target \in Servers
  BY DEF Mcp!Look, Mcp!At, McpShape, Mcp!TypeOK, Mcp!table, Holds, Mcp!CallState
<1>2. CASE Mcp!Looks(r.agent, config[r.agent][r.target], r.copy)
  <2>1. /\ Mcp!Advance(c)
        /\ doubt' = IF r.clean THEN doubt \ {<<r.agent, r.target>>} ELSE doubt
    BY <1>2 DEF Mcp!Look, Mcp!Done, Mcp!Copy
  <2>2. /\ mcpUsed' \in [Mcp!Kinds -> Nat] /\ config' \in [Mcp!Agents -> Mcp!Config]
        /\ doubt' \subseteq Mcp!Agents \X Servers
    BY <1>1, <2>1 DEF Mcp!TypeOK
  <2>3. \A a \in Mcp!Agents, n \in Servers :
          a # r.agent \/ n # r.target =>
            /\ config'[a][n] = config[a][n]
            /\ <<a, n>> \in doubt' <=> <<a, n>> \in doubt
    BY <1>1, <2>1
  <2>4. ~r.clean => doubt \subseteq doubt' BY <2>1
  <2>5. CopyFits(r.agent, config'[r.agent][r.target], r.copy) BY <1>1, <1>2 DEF CopyFits
  <2>6. mcpCall[c] # Nil /\ r.pc \in {"look", "put"} /\ UNCHANGED <<mcpRows, added>> BY <1>1
  <2> QED BY <2>1, <2>2, <2>3, <2>4, <2>5, <2>6, AdvanceKeeps
<1>3. CASE ~Mcp!Looks(r.agent, config[r.agent][r.target], r.copy)
  <2> DEFINE new == [r EXCEPT !.pc = "put", !.seen = config[r.agent]]
  <2>1. mcpCall' = [mcpCall EXCEPT ![c] = new] /\ UNCHANGED <<syncLock, doubt>>
    <3>1. /\ mcpCall' = [mcpCall EXCEPT ![c].pc = "put", ![c].seen = config[mcpCall[c].agent]]
          /\ UNCHANGED <<syncLock, doubt>>
      BY <1>3 DEF Mcp!Look
    <3> QED BY <3>1 DEF Mcp!TypeOK
  <2>2. /\ new \in Mcp!CallState /\ new.kind = r.kind /\ new.id = r.id /\ new.names = r.names
        /\ new.old = r.old /\ new.new = r.new /\ new.pc = "put" /\ new.agent = r.agent
        /\ new.clean = r.clean /\ new.target = r.target /\ new.copy = r.copy
        /\ new.seen = config[r.agent]
    BY <1>1 DEF Mcp!CallState, Mcp!TypeOK
  <2>3. mcpCall[c] = r /\ r # Nil BY <1>1
  <2> HIDE DEF new, r
  <2>4. /\ mcpCall' \in [Pair -> Mcp!CallState \cup {Nil}] /\ mcpCall'[c] = new /\ new # Nil
        /\ \A d \in Pair \ {c} : mcpCall'[d] = mcpCall[d]
    BY <2>1, <2>2 DEF Mcp!TypeOK, Mcp!McpAssumption
  <2>5. McpFormed(new) BY <1>1, <2>2 DEF McpFormed
  <2>6. Mcp!TypeOK' /\ McpShape' BY <1>1, <2>1, <2>4, <2>5 DEF Mcp!TypeOK, McpShape
  <2>7. Unique' /\ McpBounded' BY <1>1, <2>2, <2>3, <2>4 DEF Unique, McpBounded
  <2>8. McpApart' BY <2>2, <2>3, <2>4 DEF McpApart, Meet
  <2>9. Doubtful' /\ Called'
    BY <1>1, <2>1, <2>2, <2>3, <2>4 DEF Doubtful, Called, InDoubt
  <2>10. CleanKnows' BY <1>1, <2>2, <2>3, <2>4 DEF CleanKnows
  <2>11. Holds'
    <3>1. Wanted(new) = Wanted(r) BY <2>2 DEF Wanted
    <3>2. /\ r.clean => r.names = {r.target} /\ r.copy = Wanted(r)
          /\ ~r.clean => InDoubt(r.target)
      BY <1>1, <2>3 DEF Holds
    <3>3. \A d \in Pair \ {c} : mcpCall[d] # Nil => mcpCall[d].pc \notin {"look", "put"}
      BY <1>1 DEF Holds
    <3> QED BY <1>1, <2>1, <2>2, <2>4, <3>1, <3>2, <3>3 DEF Holds, InDoubt
  <2>12. Copied'
    <3> SUFFICES ASSUME NEW a \in Mcp!Agents, NEW n \in Servers
                 PROVE  <<a, n>> \in doubt' \/ CopyFollows(a, n)' \/ \E d \in Pair : Comes(d, a, n)'
      BY DEF Copied, Mcp!Agents
    <3>1. <<a, n>> \in doubt \/ CopyFollows(a, n) \/ \E d \in Pair : Comes(d, a, n) BY DEF Copied
    <3>2. CopyFollows(a, n) => CopyFollows(a, n)' BY <1>1 DEF CopyFollows, Mcp!Enabled, Mcp!Named
    <3>3. \A d \in Pair : Comes(d, a, n) => Comes(d, a, n)'
      BY <1>1, <2>2, <2>3, <2>4 DEF Comes
    <3> QED BY <2>1, <3>1, <3>2, <3>3
  <2> QED BY <2>6, <2>7, <2>8, <2>9, <2>10, <2>11, <2>12
<1> QED BY <1>2, <1>3

\* What an agent is given is something it can have.
LEMMA GivenType ==
  ASSUME Mcp!McpAssumption, NEW a \in Mcp!Agents, NEW t \in Transports \cup {Nil}
  PROVE  Mcp!Given(a, t) \in Mcp!Transport \cup {Nil}
<1>1. CASE t = Nil BY <1>1 DEF Mcp!Given
<1>2. CASE t # Nil
  <2>1. t \in Mcp!Transport BY <1>2 DEF Mcp!McpAssumption
  <2>2. Mcp!Stored(Adapter[a], t) \in Mcp!Transport
    BY <2>1 DEF Mcp!Stored, Mcp!Transport
  <2> QED BY <1>2, <2>2 DEF Mcp!Given
<1> QED BY <1>1, <1>2

\* The writing of the configuration of an agent keeps the invariant.
LEMMA PutKeeps ==
  ASSUME Mcp!McpAssumption, McpIInv, NEW c \in Pair, Mcp!Put(c) PROVE McpIInv'
<1> USE DEF McpIInv
<1> DEFINE r == mcpCall[c]
           given == Mcp!Given(r.agent, r.copy)
           written == [r.seen EXCEPT ![r.target] = given]
<1>1. /\ mcpCall[c] # Nil /\ r.pc = "put" /\ r \in Mcp!CallState
           /\ UNCHANGED <<mcpRows, added, mcpUsed>>
      /\ r.agent \in Mcp!Agents /\ r.target \in Servers /\ r.copy \in Transports \cup {Nil}
      /\ r.seen = config[r.agent] /\ r.seen \in Mcp!Config
  BY DEF Mcp!Put, Mcp!At, Mcp!TypeOK, Mcp!table, Holds, Mcp!CallState
<1>2. /\ Mcp!Advance(c)
      /\ doubt' = IF r.clean THEN doubt \ {<<r.agent, r.target>>} ELSE doubt
      /\ config' = [config EXCEPT ![r.agent] = written]
  BY DEF Mcp!Put, Mcp!Done, Mcp!Copy
<1>3. /\ written \in Mcp!Config /\ written[r.target] = given
      /\ \A n \in Servers : n # r.target => written[n] = config[r.agent][n]
  <2>1. given \in Mcp!Transport \cup {Nil} BY <1>1, GivenType
  <2> HIDE DEF given
  <2> QED BY <1>1, <2>1 DEF Mcp!Config
<1> HIDE DEF written
<1>4. /\ mcpUsed' \in [Mcp!Kinds -> Nat] /\ config' \in [Mcp!Agents -> Mcp!Config]
      /\ doubt' \subseteq Mcp!Agents \X Servers
  BY <1>1, <1>2, <1>3 DEF Mcp!TypeOK
<1>5. \A a \in Mcp!Agents, n \in Servers :
        a # r.agent \/ n # r.target =>
          /\ config'[a][n] = config[a][n]
          /\ <<a, n>> \in doubt' <=> <<a, n>> \in doubt
  BY <1>1, <1>2, <1>3 DEF Mcp!TypeOK
<1>6. config'[r.agent][r.target] = given BY <1>1, <1>2, <1>3 DEF Mcp!TypeOK
<1>8. CopyFits(r.agent, config'[r.agent][r.target], r.copy) BY <1>6 DEF CopyFits
<1>7. ~r.clean => doubt \subseteq doubt' BY <1>2
<1> QED BY <1>1, <1>2, <1>4, <1>5, <1>7, <1>8, AdvanceKeeps

\* An adapter that fails keeps the invariant.
LEMMA McpFailKeeps ==
  ASSUME Mcp!McpAssumption, McpIInv, NEW c \in Pair, Mcp!Fail(c) PROVE McpIInv'
<1> USE DEF McpIInv
<1> DEFINE r == mcpCall[c]
           removed == [r.seen EXCEPT ![r.target] = Nil]
<1>1. /\ mcpCall[c] # Nil /\ r.pc \in {"look", "put"} /\ r \in Mcp!CallState
           /\ UNCHANGED <<mcpRows, added>>
      /\ r.agent \in Mcp!Agents /\ r.target \in Servers
      /\ r.pc = "put" => r.seen = config[r.agent]
      /\ r.seen \in Mcp!Config
  BY DEF Mcp!Fail, Mcp!At, Mcp!TypeOK, Mcp!table, Holds, Mcp!CallState
<1>2. /\ Mcp!Advance(c) /\ Mcp!Spend("fail")
      /\ doubt' = doubt \cup {<<r.agent, r.target>>}
      /\ \/ config' = config
         \/ r.pc = "put" /\ config' = [config EXCEPT ![r.agent] = removed]
  BY DEF Mcp!Fail, Mcp!Copy
<1>3. /\ removed \in Mcp!Config
      /\ r.pc = "put" => \A n \in Servers : n # r.target => removed[n] = config[r.agent][n]
  BY <1>1 DEF Mcp!Config
<1> HIDE DEF removed
<1>4. mcpUsed' \in [Mcp!Kinds -> Nat]
  <2>1. "fail" \in Mcp!Kinds BY DEF Mcp!Kinds
  <2> QED BY <1>2, <2>1, McpSpent
<1>5. config' \in [Mcp!Agents -> Mcp!Config] /\ doubt' \subseteq Mcp!Agents \X Servers
  BY <1>1, <1>2, <1>3 DEF Mcp!TypeOK
<1>6. \A a \in Mcp!Agents, n \in Servers :
        a # r.agent \/ n # r.target =>
          /\ config'[a][n] = config[a][n]
          /\ <<a, n>> \in doubt' <=> <<a, n>> \in doubt
  BY <1>1, <1>2, <1>3 DEF Mcp!TypeOK
<1>7. doubt \subseteq doubt' /\ <<r.agent, r.target>> \in doubt' BY <1>2
<1> QED BY <1>1, <1>2, <1>4, <1>5, <1>6, <1>7, AdvanceKeeps

\* A crash keeps the invariant.
LEMMA McpCrashKeeps == ASSUME Mcp!McpAssumption, McpIInv, Mcp!Crash PROVE McpIInv'
<1> USE DEF McpIInv
<1> DEFINE open == {d \in Pair : mcpCall[d] # Nil}
           theirs == UNION {mcpCall[d].names : d \in open}
<1>1. /\ \A c \in Pair : mcpCall'[c] = Nil
      /\ mcpCall' \in [Pair -> Mcp!CallState \cup {Nil}] /\ syncLock' = Nil
      /\ UNCHANGED <<mcpRows, added, config>> /\ Mcp!Spend("crash")
      /\ doubt' = doubt \cup (Mcp!Agents \X theirs)
  BY DEF Mcp!Crash, Mcp!table
<1>2. theirs \subseteq Servers
  <2>1. \A d \in open : mcpCall[d].names \subseteq Servers BY DEF Mcp!TypeOK, Mcp!CallState
  <2> HIDE DEF open
  <2> QED BY <2>1
<1>3. \A d \in Pair : mcpCall[d] # Nil => mcpCall[d].names \subseteq theirs OBVIOUS
<1> HIDE DEF theirs
<1>4. mcpUsed' \in [Mcp!Kinds -> Nat]
  <2>1. "crash" \in Mcp!Kinds BY DEF Mcp!Kinds
  <2> QED BY <1>1, <2>1, McpSpent
<1>5. Mcp!TypeOK' BY <1>1, <1>2, <1>4 DEF Mcp!TypeOK
<1>6. McpShape' /\ Unique' /\ McpApart' /\ Doubtful' BY <1>1 DEF McpShape, Unique, McpApart, Doubtful
<1>7. McpBounded' /\ Called' /\ CleanKnows' /\ Holds' BY <1>1 DEF McpBounded, Called, CleanKnows, Holds
<1>8. Copied'
  <2> SUFFICES ASSUME NEW a \in Mcp!Agents, NEW n \in Servers, <<a, n>> \notin doubt'
               PROVE  CopyFollows(a, n)'
    BY DEF Copied, Mcp!Agents
  <2>1. <<a, n>> \notin doubt /\ n \notin theirs BY <1>1
  <2>2. CopyFollows(a, n) \/ \E d \in Pair : Comes(d, a, n) BY <2>1 DEF Copied
  <2>3. \A d \in Pair : ~Comes(d, a, n) BY <1>3, <2>1 DEF Comes
  <2>4. CopyFollows(a, n) BY <2>2, <2>3
  <2> QED BY <1>1, <2>4 DEF CopyFollows, Mcp!Enabled, Mcp!Named
<1> QED BY <1>5, <1>6, <1>7, <1>8

\* Every step of the servers keeps the invariant.
LEMMA McpInductive == ASSUME Mcp!McpAssumption, McpIInv, [Mcp!Next]_(Mcp!vars) PROVE McpIInv'
<1>1. CASE UNCHANGED Mcp!vars
  <2>1. UNCHANGED <<mcpRows, added, config, syncLock, mcpCall, mcpUsed, doubt>> BY <1>1 DEF Mcp!vars
  <2>2. Mcp!TypeOK' /\ McpShape' /\ Unique' /\ McpBounded'
    BY <2>1 DEF McpIInv, Mcp!TypeOK, McpShape, Unique, McpBounded
  <2>3. McpApart' /\ Doubtful' /\ Called' BY <2>1 DEF McpIInv, McpApart, Doubtful, Called, InDoubt
  <2>4. CleanKnows' /\ Holds' BY <2>1 DEF McpIInv, CleanKnows, Holds, InDoubt
  <2>5. Copied' BY <2>1 DEF McpIInv, Copied, CopyFollows, Mcp!Enabled, Mcp!Named, Comes
  <2> QED BY <2>2, <2>3, <2>4, <2>5 DEF McpIInv
<1>2. ASSUME NEW c \in Pair, Mcp!Request(c) PROVE McpIInv' BY <1>2, RequestKeeps
<1>3. ASSUME NEW c \in Pair, Mcp!WriteFails(c) PROVE McpIInv' BY <1>3, WriteFailsKeeps
<1>4. ASSUME NEW c \in Pair, Mcp!Write(c) PROVE McpIInv' BY <1>4, McpWriteKeeps
<1>5. ASSUME NEW c \in Pair, Mcp!Lock(c) PROVE McpIInv' BY <1>5, McpLockKeeps
<1>6. ASSUME NEW c \in Pair, Mcp!Look(c) PROVE McpIInv' BY <1>6, LookKeeps
<1>7. ASSUME NEW c \in Pair, Mcp!Put(c) PROVE McpIInv' BY <1>7, PutKeeps
<1>8. ASSUME NEW c \in Pair, Mcp!Fail(c) PROVE McpIInv' BY <1>8, McpFailKeeps
<1>9. CASE Mcp!Crash BY <1>9, McpCrashKeeps
<1> QED BY <1>1, <1>2, <1>3, <1>4, <1>5, <1>6, <1>7, <1>8, <1>9 DEF Mcp!Next

\* The invariant says of a server nobody deals with what is promised.
LEMMA Enough == ASSUME Mcp!McpAssumption, McpIInv PROVE Mcp!TypeOK /\ Mcp!CopiesFollowRows
<1> SUFFICES ASSUME NEW n \in Servers, \A c \in Pair : mcpCall[c] = Nil \/ n \notin mcpCall[c].names,
                    NEW a \in Mcp!Agents, <<a, n>> \notin doubt
             PROVE  CopyFits(a, config[a][n],
                             IF Mcp!Enabled(n) = {} THEN Nil
                             ELSE mcpRows[CHOOSE i \in Mcp!Enabled(n) : TRUE].transport)
  BY DEF McpIInv, Mcp!CopiesFollowRows, CopyFits
<1>1. \A c \in Pair : ~Comes(c, a, n) BY DEF Comes
<1>2. CopyFollows(a, n) BY <1>1 DEF McpIInv, Copied
<1>3. Mcp!Enabled(n) # {} => (CHOOSE i \in Mcp!Enabled(n) : TRUE) \in Mcp!Enabled(n) OBVIOUS
<1> QED BY <1>2, <1>3 DEF CopyFollows

\* The servers by themselves have copies that follow their rows.
LEMMA Followed == ASSUME Mcp!McpAssumption PROVE Mcp!Spec => [](Mcp!TypeOK /\ Mcp!CopiesFollowRows)
<1>1. Mcp!Init => McpIInv BY McpInitial
<1>2. McpIInv /\ [Mcp!Next]_(Mcp!vars) => McpIInv' BY McpInductive
<1>3. McpIInv => Mcp!TypeOK /\ Mcp!CopiesFollowRows BY Enough
<1> QED BY <1>1, <1>2, <1>3, PTL DEF Mcp!Spec

\* The group implements the service.
LEMMA McpImplemented == CatalogSpec => Mcp!Spec
<1>1. CatalogInit => Mcp!Init BY DEF CatalogInit
<1>2. [CatalogNext]_catalogVars => [Mcp!Next]_(Mcp!vars)
  BY DEF CatalogNext, catalogVars, mcpVars, Mcp!vars
<1> QED BY <1>1, <1>2, PTL DEF CatalogSpec, Mcp!Spec

\* For any number of servers, requests and agents, of whatever kind each: whom
\* no request has to do with has a copy in every agent exactly when it is on,
\* and the copy is what the agent's adapter makes of the row or looks like it to
\* the adapter, as far as nothing put it in doubt (sync_service.rs, adapters).
THEOREM CopiesFollow == ASSUME CatalogAssumption PROVE CatalogSpec => []CopiesFollowRows
<1>1. Mcp!McpAssumption BY DEF CatalogAssumption
<1>2. Mcp!Spec => [](Mcp!TypeOK /\ Mcp!CopiesFollowRows)
  BY <1>1, Followed
<1>3. Mcp!CopiesFollowRows => CopiesFollowRows BY DEF CopiesFollowRows
<1> QED BY <1>2, <1>3, McpImplemented, PTL

-----------------------------------------------------------------------------
(* The extensions: Extensions.                                             *)

\* A toggle between the registry and the store.
Toggling(c) == Extension!At(c, "set")
\* A reload that has read the store and is not done.
Hooking(c) == Extension!At(c, "activate") \/ Extension!At(c, "commit")
\* How a record has an extension switched: on, unless it says otherwise.
On(record, e) == record[e] # Nil => record[e].enabled

\* A program that is down has forgotten all but the file, and the user goes by
\* that.
DownIsFresh ==
  ~extensionUp =>
    /\ ~scanned /\ ~toggleCrossed /\ ~permit /\ ~sleeping /\ ~unsaved
    /\ \A c \in Pair : extensionCall[c] = Nil
    /\ registry = Extension!Nothing /\ statesStore = Extension!Nothing
    /\ \A e \in Exts : wish[e] = On(statesFile, e)

\* The first scan was made: without it there is nothing to switch.
Serving == extensionUp /\ scanned

\* The file is what the store is, or the writer has yet to come.
FileFollows == Serving /\ ~permit /\ ~sleeping /\ ~unsaved => statesStore = statesFile

\* Nothing crossed: one reload at a time and no toggle beside it, one toggle of
\* an extension at a time.
ExtensionApart ==
  Serving /\ ~toggleCrossed =>
    \A c, d \in Pair : c # d =>
      /\ ~(Hooking(c) /\ (Hooking(d) \/ Toggling(d)))
      /\ ~(Toggling(c) /\ Toggling(d) /\ extensionCall[c].ext = extensionCall[d].ext)

\* A toggle carries what the registry says; without a reload the registry is as
\* the user wants it, and so is the store but for the toggles under way.
TogglesFollow ==
  Serving /\ ~toggleCrossed =>
    /\ \A c \in Pair : Toggling(c) => extensionCall[c].state = registry[extensionCall[c].ext]
    /\ (\A c \in Pair : ~Hooking(c)) =>
         \A e \in Exts : /\ wish[e] = On(registry, e)
                         /\ registry[e] = statesStore[e] \/ \E c \in Pair : Toggling(c)
                              /\ extensionCall[c].ext = e

\* A reload carries what the user wants, and what it has stored.
ReloadsFollow ==
  Serving /\ ~toggleCrossed =>
    \A c \in Pair : Hooking(c) =>
      /\ \A e \in Exts : wish[e] = On(extensionCall[c].found, e)
      /\ Extension!At(c, "commit") => statesStore = extensionCall[c].found

\* The invariant.
ExtensionIInv == Extension!TypeOK /\ DownIsFresh /\ FileFollows /\ ExtensionApart /\ TogglesFollow
  /\ ReloadsFollow

\* What a request carries.
LEMMA Parts ==
  ASSUME Extension!TypeOK, NEW c \in Pair, extensionCall[c] # Nil
  PROVE  /\ extensionCall[c] \in Extension!CallState
         /\ Extension!At(c, "set")
              => extensionCall[c].ext \in Exts /\ extensionCall[c].state \in Extension!State
         /\ Hooking(c) => extensionCall[c].found \in Extension!States
  BY DEF Extension!TypeOK, Extension!CallState, Extension!At, Hooking

\* What a scan finds is switched as the record has it.
LEMMA Merged ==
  ASSUME Extension!ExtensionAssumption, Extension!TypeOK, NEW known \in BOOLEAN,
           NEW record \in Extension!States
  PROVE  /\ Extension!Merge(known, record) \in Extension!States
         /\ \A e \in Exts : Extension!Merge(known, record)[e] # Nil
              => Extension!Merge(known, record)[e].enabled = On(record, e)
<1> DEFINE f == Extension!Merge(known, record)
<1>1. ASSUME NEW e \in Exts, ~(~known \/ disk[e] = 0)
      PROVE  [enabled |-> record[e] # Nil => record[e].enabled, version |-> disk[e]] \in Extension!State
  <2>1. disk[e] \in Extension!Versions
    BY <1>1 DEF Extension!TypeOK, Extension!Versions, Extension!ExtensionAssumption
  <2>2. record[e] # Nil => record[e].enabled \in BOOLEAN BY DEF Extension!States, Extension!State
  <2>3. (record[e] # Nil => record[e].enabled) \in BOOLEAN BY <2>2
  <2> QED BY <2>1, <2>3 DEF Extension!State
<1>2. f \in Extension!States BY <1>1 DEF Extension!Merge, Extension!States
<1>3. ASSUME NEW e \in Exts, f[e] # Nil PROVE f[e].enabled = On(record, e)
  <2>1. f[e] = [enabled |-> record[e] # Nil => record[e].enabled, version |-> disk[e]]
    BY <1>3 DEF Extension!Merge
  <2> QED BY <2>1 DEF On
<1> QED BY <1>2, <1>3

\* No extension is on record.
LEMMA NothingIs == Extension!Nothing \in Extension!States /\ \A e \in Exts : Extension!Nothing[e] = Nil
  BY DEF Extension!Nothing, Extension!States

\* The counts of events stay counts.
LEMMA Spending == ASSUME Extension!TypeOK, NEW k \in Extension!Kinds, Extension!Spend(k)
  PROVE extensionUsed' \in [Extension!Kinds -> Nat]
  BY DEF Extension!Spend, Extension!TypeOK

\* At the start nothing is up.
LEMMA ExtensionInitial == ASSUME Extension!ExtensionAssumption, Extension!Init PROVE ExtensionIInv
<1>1. Extension!TypeOK
  <2>1. disk \in [Exts -> 0 .. MaxVersion] BY DEF Extension!Init, Extension!ExtensionAssumption
  <2> QED BY <2>1, NothingIs DEF Extension!Init, Extension!TypeOK
<1>2. DownIsFresh
  <2>1. \A e \in Exts : wish[e] = On(statesFile, e) BY NothingIs DEF Extension!Init, On
  <2> QED BY <2>1 DEF Extension!Init, DownIsFresh
<1> QED
  BY <1>1, <1>2 DEF ExtensionIInv, Extension!Init, FileFollows, ExtensionApart, TogglesFollow,
     ReloadsFollow, Serving

\* A start takes the switches from the file.
LEMMA StartKeeps == ASSUME Extension!ExtensionAssumption, ExtensionIInv, Extension!Start
  PROVE ExtensionIInv'
<1> DEFINE found == Extension!Merge(TRUE, statesFile)
<1>1. Extension!TypeOK /\ DownIsFresh BY DEF ExtensionIInv
<1>2. found \in Extension!States /\ \A e \in Exts : found[e] # Nil
        => found[e].enabled = On(statesFile, e)
  BY <1>1, Merged DEF Extension!TypeOK
<1>3. registry' = found /\ statesStore' = found /\ wish' = [e \in Exts |-> found[e] = Nil \/ wish[e]]
  BY DEF Extension!Start
<1> HIDE DEF found
<1>4. /\ scanned' /\ permit' /\ extensionUp' /\ ~toggleCrossed'
      /\ \A c \in Pair : extensionCall'[c] = Nil
  BY <1>1 DEF Extension!Start, DownIsFresh
<1>5. \A e \in Exts : wish'[e] = On(found, e)
  <2> TAKE e \in Exts
  <2>1. wish[e] = On(statesFile, e) /\ wish[e] \in BOOLEAN
    BY <1>1 DEF Extension!Start, DownIsFresh, Extension!TypeOK
  <2>2. CASE found[e] = Nil BY <2>2, <1>3 DEF On
  <2>3. CASE found[e] # Nil BY <2>1, <2>3, <1>2, <1>3 DEF On
  <2> QED BY <2>2, <2>3
<1>6. Extension!TypeOK'
  <2>1. wish' \in [Exts -> BOOLEAN] BY <1>1, <1>3 DEF Extension!TypeOK
  <2> QED BY <1>1, <1>2, <1>3, <2>1 DEF Extension!Start, Extension!TypeOK, Extension!disks
<1>7. TogglesFollow' /\ ReloadsFollow' /\ ExtensionApart'
  BY <1>3, <1>4, <1>5 DEF TogglesFollow, ReloadsFollow, ExtensionApart, Toggling, Hooking,
     Extension!At, On
<1> QED BY <1>4, <1>6, <1>7 DEF ExtensionIInv, DownIsFresh, FileFollows

\* A stop, and a start that cannot read the file, keep the invariant.
LEMMA ExtensionStopKeeps ==
  ASSUME Extension!ExtensionAssumption, ExtensionIInv, Extension!StartUnread \/ Extension!Stop
  PROVE ExtensionIInv'
<1>1. Extension!TypeOK /\ DownIsFresh BY DEF ExtensionIInv
<1>2. extensionUsed' \in [Extension!Kinds -> Nat]
  BY <1>1, Spending DEF Extension!StartUnread, Extension!Stop, Extension!Kinds
<1>3. CASE Extension!StartUnread
  <2>1. Extension!TypeOK'
    BY <1>1, <1>2, <1>3 DEF Extension!StartUnread, Extension!TypeOK, Extension!disks, Extension!writer,
       Extension!history
  <2>2. extensionUp' /\ ~scanned' BY <1>1, <1>3 DEF Extension!StartUnread, DownIsFresh
  <2> QED
    BY <2>1, <2>2 DEF ExtensionIInv, DownIsFresh, FileFollows, ExtensionApart, TogglesFollow,
       ReloadsFollow, Serving
<1>4. CASE Extension!Stop
  <2>1. \A e \in Exts : (statesFile[e] # Nil => statesFile[e].enabled) \in BOOLEAN OBVIOUS
  <2>2. wish' \in [Exts -> BOOLEAN] BY <2>1, <1>4 DEF Extension!Stop
  <2>3. Extension!TypeOK'
    BY <1>1, <1>2, <1>4, <2>2, NothingIs DEF Extension!Stop, Extension!TypeOK, Extension!disks
  <2>4. \A e \in Exts : wish'[e] = On(statesFile', e) BY <1>4 DEF Extension!Stop, On, Extension!disks
  <2>5. DownIsFresh' BY <1>4, <2>4 DEF Extension!Stop, DownIsFresh, On
  <2>6. ~extensionUp' BY <1>4 DEF Extension!Stop
  <2> QED
    BY <2>3, <2>5, <2>6 DEF ExtensionIInv, FileFollows, ExtensionApart, TogglesFollow, ReloadsFollow,
       Serving
<1> QED BY <1>3, <1>4

\* A toggle beside a reload or its twin counts as crossed; another one is the
\* only one of its extension.
LEMMA ToggleKeeps ==
  ASSUME Extension!ExtensionAssumption, ExtensionIInv, NEW c \in Pair,
           NEW e \in Exts, Extension!Toggle(c, e)
    PROVE ExtensionIInv'
<1> DEFINE state == [registry[e] EXCEPT !.enabled = ~@]
           new == [pc |-> "set", ext |-> e, state |-> state]
<1>1. Extension!TypeOK /\ ExtensionApart /\ TogglesFollow /\ ReloadsFollow /\ FileFollows
  BY DEF ExtensionIInv
<1>2. extensionUsed' \in [Extension!Kinds -> Nat]
  BY <1>1, Spending DEF Extension!Toggle, Extension!Kinds
<1>3. state \in Extension!State /\ state.enabled \in BOOLEAN
  BY <1>1 DEF Extension!Toggle, Extension!TypeOK, Extension!States, Extension!State
<1>3a. new \in Extension!CallState /\ new.pc = "set" /\ new.ext = e /\ new.state = state
  BY <1>3 DEF Extension!CallState
<1>4. /\ registry' = [registry EXCEPT ![e] = state]
      /\ extensionCall' = [extensionCall EXCEPT ![c] = new]
      /\ wish' = [wish EXCEPT ![e] = state.enabled]
      /\ toggleCrossed' = (toggleCrossed \/ Extension!Reloading
           \/ \E d \in Pair : Extension!At(d, "set") /\ extensionCall[d].ext = e)
      /\ extensionUp /\ extensionCall[c] = Nil
      /\ UNCHANGED <<disk, statesFile, statesStore, scanned, permit, sleeping, extensionUp, unsaved>>
  BY DEF Extension!Toggle, Extension!disks, Extension!writer
<1> HIDE DEF new, state
<1>5. state # Nil BY <1>3 DEF Extension!ExtensionAssumption
<1>6. Extension!TypeOK'
  <2>1. registry' \in Extension!States BY <1>1, <1>3, <1>4 DEF Extension!TypeOK, Extension!States
  <2>2. extensionCall' \in [Pair -> Extension!CallState \cup {Nil}]
    BY <1>1, <1>3a, <1>4 DEF Extension!TypeOK
  <2>3. wish' \in [Exts -> BOOLEAN] BY <1>1, <1>3, <1>4 DEF Extension!TypeOK
  <2>4. toggleCrossed' \in BOOLEAN BY <1>1, <1>4 DEF Extension!TypeOK
  <2> QED BY <1>1, <1>2, <1>4, <2>1, <2>2, <2>3, <2>4 DEF Extension!TypeOK
<1>7. ASSUME NEW d \in Pair
      PROVE  /\ Hooking(d)' <=> d # c /\ Hooking(d)
             /\ Extension!At(d, "commit")' <=> d # c /\ Extension!At(d, "commit")
             /\ Toggling(d)' <=> d = c \/ Toggling(d)
             /\ d # c => extensionCall'[d] = extensionCall[d]
             /\ extensionCall'[c] = new
  BY <1>1, <1>3a, <1>4 DEF Hooking, Toggling, Extension!At, Extension!TypeOK,
     Extension!ExtensionAssumption
<1>8. ASSUME Serving', ~toggleCrossed'
      PROVE  /\ Serving /\ ~toggleCrossed
             /\ \A d \in Pair : ~Hooking(d) /\ ~Hooking(d)' /\ ~(Toggling(d)
                  /\ extensionCall[d].ext = e)
  <2>1. Serving /\ ~toggleCrossed /\ ~Extension!Reloading BY <1>8, <1>4 DEF Serving
  <2>2. \A d \in Pair : ~Hooking(d) BY <2>1 DEF Extension!Reloading, Hooking
  <2> QED BY <1>4, <1>7, <1>8, <2>1, <2>2 DEF Toggling
<1>9. ExtensionApart' BY <1>1, <1>3a, <1>7, <1>8 DEF ExtensionApart
<1>10. ReloadsFollow' BY <1>8 DEF ReloadsFollow
<1>11. TogglesFollow'
  <2> SUFFICES ASSUME Serving', ~toggleCrossed'
      PROVE  /\ \A d \in Pair : Toggling(d)'
                  => extensionCall'[d].state = registry'[extensionCall'[d].ext]
             /\ \A f \in Exts :
                  /\ wish'[f] = On(registry', f)
                  /\ registry'[f] = statesStore'[f] \/ \E d \in Pair : Toggling(d)'
                       /\ extensionCall'[d].ext = f
    BY DEF TogglesFollow, On
  <2>1. \A d \in Pair : Toggling(d)' => extensionCall'[d].state = registry'[extensionCall'[d].ext]
    <3> SUFFICES ASSUME NEW d \in Pair, Toggling(d)'
      PROVE extensionCall'[d].state = registry'[extensionCall'[d].ext]
      OBVIOUS
    <3>1. CASE d = c BY <3>1, <1>1, <1>3a, <1>4, <1>7 DEF Extension!TypeOK, Extension!States
    <3>2. CASE d # c
      <4>1. Toggling(d) /\ extensionCall[d].ext # e
              /\ extensionCall[d].state = registry[extensionCall[d].ext]
                   /\ extensionCall'[d] = extensionCall[d]
        BY <3>2, <1>1, <1>7, <1>8 DEF TogglesFollow
      <4> QED BY <4>1, <1>1, <1>4 DEF Extension!TypeOK, Extension!States
    <3> QED BY <3>1, <3>2
  <2>2. ASSUME NEW f \in Exts
        PROVE  /\ wish'[f] = On(registry', f)
               /\ registry'[f] = statesStore'[f] \/ \E d \in Pair : Toggling(d)'
                    /\ extensionCall'[d].ext = f
    <3>1. CASE f = e
      <4>1. registry'[f] = state /\ wish'[f] = state.enabled
        BY <3>1, <1>1, <1>4 DEF Extension!TypeOK, Extension!States
      <4>2. wish'[f] = On(registry', f) BY <4>1, <1>5, <1>3 DEF On
      <4> QED BY <4>2, <3>1, <1>3a, <1>7
    <3>2. CASE f # e
      <4>1. registry'[f] = registry[f] /\ wish'[f] = wish[f] /\ statesStore'[f] = statesStore[f]
        BY <3>2, <1>1, <1>4 DEF Extension!TypeOK, Extension!States
      <4>2. wish[f] = On(registry, f)
              /\ (registry[f] = statesStore[f] \/ \E d \in Pair : Toggling(d)
                   /\ extensionCall[d].ext = f)
        BY <1>1, <1>8 DEF TogglesFollow
      <4>3. wish'[f] = On(registry', f) BY <4>1, <4>2 DEF On
      <4>4. ASSUME NEW d \in Pair, Toggling(d), extensionCall[d].ext = f
        PROVE Toggling(d)' /\ extensionCall'[d].ext = f
        <5>1. d # c BY <4>4, <1>4 DEF Toggling, Extension!At
        <5> QED BY <4>4, <5>1, <1>7
      <4> QED BY <4>1, <4>2, <4>3, <4>4
    <3> QED BY <3>1, <3>2
  <2> QED BY <2>1, <2>2
<1>12. FileFollows' BY <1>1, <1>4 DEF FileFollows, Serving
<1>13. DownIsFresh' BY <1>4 DEF DownIsFresh
<1> QED BY <1>6, <1>9, <1>10, <1>11, <1>12, <1>13 DEF ExtensionIInv

\* The store takes over what the registry has.
LEMMA SetKeeps == ASSUME Extension!ExtensionAssumption, ExtensionIInv, NEW c \in Pair, Extension!Set(c)
  PROVE ExtensionIInv'
<1> DEFINE e == extensionCall[c].ext
           state == extensionCall[c].state
<1>1. Extension!TypeOK /\ ExtensionApart /\ TogglesFollow /\ ReloadsFollow /\ FileFollows /\ DownIsFresh
  BY DEF ExtensionIInv
<1>2. e \in Exts /\ state \in Extension!State BY <1>1, Parts DEF Extension!Set, Extension!At
<1>3. /\ statesStore' = [statesStore EXCEPT ![e] = state] /\ permit'
      /\ extensionCall' = [extensionCall EXCEPT ![c] = Nil] /\ Toggling(c)
      /\ UNCHANGED <<disk, statesFile, registry, scanned, sleeping, extensionUp,
                     extensionUsed, wish, toggleCrossed, unsaved>>
  BY DEF Extension!Set, Extension!Over, Extension!disks, Extension!history, Toggling
<1>4. extensionUp /\ extensionUp' BY <1>1, <1>3 DEF DownIsFresh, Toggling, Extension!At
<1> HIDE DEF e, state
<1>5. Extension!TypeOK'
  <2>1. statesStore' \in Extension!States BY <1>1, <1>2, <1>3 DEF Extension!TypeOK, Extension!States
  <2>2. extensionCall' \in [Pair -> Extension!CallState \cup {Nil}] BY <1>1, <1>3 DEF Extension!TypeOK
  <2>3. permit' \in BOOLEAN BY DEF Extension!Set
  <2> QED BY <1>1, <1>3, <2>1, <2>2, <2>3 DEF Extension!TypeOK
<1>6. ASSUME NEW d \in Pair
      PROVE  /\ Hooking(d)' <=> Hooking(d)
             /\ Extension!At(d, "commit")' <=> Extension!At(d, "commit")
             /\ Toggling(d)' <=> d # c /\ Toggling(d)
             /\ d # c => extensionCall'[d] = extensionCall[d]
  <2>1. extensionCall'[d] = IF d = c THEN Nil ELSE extensionCall[d] BY <1>1, <1>3 DEF Extension!TypeOK
  <2> QED BY <1>3, <2>1 DEF Hooking, Toggling, Extension!At
<1>7. ExtensionApart' BY <1>1, <1>3, <1>6 DEF ExtensionApart, Serving
<1>8. ReloadsFollow'
  <2> SUFFICES ASSUME Serving', ~toggleCrossed', NEW d \in Pair, Hooking(d)'
               PROVE  FALSE
    BY DEF ReloadsFollow
  <2>1. Hooking(d) /\ d # c /\ Serving /\ ~toggleCrossed
    BY <1>3, <1>6 DEF Serving, Hooking, Toggling, Extension!At
  <2> QED BY <2>1, <1>1, <1>3 DEF ExtensionApart
<1>9. TogglesFollow'
  <2> SUFFICES ASSUME Serving', ~toggleCrossed'
      PROVE  /\ \A d \in Pair : Toggling(d)'
                  => extensionCall'[d].state = registry'[extensionCall'[d].ext]
             /\ (\A d \in Pair : ~Hooking(d)') => \A f \in Exts :
                  /\ wish'[f] = On(registry', f)
                  /\ registry'[f] = statesStore'[f] \/ \E d \in Pair : Toggling(d)'
                       /\ extensionCall'[d].ext = f
    BY DEF TogglesFollow, On
  <2>1. Serving /\ ~toggleCrossed BY <1>3 DEF Serving
  <2>2. \A d \in Pair : Toggling(d)' => extensionCall'[d].state = registry'[extensionCall'[d].ext]
    BY <2>1, <1>1, <1>3, <1>6 DEF TogglesFollow
  <2>3. ASSUME \A d \in Pair : ~Hooking(d)', NEW f \in Exts
        PROVE  /\ wish'[f] = On(registry', f)
               /\ registry'[f] = statesStore'[f] \/ \E d \in Pair : Toggling(d)'
                    /\ extensionCall'[d].ext = f
    <3>1. wish[f] = On(registry, f) /\ (registry[f] = statesStore[f] \/ \E d \in Pair : Toggling(d)
            /\ extensionCall[d].ext = f)
      BY <2>1, <2>3, <1>1, <1>6 DEF TogglesFollow
    <3>2. wish'[f] = On(registry', f) BY <3>1, <1>3 DEF On
    <3>3. CASE f = e
      <4>1. registry'[f] = state
        BY <3>3, <2>1, <1>1, <1>3 DEF TogglesFollow, state, e
      <4>2. statesStore'[f] = state BY <3>3, <1>1, <1>3 DEF Extension!TypeOK, Extension!States
      <4> QED BY <4>1, <4>2, <3>2
    <3>4. CASE f # e
      <4>1. registry'[f] = registry[f] /\ statesStore'[f] = statesStore[f]
        BY <3>4, <1>1, <1>3 DEF Extension!TypeOK, Extension!States
      <4>2. ASSUME NEW d \in Pair, Toggling(d), extensionCall[d].ext = f
        PROVE Toggling(d)' /\ extensionCall'[d].ext = f
        <5>1. d # c BY <4>2, <3>4 DEF e
        <5> QED BY <4>2, <5>1, <1>6
      <4> QED BY <4>1, <4>2, <3>1, <3>2
    <3> QED BY <3>3, <3>4
  <2> QED BY <2>2, <2>3
<1>10. FileFollows' /\ DownIsFresh' BY <1>3, <1>4 DEF FileFollows, DownIsFresh
<1> QED BY <1>5, <1>7, <1>8, <1>9, <1>10 DEF ExtensionIInv

\* What the hub does to a directory changes no switch.
LEMMA InstallKeeps ==
  ASSUME Extension!ExtensionAssumption, ExtensionIInv, NEW c \in Pair,
           NEW e \in Exts, Extension!Install(c, e) \/ Extension!Uninstall(c, e)
  PROVE  ExtensionIInv'
<1> DEFINE new == [pc |-> "deactivate"]
<1>1. Extension!TypeOK /\ ExtensionApart /\ TogglesFollow /\ ReloadsFollow /\ FileFollows
  BY DEF ExtensionIInv
<1>2. extensionUsed' \in [Extension!Kinds -> Nat]
  BY <1>1, Spending DEF Extension!Install, Extension!Uninstall, Extension!Kinds
<1>3. new \in Extension!CallState /\ new.pc = "deactivate" BY DEF Extension!CallState
<1>4. /\ disk' = disk \/ disk' = [disk EXCEPT ![e] = 0]
      /\ extensionCall' = [extensionCall EXCEPT ![c] = new] /\ extensionUp /\ extensionCall[c] = Nil
      /\ UNCHANGED <<statesFile, statesStore, registry, scanned, permit, sleeping,
                     extensionUp, wish, toggleCrossed, unsaved>>
  BY DEF Extension!Install, Extension!Uninstall, Extension!disks, Extension!writer, Extension!history
<1> HIDE DEF new
<1>5. Extension!TypeOK'
  <2>1. disk' \in [Exts -> 0 .. MaxVersion]
    BY <1>1, <1>4 DEF Extension!TypeOK, Extension!ExtensionAssumption
  <2>2. extensionCall' \in [Pair -> Extension!CallState \cup {Nil}]
    BY <1>1, <1>3, <1>4 DEF Extension!TypeOK
  <2> QED BY <1>1, <1>2, <1>4, <2>1, <2>2 DEF Extension!TypeOK
<1>6. ASSUME NEW d \in Pair
      PROVE  /\ Hooking(d)' <=> Hooking(d)
             /\ Extension!At(d, "commit")' <=> Extension!At(d, "commit")
             /\ Toggling(d)' <=> Toggling(d)
             /\ d # c => extensionCall'[d] = extensionCall[d]
             /\ ~Hooking(c) /\ ~Toggling(c)
  <2>1. extensionCall'[d] = IF d = c THEN new ELSE extensionCall[d] BY <1>1, <1>4 DEF Extension!TypeOK
  <2> QED BY <1>3, <1>4, <2>1 DEF Hooking, Toggling, Extension!At
<1>7. ExtensionApart' BY <1>1, <1>4, <1>6 DEF ExtensionApart, Serving
<1>8. ReloadsFollow' BY <1>1, <1>4, <1>6 DEF ReloadsFollow, Serving, On
<1>9. TogglesFollow' BY <1>1, <1>4, <1>6 DEF TogglesFollow, Serving, On
<1>10. FileFollows' /\ DownIsFresh' BY <1>1, <1>4 DEF FileFollows, DownIsFresh, Serving
<1> QED BY <1>5, <1>7, <1>8, <1>9, <1>10 DEF ExtensionIInv

\* A reload that meets nothing finds the store as the user wants it.
LEMMA LoadKeeps == ASSUME Extension!ExtensionAssumption, ExtensionIInv,
                            NEW c \in Pair, Extension!Load(c)
  PROVE ExtensionIInv'
<1> DEFINE found == Extension!Merge(scanned, statesStore)
           new == [pc |-> "activate", found |-> found]
<1>1. Extension!TypeOK /\ ExtensionApart /\ TogglesFollow /\ ReloadsFollow /\ FileFollows /\ DownIsFresh
  BY DEF ExtensionIInv
<1>2. found \in Extension!States /\ \A e \in Exts : found[e] # Nil
        => found[e].enabled = On(statesStore, e)
  BY <1>1, Merged DEF Extension!TypeOK
<1>3. new \in Extension!CallState /\ new.pc = "activate" /\ new.found = found
  BY <1>2 DEF Extension!CallState
<1>4. /\ extensionCall' = [extensionCall EXCEPT ![c] = new]
      /\ wish' = [e \in Exts |-> found[e] = Nil \/ wish[e]]
      /\ toggleCrossed' = (toggleCrossed \/ Extension!Reloading
           \/ \E d \in Pair : Extension!At(d, "set"))
      /\ Extension!At(c, "deactivate")
      /\ UNCHANGED <<disk, statesFile, statesStore, registry, scanned, permit,
                     sleeping, extensionUp, extensionUsed, unsaved>>
  BY DEF Extension!Load, Extension!disks, Extension!writer
<1> HIDE DEF new, found
<1>4a. extensionUp BY <1>1, <1>4 DEF DownIsFresh, Extension!At
<1>5. Extension!TypeOK'
  <2>2. extensionCall' \in [Pair -> Extension!CallState \cup {Nil}]
    BY <1>1, <1>3, <1>4 DEF Extension!TypeOK
  <2>3. wish' \in [Exts -> BOOLEAN] BY <1>1, <1>4 DEF Extension!TypeOK
  <2>4. toggleCrossed' \in BOOLEAN BY <1>1, <1>4 DEF Extension!TypeOK
  <2> QED BY <1>1, <1>4, <2>2, <2>3, <2>4 DEF Extension!TypeOK
<1>6. ASSUME NEW d \in Pair
      PROVE  /\ Hooking(d)' <=> d = c \/ Hooking(d)
             /\ Extension!At(d, "commit")' <=> Extension!At(d, "commit")
             /\ Toggling(d)' <=> Toggling(d)
             /\ d # c => extensionCall'[d] = extensionCall[d]
             /\ extensionCall'[c] = new /\ ~Extension!At(c, "commit") /\ ~Toggling(c)
  <2>1. extensionCall'[d] = IF d = c THEN new ELSE extensionCall[d] BY <1>1, <1>4 DEF Extension!TypeOK
  <2>2. extensionCall'[c] = new BY <1>1, <1>4 DEF Extension!TypeOK
  <2>3. new # Nil BY <1>3 DEF Extension!ExtensionAssumption
  <2> QED BY <1>3, <1>4, <2>1, <2>2, <2>3 DEF Hooking, Toggling, Extension!At
<1>7. ASSUME Serving', ~toggleCrossed'
      PROVE  /\ Serving /\ ~toggleCrossed
             /\ \A d \in Pair : ~Hooking(d) /\ ~Toggling(d)
  <2>1. Serving /\ ~toggleCrossed /\ ~Extension!Reloading BY <1>7, <1>4 DEF Serving
  <2>2. \A d \in Pair : ~Hooking(d) BY <2>1 DEF Extension!Reloading, Hooking
  <2> QED BY <1>4, <1>7, <2>1, <2>2 DEF Toggling
<1>8. ExtensionApart' BY <1>6, <1>7 DEF ExtensionApart
<1>9. TogglesFollow'
  <2> SUFFICES ASSUME Serving', ~toggleCrossed'
      PROVE  (\A d \in Pair : ~Toggling(d)') /\ ~(\A d \in Pair : ~Hooking(d)')
    BY DEF TogglesFollow
  <2> QED BY <1>6, <1>7
<1>10. ReloadsFollow'
  <2> SUFFICES ASSUME Serving', ~toggleCrossed', NEW d \in Pair, Hooking(d)'
               PROVE  /\ \A e \in Exts : wish'[e] = On(extensionCall'[d].found, e)
                      /\ ~Extension!At(d, "commit")'
    BY DEF ReloadsFollow, On
  <2>1. d = c /\ ~Extension!At(d, "commit")' BY <1>6, <1>7
  <2>2. extensionCall'[d].found = found BY <2>1, <1>3, <1>6
  <2>3. ASSUME NEW e \in Exts PROVE wish'[e] = On(found, e)
    <3>1. wish[e] = On(registry, e) /\ registry[e] = statesStore[e] /\ wish[e] \in BOOLEAN
      BY <1>1, <1>7 DEF TogglesFollow, Extension!TypeOK
    <3>2. CASE found[e] = Nil BY <3>2, <1>4 DEF On
    <3>3. CASE found[e] # Nil
      <4>1. wish'[e] = wish[e] BY <3>3, <3>1, <1>4
      <4>2. found[e].enabled = On(statesStore, e) BY <3>3, <1>2
      <4>3. On(statesStore, e) = On(registry, e) BY <3>1 DEF On
      <4>4. On(found, e) = found[e].enabled BY <3>3, <4>2 DEF On
      <4> QED BY <4>1, <4>2, <4>3, <4>4, <3>1
    <3> QED BY <3>2, <3>3
  <2> QED BY <2>1, <2>2, <2>3
<1>11. FileFollows' /\ DownIsFresh' BY <1>1, <1>4, <1>4a DEF FileFollows, DownIsFresh, Serving
<1> QED BY <1>5, <1>8, <1>9, <1>10, <1>11 DEF ExtensionIInv

\* A reload stores what it found.
LEMMA SetAllKeeps == ASSUME Extension!ExtensionAssumption, ExtensionIInv,
                              NEW c \in Pair, Extension!SetAll(c)
  PROVE ExtensionIInv'
<1> DEFINE new == [extensionCall[c] EXCEPT !.pc = "commit"]
<1>1. Extension!TypeOK /\ ExtensionApart /\ TogglesFollow /\ ReloadsFollow /\ FileFollows /\ DownIsFresh
  BY DEF ExtensionIInv
<1>2. extensionCall[c].found \in Extension!States /\ extensionCall[c] # Nil
        /\ extensionCall[c] \in Extension!CallState /\ extensionCall[c].pc = "activate" /\ Hooking(c)
  BY <1>1, Parts DEF Extension!SetAll, Extension!At, Hooking
<1>3. new \in Extension!CallState /\ new.pc = "commit" /\ new.found = extensionCall[c].found
  BY <1>2 DEF Extension!CallState
<1>4. /\ extensionCall' = [extensionCall EXCEPT ![c] = new]
      /\ statesStore' = extensionCall[c].found /\ permit' = TRUE
      /\ UNCHANGED <<disk, statesFile, registry, scanned, sleeping, extensionUp,
                     extensionUsed, wish, toggleCrossed, unsaved>>
  BY <1>1 DEF Extension!SetAll, Extension!disks, Extension!history, Extension!TypeOK
<1> HIDE DEF new
<1>4a. extensionUp BY <1>1, <1>2 DEF DownIsFresh
<1>5. Extension!TypeOK'
  <2>2. extensionCall' \in [Pair -> Extension!CallState \cup {Nil}]
    BY <1>1, <1>3, <1>4 DEF Extension!TypeOK
  <2> QED BY <1>1, <1>2, <1>4, <2>2 DEF Extension!TypeOK
<1>6. ASSUME NEW d \in Pair
      PROVE  /\ Hooking(d)' <=> Hooking(d)
             /\ Extension!At(d, "commit")' <=> d = c \/ Extension!At(d, "commit")
             /\ Toggling(d)' <=> Toggling(d)
             /\ d # c => extensionCall'[d] = extensionCall[d]
             /\ extensionCall'[c] = new /\ ~Toggling(c)
  <2>1. extensionCall'[d] = IF d = c THEN new ELSE extensionCall[d] BY <1>1, <1>4 DEF Extension!TypeOK
  <2>2. extensionCall'[c] = new BY <1>1, <1>4 DEF Extension!TypeOK
  <2>3. new # Nil BY <1>3 DEF Extension!ExtensionAssumption
  <2> QED BY <1>2, <1>3, <2>1, <2>2, <2>3 DEF Hooking, Toggling, Extension!At
<1>7. ExtensionApart' BY <1>1, <1>4, <1>6 DEF ExtensionApart, Serving
<1>8. TogglesFollow'
  <2> SUFFICES ASSUME Serving', ~toggleCrossed'
      PROVE  (\A d \in Pair : ~Toggling(d)') /\ ~(\A d \in Pair : ~Hooking(d)')
    BY DEF TogglesFollow
  <2>1. Serving /\ ~toggleCrossed BY <1>4 DEF Serving
  <2> QED BY <2>1, <1>1, <1>2, <1>6 DEF ExtensionApart
<1>9. ReloadsFollow'
  <2> SUFFICES ASSUME Serving', ~toggleCrossed', NEW d \in Pair, Hooking(d)'
               PROVE  (\A e \in Exts : wish'[e] = On(extensionCall'[d].found, e))
                        /\ statesStore' = extensionCall'[d].found
    BY DEF ReloadsFollow, On
  <2>1. Serving /\ ~toggleCrossed BY <1>4 DEF Serving
  <2>2. d = c BY <2>1, <1>1, <1>2, <1>6 DEF ExtensionApart
  <2>3. extensionCall'[d].found = extensionCall[c].found BY <2>2, <1>3, <1>6
  <2>4. \A e \in Exts : wish[e] = On(extensionCall[c].found, e) BY <2>1, <1>1, <1>2 DEF ReloadsFollow
  <2> QED BY <2>3, <2>4, <1>4
<1>10. FileFollows' /\ DownIsFresh' BY <1>4, <1>4a DEF FileFollows, DownIsFresh
<1> QED BY <1>5, <1>7, <1>8, <1>9, <1>10 DEF ExtensionIInv

\* A reload is done: the registry has what is stored.
LEMMA CommitKeeps == ASSUME Extension!ExtensionAssumption, ExtensionIInv,
                              NEW c \in Pair, Extension!Commit(c)
  PROVE ExtensionIInv'
<1>1. Extension!TypeOK /\ ExtensionApart /\ TogglesFollow /\ ReloadsFollow /\ FileFollows /\ DownIsFresh
  BY DEF ExtensionIInv
<1>2. extensionCall[c].found \in Extension!States /\ extensionCall[c] # Nil
        /\ Extension!At(c, "commit") /\ Hooking(c)
  BY <1>1, Parts DEF Extension!Commit, Extension!At, Hooking
<1>4. /\ extensionCall' = [extensionCall EXCEPT ![c] = Nil]
      /\ registry' = extensionCall[c].found
      /\ UNCHANGED <<disk, statesFile, statesStore, scanned, permit, sleeping,
                     extensionUp, extensionUsed, wish, toggleCrossed, unsaved>>
  BY DEF Extension!Commit, Extension!Over, Extension!disks, Extension!writer, Extension!history
<1>4a. extensionUp BY <1>1, <1>2 DEF DownIsFresh
<1>5. Extension!TypeOK'
  <2>2. extensionCall' \in [Pair -> Extension!CallState \cup {Nil}] BY <1>1, <1>4 DEF Extension!TypeOK
  <2> QED BY <1>1, <1>2, <1>4, <2>2 DEF Extension!TypeOK
<1>6. ASSUME NEW d \in Pair
      PROVE  /\ Hooking(d)' <=> d # c /\ Hooking(d)
             /\ Extension!At(d, "commit")' <=> d # c /\ Extension!At(d, "commit")
             /\ Toggling(d)' <=> d # c /\ Toggling(d)
             /\ d # c => extensionCall'[d] = extensionCall[d]
  <2>1. extensionCall'[d] = IF d = c THEN Nil ELSE extensionCall[d] BY <1>1, <1>4 DEF Extension!TypeOK
  <2> QED BY <2>1 DEF Hooking, Toggling, Extension!At
<1>7. ASSUME Serving', ~toggleCrossed'
      PROVE  /\ Serving /\ ~toggleCrossed /\ statesStore = extensionCall[c].found
             /\ \A e \in Exts : wish[e] = On(extensionCall[c].found, e)
             /\ \A d \in Pair : ~Hooking(d)' /\ ~Toggling(d)'
  <2>1. Serving /\ ~toggleCrossed BY <1>7, <1>4 DEF Serving
  <2>2. \A d \in Pair : ~Hooking(d)' /\ ~Toggling(d)' BY <2>1, <1>1, <1>2, <1>6 DEF ExtensionApart
  <2> QED BY <2>1, <2>2, <1>1, <1>2 DEF ReloadsFollow
<1>8. ExtensionApart' BY <1>7 DEF ExtensionApart
<1>9. ReloadsFollow' BY <1>7 DEF ReloadsFollow
<1>10. TogglesFollow' BY <1>4, <1>7 DEF TogglesFollow, On
<1>11. FileFollows' /\ DownIsFresh' BY <1>1, <1>4, <1>4a DEF FileFollows, DownIsFresh, Serving
<1> QED BY <1>5, <1>8, <1>9, <1>10, <1>11 DEF ExtensionIInv

\* The hub from outside and the writer keep the invariant.
LEMMA OthersKeep ==
  ASSUME Extension!ExtensionAssumption, ExtensionIInv,
         (\E e \in Exts : Extension!Ship(e)) \/ Extension!WriterWakes \/ Extension!WriterSaves
           \/ Extension!WriterFails
  PROVE  ExtensionIInv'
<1>1. Extension!TypeOK /\ ExtensionApart /\ TogglesFollow /\ ReloadsFollow /\ FileFollows /\ DownIsFresh
  BY DEF ExtensionIInv
<1>2. UNCHANGED <<statesStore, registry, scanned, extensionCall, extensionUp, wish, toggleCrossed>>
  BY DEF Extension!Ship, Extension!WriterWakes, Extension!WriterSaves, Extension!WriterFails,
     Extension!disks, Extension!writer, Extension!history
<1>3. Extension!TypeOK'
  <2>1. extensionUsed' \in [Extension!Kinds -> Nat]
    BY <1>1, Spending DEF Extension!Ship, Extension!WriterWakes, Extension!WriterSaves,
       Extension!WriterFails, Extension!Kinds, Extension!TypeOK
  <2>2. disk' \in [Exts -> 0 .. MaxVersion]
    BY <1>1 DEF Extension!Ship, Extension!WriterWakes, Extension!WriterSaves, Extension!WriterFails,
       Extension!TypeOK, Extension!ExtensionAssumption, Extension!disks
  <2>3. statesFile' \in Extension!States
    BY <1>1 DEF Extension!Ship, Extension!WriterWakes, Extension!WriterSaves, Extension!WriterFails,
       Extension!TypeOK, Extension!disks
  <2>4. {permit', sleeping', unsaved'} \subseteq BOOLEAN
    BY <1>1 DEF Extension!Ship, Extension!WriterWakes, Extension!WriterSaves, Extension!WriterFails,
       Extension!TypeOK, Extension!writer, Extension!history
  <2> QED BY <1>1, <1>2, <2>1, <2>2, <2>3, <2>4 DEF Extension!TypeOK
<1>4. ExtensionApart' BY <1>1, <1>2 DEF ExtensionApart, Serving, Hooking, Toggling, Extension!At
<1>5. TogglesFollow' BY <1>1, <1>2 DEF TogglesFollow, Serving, Hooking, Toggling, Extension!At, On
<1>6. ReloadsFollow' BY <1>1, <1>2 DEF ReloadsFollow, Serving, Hooking, Extension!At, On
<1>7. FileFollows'
  BY <1>1 DEF FileFollows, Serving, Extension!Ship, Extension!WriterWakes, Extension!WriterSaves,
     Extension!WriterFails, Extension!disks, Extension!writer, Extension!history
<1>8. DownIsFresh'
  BY <1>1, <1>2 DEF DownIsFresh, Extension!Ship, Extension!WriterWakes, Extension!WriterSaves,
     Extension!WriterFails, Extension!disks, Extension!writer, Extension!history, On
<1> QED BY <1>3, <1>4, <1>5, <1>6, <1>7, <1>8 DEF ExtensionIInv

\* Every step of the extensions keeps the invariant.
LEMMA ExtensionInductive == ASSUME Extension!ExtensionAssumption
  PROVE Extension!Spec => []ExtensionIInv
<1>1. Extension!Init => ExtensionIInv BY ExtensionInitial
<1>2. ExtensionIInv /\ [Extension!Next]_(Extension!vars) => ExtensionIInv'
  <2> SUFFICES ASSUME ExtensionIInv, [Extension!Next]_(Extension!vars) PROVE ExtensionIInv' OBVIOUS
  <2>1. CASE UNCHANGED Extension!vars
    BY <2>1 DEF Extension!vars, ExtensionIInv, Extension!TypeOK, DownIsFresh, FileFollows,
       ExtensionApart, TogglesFollow, ReloadsFollow,
                Serving, Hooking, Toggling, Extension!At, On
  <2>2. CASE Extension!Next
    <3>1. ASSUME NEW c \in Pair,
                   NEW e \in Exts, Extension!Toggle(c, e) \/ Extension!Install(c, e)
                     \/ Extension!Uninstall(c, e)
          PROVE  ExtensionIInv'
      BY <3>1, ToggleKeeps, InstallKeeps
    <3>2. ASSUME NEW c \in Pair, Extension!Request(c) PROVE ExtensionIInv'
      BY <3>2, SetKeeps, LoadKeeps, SetAllKeeps, CommitKeeps DEF Extension!Request
    <3>3. CASE (\E e \in Exts : Extension!Ship(e)) \/ Extension!WriterWakes \/ Extension!WriterSaves
            \/ Extension!WriterFails
      BY <3>3, OthersKeep
    <3>4. CASE Extension!Start BY <3>4, StartKeeps
    <3>5. CASE Extension!StartUnread \/ Extension!Stop BY <3>5, ExtensionStopKeeps
    <3> QED BY <2>2, <3>1, <3>2, <3>3, <3>4, <3>5 DEF Extension!Next
  <2> QED BY <2>1, <2>2
<1> QED BY <1>1, <1>2, PTL DEF Extension!Spec

\* The extensions by themselves have the property.
LEMMA ExtensionKept == ASSUME Extension!ExtensionAssumption
  PROVE Extension!Spec => [](Extension!TypeOK /\ Extension!SwitchesAreKept)
<1>1. ExtensionIInv => Extension!TypeOK BY DEF ExtensionIInv
<1>2. ExtensionIInv => Extension!SwitchesAreKept
  <2> SUFFICES ASSUME ExtensionIInv, Extension!AtRest, ~toggleCrossed
               PROVE  /\ registry = statesStore /\ statesStore = statesFile
                      /\ \A e \in Exts : registry[e] # Nil => registry[e].enabled = wish[e]
    BY DEF Extension!SwitchesAreKept
  <2>1. \A c \in Pair : ~Hooking(c) /\ ~Toggling(c)
    BY DEF Extension!AtRest, Extension!Idle, Hooking, Toggling, Extension!At
  <2>2. \A e \in Exts : wish[e] = On(registry, e) /\ registry[e] = statesStore[e]
    BY <2>1 DEF ExtensionIInv, TogglesFollow, Extension!AtRest, Serving
  <2>3. registry = statesStore BY <2>2 DEF ExtensionIInv, Extension!TypeOK, Extension!States
  <2>4. statesStore = statesFile BY DEF ExtensionIInv, FileFollows, Extension!AtRest, Serving
  <2>5. ASSUME NEW e \in Exts, registry[e] # Nil PROVE registry[e].enabled = wish[e]
    <3>1. registry[e].enabled \in BOOLEAN
      BY <2>5 DEF ExtensionIInv, Extension!TypeOK, Extension!States, Extension!State
    <3> QED BY <2>2, <2>5, <3>1 DEF On
  <2> QED BY <2>3, <2>4, <2>5
<1> QED BY <1>1, <1>2, ExtensionInductive, PTL

\* The group implements the service.
LEMMA ExtensionImplemented == CatalogSpec => Extension!Spec
<1>1. CatalogInit => Extension!Init BY DEF CatalogInit
<1>2. [CatalogNext]_catalogVars => [Extension!Next]_(Extension!vars)
  BY DEF CatalogNext, catalogVars, extensionVars, Extension!vars
<1> QED BY <1>1, <1>2, PTL DEF CatalogSpec, Extension!Spec

\* For any number of extensions and requests: at rest, the switches of the
\* registry, of the store and of the file are those the user asked for
\* (registry.rs, state.rs).
THEOREM SwitchesStayKept == ASSUME CatalogAssumption PROVE CatalogSpec => []SwitchesAreKept
<1>1. Extension!ExtensionAssumption BY DEF CatalogAssumption
<1>2. Extension!Spec => [](Extension!TypeOK /\ Extension!SwitchesAreKept)
  BY <1>1, ExtensionKept
<1>3. Extension!SwitchesAreKept => SwitchesAreKept BY DEF SwitchesAreKept
<1> QED BY <1>2, <1>3, ExtensionImplemented, PTL

-----------------------------------------------------------------------------
(* The order of loading: LoadOrder.                                        *)

\* What an extension needs of what is loaded.
Needs(e) == needs[e] \cap Order!Loaded

\* Nobody is in a sequence twice.
Once(s) == \A i, j \in 1 .. Len(s) : s[i] = s[j] => i = j

\* Extensions by name: the place of one is the number of those up to it.
LEMMA Ranking ==
  ASSUME NEW S \in SUBSET Nat, IsFiniteSet(S), NEW rank, rank = [e \in S |-> Cardinality({d \in S : d <= e})]
  PROVE  /\ Cardinality(S) \in Nat /\ rank \in [S -> 1 .. Cardinality(S)]
         /\ \A d, e \in S : rank[d] = rank[e] => d = e
         /\ \A k \in 1 .. Cardinality(S) : \E e \in S : rank[e] = k
<1> DEFINE n == Cardinality(S)
           Up(e) == {d \in S : d <= e}
<1>1. n \in Nat BY FS_CardinalityType
<1>2. \A e \in S : IsFiniteSet(Up(e)) /\ Cardinality(Up(e)) \in Nat /\ Cardinality(Up(e)) <= n
  <2> TAKE e \in S
  <2>1. Up(e) \in SUBSET S OBVIOUS
  <2> QED BY <2>1, FS_Subset, FS_CardinalityType
<1>3. \A e \in S : Cardinality(Up(e)) # 0
  <2> TAKE e \in S
  <2>1. e \in Up(e) OBVIOUS
  <2> QED BY <1>2, <2>1, FS_EmptySet
<1>4. \A d, e \in S : d < e => Cardinality(Up(d)) < Cardinality(Up(e))
  <2> TAKE d, e \in S
  <2> HAVE d < e
  <2>1. Up(d) \in SUBSET Up(e)
    <3>1. \A x \in S : x \in Nat OBVIOUS
    <3>2. \A x \in S : x <= d => x <= e BY <3>1
    <3> QED BY <3>2
  <2>2. e \in Up(e) /\ e \notin Up(d) OBVIOUS
  <2>3. Cardinality(Up(d)) <= Cardinality(Up(e)) /\ (Cardinality(Up(e)) = Cardinality(Up(d)) => Up(e) = Up(d))
    BY <1>2, <2>1, FS_Subset
  <2>4. Cardinality(Up(d)) # Cardinality(Up(e)) BY <2>2, <2>3
  <2> QED BY <1>2, <2>3, <2>4
<1>5. \A e \in S : rank[e] = Cardinality(Up(e)) OBVIOUS
<1> HIDE DEF Up, n
<1>6. rank \in [S -> 1 .. n]
  <2>1. \A e \in S : rank[e] \in 1 .. n BY <1>1, <1>2, <1>3, <1>5
  <2>2. rank = [e \in S |-> rank[e]] OBVIOUS
  <2> QED BY <2>1, <2>2
<1>7. \A d, e \in S : rank[d] = rank[e] => d = e
  <2> TAKE d, e \in S
  <2> HAVE rank[d] = rank[e]
  <2>1. ~(d < e) /\ ~(e < d) BY <1>2, <1>4, <1>5
  <2> QED BY <2>1
<1>8. rank \in Injection(S, 1 .. n) BY <1>6, <1>7 DEF Injection, IsInjective
<1>9. IsFiniteSet(1 .. n) /\ Cardinality(1 .. n) = n BY <1>1, FS_Interval
<1>10. rank \in Surjection(S, 1 .. n) BY <1>8, <1>9, FS_Injection DEF n
<1>11. \A k \in 1 .. n : \E e \in S : rank[e] = k BY <1>10 DEF Surjection
<1> QED BY <1>1, <1>6, <1>7, <1>11 DEF n

\* The instance counts as the module does.
LEMMA Counting == ASSUME NEW S PROVE Order!Cardinality(S) = Cardinality(S)
BY DEF Order!Cardinality, Cardinality, Order!IsFiniteSet, IsFiniteSet

\* By name, each of a set is listed once.
LEMMA Listed ==
  ASSUME NEW S \in SUBSET Nat, IsFiniteSet(S)
  PROVE  /\ Order!ByName(S) \in Seq(S) /\ Len(Order!ByName(S)) = Cardinality(S)
         /\ Order!Members(Order!ByName(S)) = S /\ Once(Order!ByName(S))
<1> DEFINE n == Cardinality(S)
           s == Order!ByName(S)
<1>0. PICK rank : rank = [e \in S |-> Cardinality({d \in S : d <= e})] OBVIOUS
<1>1. /\ n \in Nat /\ rank \in [S -> 1 .. n]
      /\ \A d, e \in S : rank[d] = rank[e] => d = e
      /\ \A k \in 1 .. n : \E e \in S : rank[e] = k
  BY <1>0, Ranking
<1>2. s = [k \in 1 .. n |-> CHOOSE e \in S : Order!Cardinality({d \in S : d <= e}) = k]
  BY Counting DEF Order!ByName
<1> HIDE DEF s, n
<1>3. \A k \in 1 .. n : s[k] \in S /\ rank[s[k]] = k
  <2> TAKE k \in 1 .. n
  <2>1. \E e \in S : Order!Cardinality({d \in S : d <= e}) = k BY <1>0, <1>1, Counting
  <2>2. s[k] \in S /\ Order!Cardinality({d \in S : d <= s[k]}) = k BY <1>2, <2>1
  <2> QED BY <1>0, <2>2, Counting
<1>4. s \in Seq(S) /\ Len(s) = n
  <2>1. s \in [1 .. n -> S] BY <1>2, <1>3
  <2> QED BY <1>1, <2>1
<1>5. Once(s) BY <1>3, <1>4 DEF Once
<1>6. \A e \in S : s[rank[e]] = e /\ rank[e] \in 1 .. n BY <1>1, <1>3
<1>7. Order!Members(s) = S BY <1>3, <1>4, <1>6 DEF Order!Members
<1> QED BY <1>4, <1>5, <1>7 DEF s, n

\* One more at the end.
LEMMA Appended ==
  ASSUME NEW S, NEW s \in Seq(S), NEW e \in S
  PROVE  /\ Append(s, e) \in Seq(S) /\ Len(Append(s, e)) = Len(s) + 1
         /\ Append(s, e)[Len(s) + 1] = e /\ \A k \in 1 .. Len(s) : Append(s, e)[k] = s[k]
         /\ Order!Members(Append(s, e)) = Order!Members(s) \cup {e}
         /\ Once(s) /\ e \notin Order!Members(s) => Once(Append(s, e))
<1> DEFINE t == Append(s, e)
<1>1. /\ t \in Seq(S) /\ Len(t) = Len(s) + 1 /\ t[Len(s) + 1] = e
      /\ \A k \in 1 .. Len(s) : t[k] = s[k] /\ Len(s) \in Nat
  BY AppendProperties, LenProperties
<1>2. Len(s) \in Nat BY LenProperties
<1> HIDE DEF t
<1>3. \A k \in 1 .. Len(t) : k \in 1 .. Len(s) \/ k = Len(s) + 1 BY <1>1, <1>2
<1>4. \A k \in 1 .. Len(s) : k \in 1 .. Len(t) BY <1>1, <1>2
<1>5. Len(s) + 1 \in 1 .. Len(t) BY <1>1, <1>2
<1>6. Order!Members(t) = Order!Members(s) \cup {e} BY <1>1, <1>3, <1>4, <1>5 DEF Order!Members
<1>7. Once(s) /\ e \notin Order!Members(s) => Once(t) BY <1>1, <1>3 DEF Once, Order!Members
<1> QED BY <1>1, <1>6, <1>7 DEF t

\* One sequence after another.
LEMMA Joined ==
  ASSUME NEW S, NEW s \in Seq(S), NEW t \in Seq(S)
  PROVE  /\ s \o t \in Seq(S) /\ Len(s \o t) = Len(s) + Len(t)
         /\ \A k \in 1 .. Len(s) : (s \o t)[k] = s[k]
         /\ Order!Members(s \o t) = Order!Members(s) \cup Order!Members(t)
         /\ Once(s) /\ Once(t) /\ Order!Members(s) \cap Order!Members(t) = {} => Once(s \o t)
<1> DEFINE u == s \o t
<1>1. /\ u \in Seq(S) /\ Len(u) = Len(s) + Len(t)
      /\ \A k \in 1 .. Len(s) + Len(t) : u[k] = IF k <= Len(s) THEN s[k] ELSE t[k - Len(s)]
  BY ConcatProperties
<1>2. Len(s) \in Nat /\ Len(t) \in Nat BY LenProperties
<1> HIDE DEF u
<1>3. \A k \in 1 .. Len(u) :
        \/ k \in 1 .. Len(s) /\ u[k] = s[k]
        \/ k - Len(s) \in 1 .. Len(t) /\ u[k] = t[k - Len(s)]
  <2> TAKE k \in 1 .. Len(u)
  <2>1. CASE k <= Len(s) BY <1>1, <1>2, <2>1
  <2>2. CASE ~(k <= Len(s))
    <3>1. k - Len(s) \in 1 .. Len(t) BY <1>1, <1>2, <2>2
    <3> QED BY <1>1, <2>2, <3>1
  <2> QED BY <2>1, <2>2
<1>4. \A k \in 1 .. Len(s) : k \in 1 .. Len(u) /\ u[k] = s[k] BY <1>1, <1>2
<1>5. \A k \in 1 .. Len(t) : k + Len(s) \in 1 .. Len(u) /\ u[k + Len(s)] = t[k]
  <2> TAKE k \in 1 .. Len(t)
  <2>1. k + Len(s) \in 1 .. Len(s) + Len(t) /\ ~(k + Len(s) <= Len(s)) /\ (k + Len(s)) - Len(s) = k BY <1>2
  <2> QED BY <1>1, <2>1
<1>6. Order!Members(u) = Order!Members(s) \cup Order!Members(t)
  <2>1. \A e \in Order!Members(u) : e \in Order!Members(s) \cup Order!Members(t) BY <1>3 DEF Order!Members
  <2>2. \A e \in Order!Members(s) : e \in Order!Members(u) BY <1>4 DEF Order!Members
  <2>3. \A e \in Order!Members(t) : e \in Order!Members(u) BY <1>5 DEF Order!Members
  <2> QED BY <2>1, <2>2, <2>3
<1>7. ASSUME Once(s), Once(t), Order!Members(s) \cap Order!Members(t) = {} PROVE Once(u)
  <2> SUFFICES ASSUME NEW i \in 1 .. Len(u), NEW j \in 1 .. Len(u), u[i] = u[j] PROVE i = j BY DEF Once
  <2>1. CASE i \in 1 .. Len(s) /\ u[i] = s[i]
    <3>1. ~(j - Len(s) \in 1 .. Len(t) /\ u[j] = t[j - Len(s)]) BY <1>7, <2>1 DEF Order!Members
    <3> QED BY <1>3, <1>7, <2>1, <3>1 DEF Once
  <2>2. CASE i - Len(s) \in 1 .. Len(t) /\ u[i] = t[i - Len(s)]
    <3>1. ~(j \in 1 .. Len(s) /\ u[j] = s[j]) BY <1>7, <2>2 DEF Order!Members
    <3>2. j - Len(s) \in 1 .. Len(t) /\ u[j] = t[j - Len(s)] BY <1>3, <3>1
    <3>3. i - Len(s) = j - Len(s) BY <1>7, <2>2, <3>2 DEF Once
    <3> QED BY <1>1, <1>2, <3>3
  <2> QED BY <1>3, <2>1, <2>2
<1> QED BY <1>1, <1>4, <1>6, <1>7 DEF u

\* One less at the front.
LEMMA Popped ==
  ASSUME NEW S, NEW s \in Seq(S), s # <<>>
  PROVE  /\ Head(s) \in S /\ Tail(s) \in Seq(S)
         /\ Order!Members(s) = Order!Members(Tail(s)) \cup {Head(s)}
         /\ Once(s) => Once(Tail(s)) /\ Head(s) \notin Order!Members(Tail(s))
<1> DEFINE t == Tail(s)
<1>1. /\ Head(s) \in S /\ t \in Seq(S) /\ Len(s) \in Nat \ {0} /\ Len(t) = Len(s) - 1
      /\ s[1] = Head(s) /\ \A k \in 1 .. Len(t) : t[k] = s[k + 1]
  BY HeadTailProperties, LenProperties, EmptySeq
<1> HIDE DEF t
<1>2. \A k \in 1 .. Len(t) : k + 1 \in 1 .. Len(s) /\ t[k] = s[k + 1] BY <1>1
<1>3. 1 \in 1 .. Len(s) BY <1>1
<1>4. \A k \in 1 .. Len(s) : k = 1 \/ (k - 1 \in 1 .. Len(t) /\ t[k - 1] = s[k])
  <2> TAKE k \in 1 .. Len(s)
  <2> SUFFICES ASSUME k # 1 PROVE k - 1 \in 1 .. Len(t) /\ t[k - 1] = s[k] OBVIOUS
  <2>1. k - 1 \in 1 .. Len(t) /\ (k - 1) + 1 = k BY <1>1
  <2> QED BY <1>2, <2>1
<1>5. Order!Members(s) = Order!Members(t) \cup {Head(s)}
  <2>1. \A e \in Order!Members(s) : e = Head(s) \/ e \in Order!Members(t) BY <1>1, <1>4 DEF Order!Members
  <2>2. \A e \in Order!Members(t) : e \in Order!Members(s) BY <1>2 DEF Order!Members
  <2>3. Head(s) \in Order!Members(s) BY <1>1, <1>3 DEF Order!Members
  <2> QED BY <2>1, <2>2, <2>3
<1>6. ASSUME Once(s) PROVE Once(t) /\ Head(s) \notin Order!Members(t)
  <2>1. \A i, j \in 1 .. Len(t) : t[i] = t[j] => i + 1 = j + 1 BY <1>2, <1>6 DEF Once
  <2>2. \A i, j \in 1 .. Len(t) : i + 1 = j + 1 => i = j BY <1>1
  <2>3. \A k \in 1 .. Len(t) : t[k] # s[1]
    <3> TAKE k \in 1 .. Len(t)
    <3>1. k + 1 # 1 BY <1>1
    <3> QED BY <1>2, <1>3, <1>6, <3>1 DEF Once
  <2> QED BY <1>1, <2>1, <2>2, <2>3 DEF Once, Order!Members
<1> QED BY <1>1, <1>5, <1>6 DEF t

\* One less at the end.
But(s) == SubSeq(s, 1, Len(s) - 1)

\* What is left is in its places, without the last.
LEMMA Shortened ==
  ASSUME NEW S, NEW s \in Seq(S), s # <<>>
  PROVE  /\ But(s) \in Seq(S) /\ Len(s) \in Nat \ {0} /\ Len(But(s)) = Len(s) - 1
         /\ \A k \in 1 .. Len(But(s)) : k \in 1 .. Len(s) /\ But(s)[k] = s[k]
         /\ s[Len(s)] \in S /\ Order!Members(s) = Order!Members(But(s)) \cup {s[Len(s)]}
         /\ Once(s) => Once(But(s)) /\ s[Len(s)] \notin Order!Members(But(s))
<1> DEFINE t == But(s)
<1>1. Len(s) \in Nat \ {0} BY LenProperties, EmptySeq
<1>2. t \in Seq(S) /\ Len(t) = Len(s) - 1 /\ \A k \in 1 .. Len(t) : t[k] = s[k]
  <2> DEFINE n == Len(s) - 1
  <2>1. n \in Nat /\ \A i \in 1 .. n : s[i] \in S BY <1>1, ElementOfSeq
  <2> HIDE DEF n
  <2>2. /\ SubSeq(s, 1, n) \in Seq(S) /\ Len(SubSeq(s, 1, n)) = IF 1 <= n THEN n - 1 + 1 ELSE 0
        /\ \A i \in 1 .. n - 1 + 1 : SubSeq(s, 1, n)[i] = s[1 + i - 1]
    BY <2>1, SubSeqProperties
  <2>3. t = SubSeq(s, 1, n) BY DEF n, But
  <2>4. Len(t) = n BY <2>1, <2>2, <2>3
  <2>5. \A k \in 1 .. n : k \in 1 .. n - 1 + 1 /\ 1 + k - 1 = k BY <2>1
  <2> QED BY <2>2, <2>3, <2>4, <2>5 DEF n
<1> HIDE DEF t
<1>3. \A k \in 1 .. Len(t) : k \in 1 .. Len(s) /\ k # Len(s) BY <1>1, <1>2
<1>4. Len(s) \in 1 .. Len(s) /\ \A k \in 1 .. Len(s) : k = Len(s) \/ k \in 1 .. Len(t) BY <1>1, <1>2
<1>5. Order!Members(s) = Order!Members(t) \cup {s[Len(s)]}
  <2>1. \A e \in Order!Members(s) : e = s[Len(s)] \/ e \in Order!Members(t) BY <1>2, <1>4 DEF Order!Members
  <2>2. \A e \in Order!Members(t) : e \in Order!Members(s) BY <1>2, <1>3 DEF Order!Members
  <2>3. s[Len(s)] \in Order!Members(s) BY <1>4 DEF Order!Members
  <2> QED BY <2>1, <2>2, <2>3
<1>6. Once(s) => Once(t) /\ s[Len(s)] \notin Order!Members(t) BY <1>2, <1>3, <1>4 DEF Once, Order!Members
<1> QED BY <1>1, <1>2, <1>3, <1>4, <1>5, <1>6, ElementOfSeq DEF t

\* What is in every closed set.
LEMMA Requiring ==
  ASSUME NEW e \in Order!Loaded
  PROVE  /\ Order!Requires[e] \in SUBSET Order!Loaded
         /\ \A d : d \in Order!Requires[e] <=>
              d \in Order!Loaded /\ \A S \in SUBSET Order!Loaded : Needs(e) \subseteq S /\ Order!Closed(S) => d \in S
BY DEF Order!Requires, Needs

\* What it needs it requires.
LEMMA Direct == ASSUME NEW e \in Order!Loaded, NEW d \in Needs(e) PROVE d \in Order!Requires[e]
BY Requiring DEF Needs

\* And what that one requires.
LEMMA Through ==
  ASSUME NEW e \in Order!Loaded, NEW d \in Order!Requires[e], NEW c \in Order!Requires[d]
  PROVE  c \in Order!Requires[e]
<1>1. d \in Order!Loaded BY Requiring
<1>2. ASSUME NEW S \in SUBSET Order!Loaded, Needs(e) \subseteq S, Order!Closed(S) PROVE c \in S
  <2>1. d \in S BY <1>2, Requiring
  <2>2. Needs(d) \subseteq S BY <1>2, <2>1 DEF Order!Closed, Needs
  <2> QED BY <1>1, <1>2, <2>2, Requiring
<1>3. c \in Order!Loaded BY <1>1, Requiring
<1> QED BY <1>2, <1>3, Requiring

\* It does so by something it needs.
LEMMA Begins ==
  ASSUME NEW e \in Order!Loaded, NEW d \in Order!Requires[e]
  PROVE  \E c \in Needs(e) : c = d \/ d \in Order!Requires[c]
<1> DEFINE S == {x \in Order!Loaded : \E c \in Needs(e) : c = x \/ x \in Order!Requires[c]}
<1>1. Needs(e) \subseteq S BY DEF Needs
<1>2. Order!Closed(S)
  <2>1. SUFFICES ASSUME NEW x \in S, NEW y \in Needs(x) PROVE y \in S BY DEF Order!Closed, Needs
  <2>2. PICK c \in Needs(e) : c = x \/ x \in Order!Requires[c] OBVIOUS
  <2>3. y \in Order!Loaded /\ c \in Order!Loaded /\ x \in Order!Loaded BY DEF Needs
  <2>4. y \in Order!Requires[x] BY <2>3, Direct
  <2>5. y \in Order!Requires[c]
    <3>1. CASE c = x BY <2>4, <3>1
    <3>2. CASE x \in Order!Requires[c] BY <2>3, <2>4, <3>2, Through
    <3> QED BY <2>2, <3>1, <3>2
  <2> QED BY <2>3, <2>5
<1>3. d \in S
  <2>1. S \in SUBSET Order!Loaded OBVIOUS
  <2> HIDE DEF S
  <2> QED BY <1>1, <1>2, <2>1, Requiring
<1> QED BY <1>3

\* Who needs nothing but what is in a closed set requires nothing else.
LEMMA Inside ==
  ASSUME NEW e \in Order!Loaded, NEW S \in SUBSET Order!Loaded, Needs(e) \subseteq S, Order!Closed(S)
  PROVE  Order!Requires[e] \subseteq S
BY Requiring

\* In a finite set where everybody requires somebody in it, somebody requires itself.
LEMMA Knot ==
  ASSUME NEW X \in SUBSET Order!Loaded, X # {}, IsFiniteSet(X),
         \A x \in X : \E y \in X : y \in Order!Requires[x]
  PROVE  \E x \in X : x \in Order!Requires[x]
<1> DEFINE Below(x) == Order!Requires[x] \cap X
           T == {Below(x) : x \in X}
           R == StrictSubsetOrdering(X)
<1>1. T \subseteq FiniteSubsetsOf(X) /\ T # {}
  <2>1. \A x \in X : Below(x) \in SUBSET X /\ IsFiniteSet(Below(x)) BY FS_Subset
  <2> QED BY <2>1 DEF FiniteSubsetsOf
<1>2. IsWellFoundedOn(R, FiniteSubsetsOf(X)) BY FS_StrictSubsetOrderingWellFounded
<1> HIDE DEF R, T
<1>3. PICK B \in T : \A C \in T : ~(<<C, B>> \in R) BY <1>1, <1>2, WFMin
<1>4. PICK x \in X : B = Below(x) BY DEF T
<1>5. PICK y \in X : y \in Order!Requires[x] OBVIOUS
<1>6. Below(y) \subseteq Below(x) BY <1>5, Through
<1>7. Below(y) \in T /\ Below(x) \in T BY DEF T
<1>8. Below(y) = Below(x)
  <2>1. ~(<<Below(y), Below(x)>> \in R) BY <1>3, <1>4, <1>7
  <2> QED BY <1>6, <2>1 DEF R, StrictSubsetOrdering
<1>9. y \in Below(x) BY <1>5
<1> QED BY <1>8, <1>9

\* The sort: who is emitted comes after what it needs; the degree counts what
\* is not emitted of it, and the queue has those that are next.
SortedBy(o, q, g) ==
  /\ Once(o) /\ Once(q)
  /\ \A k \in 1 .. Len(o) : \A d \in Needs(o[k]) : \E j \in 1 .. k - 1 : o[j] = d
  /\ \A e \in Order!Loaded :
       /\ g[e] = Cardinality(Needs(e) \ Order!Members(o))
       /\ e \in Order!Members(q) <=> e \notin Order!Members(o) /\ g[e] = 0

\* What an extension needs is finite in number.
LEMMA Few ==
  ASSUME Many \in Nat, NEW S \in SUBSET Order!Loaded
  PROVE  /\ S \in SUBSET Nat /\ IsFiniteSet(S) /\ Cardinality(S) \in Nat /\ (Cardinality(S) = 0 <=> S = {})
         /\ \A x : Cardinality(S \ {x}) = IF x \in S THEN Cardinality(S) - 1 ELSE Cardinality(S)
<1>1. IsFiniteSet(1 .. Many) BY FS_Interval
<1>2. IsFiniteSet(S) BY <1>1, FS_Subset DEF Order!Loaded
<1>3. S \in SUBSET Nat BY DEF Order!Loaded
<1> QED BY <1>2, <1>3, FS_CardinalityType, FS_EmptySet, FS_RemoveElement

\* A sequence of some is one of more.
LEMMA Wider == ASSUME NEW T, NEW S \in SUBSET T, NEW s \in Seq(S) PROVE s \in Seq(T)
<1>1. Len(s) \in Nat /\ s \in [1 .. Len(s) -> S] BY LenProperties
<1>2. s \in [1 .. Len(s) -> T] BY <1>1
<1> QED BY <1>1, <1>2

\* Emitting the next of the queue goes on sorting.
LEMMA Emitting ==
  ASSUME Many \in Nat, NEW o \in Seq(Order!Loaded), NEW q \in Seq(Order!Loaded),
         NEW g \in [Order!Loaded -> Nat], SortedBy(o, q, g), q # <<>>,
         NEW left, left = [e \in Order!Loaded |-> g[e] - (IF e \in Order!Dependents(Head(q)) THEN 1 ELSE 0)],
         NEW R, R = {e \in Order!Dependents(Head(q)) : left[e] = 0}
  PROVE  /\ left \in [Order!Loaded -> Nat] /\ Append(o, Head(q)) \in Seq(Order!Loaded)
         /\ Tail(q) \o Order!ByName(R) \in Seq(Order!Loaded)
         /\ SortedBy(Append(o, Head(q)), Tail(q) \o Order!ByName(R), left)
<1> DEFINE node == Head(q)
           o2 == Append(o, node)
           q2 == Tail(q) \o Order!ByName(R)
<1>1. /\ node \in Order!Loaded /\ Tail(q) \in Seq(Order!Loaded)
      /\ Order!Members(q) = Order!Members(Tail(q)) \cup {node}
      /\ Once(Tail(q)) /\ node \notin Order!Members(Tail(q))
  BY Popped DEF SortedBy
<1>2. node \notin Order!Members(o) /\ g[node] = 0 BY <1>1 DEF SortedBy
<1>3. /\ o2 \in Seq(Order!Loaded) /\ Len(o2) = Len(o) + 1 /\ o2[Len(o) + 1] = node
      /\ \A k \in 1 .. Len(o) : o2[k] = o[k]
      /\ Order!Members(o2) = Order!Members(o) \cup {node} /\ Once(o2)
  BY <1>1, <1>2, Appended DEF SortedBy
<1>4. R \in SUBSET Order!Loaded BY DEF Order!Dependents
<1>5. \A e \in Order!Loaded : e \in Order!Dependents(node) <=> node \in Needs(e) \ Order!Members(o)
  BY <1>1, <1>2 DEF Order!Dependents, Needs
<1>6. \A e \in Order!Loaded : left[e] \in Nat /\ left[e] = Cardinality(Needs(e) \ Order!Members(o2))
  <2> TAKE e \in Order!Loaded
  <2> DEFINE W == Needs(e) \ Order!Members(o)
  <2>1. W \in SUBSET Order!Loaded BY DEF Needs
  <2>2. g[e] = Cardinality(W) BY DEF SortedBy
  <2>3. Needs(e) \ Order!Members(o2) = W \ {node} BY <1>3
  <2>4. node \in W <=> e \in Order!Dependents(node) BY <1>5
  <2> HIDE DEF W
  <2>5. /\ Cardinality(W \ {node}) = IF node \in W THEN Cardinality(W) - 1 ELSE Cardinality(W)
        /\ Cardinality(W) \in Nat
    BY <2>1, Few
  <2>6. W \ {node} \in SUBSET Order!Loaded BY <2>1
  <2>7. Cardinality(W \ {node}) \in Nat BY <2>6, Few
  <2>8. left[e] = g[e] - (IF e \in Order!Dependents(node) THEN 1 ELSE 0) OBVIOUS
  <2>9. left[e] = Cardinality(W \ {node})
    <3>1. CASE node \in W BY <2>2, <2>4, <2>5, <2>8, <3>1
    <3>2. CASE node \notin W BY <2>2, <2>4, <2>5, <2>8, <3>2
    <3> QED BY <3>1, <3>2
  <2> QED BY <2>3, <2>7, <2>9
<1>7. left \in [Order!Loaded -> Nat] BY <1>6
<1>8. /\ Order!ByName(R) \in Seq(R) /\ Order!Members(Order!ByName(R)) = R /\ Once(Order!ByName(R))
  <2>1. R \in SUBSET Nat /\ IsFiniteSet(R) BY <1>4, Few
  <2> QED BY <2>1, Listed
<1>9. Order!ByName(R) \in Seq(Order!Loaded) BY <1>4, <1>8, Wider
<1>10. \A e \in R : e \notin Order!Members(q)
  <2> TAKE e \in R
  <2>1. e \in Order!Loaded /\ node \in Needs(e) \ Order!Members(o) BY <1>4, <1>5
  <2>2. Needs(e) \ Order!Members(o) \in SUBSET Order!Loaded BY DEF Needs
  <2>3. g[e] # 0 BY <2>1, <2>2, Few DEF SortedBy
  <2> QED BY <2>1, <2>3 DEF SortedBy
<1>11. /\ q2 \in Seq(Order!Loaded) /\ Order!Members(q2) = Order!Members(Tail(q)) \cup R /\ Once(q2)
  <2> DEFINE b == Order!ByName(R)
             t == Tail(q)
  <2>1. Order!Members(t) \cap Order!Members(b) = {} BY <1>1, <1>8, <1>10
  <2>2. b \in Seq(Order!Loaded) /\ t \in Seq(Order!Loaded) /\ Once(b) /\ Once(t) BY <1>1, <1>8, <1>9
  <2> HIDE DEF b, t
  <2>3. t \o b \in Seq(Order!Loaded) /\ Once(t \o b) /\ Order!Members(t \o b) = Order!Members(t) \cup Order!Members(b)
    BY <2>1, <2>2, Joined
  <2> QED BY <1>8, <2>3 DEF b, t
<1>12. \A e \in Order!Loaded : g[e] = 0 => Needs(e) \subseteq Order!Members(o)
  <2> TAKE e \in Order!Loaded
  <2> DEFINE W == Needs(e) \ Order!Members(o)
  <2>1. W \in SUBSET Order!Loaded /\ g[e] = Cardinality(W) BY DEF Needs, SortedBy
  <2>2. W = {} => Needs(e) \subseteq Order!Members(o) OBVIOUS
  <2> HIDE DEF W
  <2> QED BY <2>1, <2>2, Few
<1>13. \A e \in Order!Members(o) : Needs(e) \subseteq Order!Members(o)
  <2> TAKE e \in Order!Members(o)
  <2>1. PICK k \in 1 .. Len(o) : o[k] = e BY DEF Order!Members
  <2>2. \A j \in 1 .. k - 1 : j \in 1 .. Len(o) BY LenProperties
  <2>3. \A d \in Needs(e) : \E j \in 1 .. k - 1 : o[j] = d BY <2>1 DEF SortedBy
  <2> QED BY <2>2, <2>3 DEF Order!Members
<1>14. \A e \in Order!Loaded : e \in Order!Members(q2) <=> e \notin Order!Members(o2) /\ left[e] = 0
  <2> TAKE e \in Order!Loaded
  <2>1. CASE e = node
    <3>1. node \notin R BY <1>1, <1>10
    <3> QED BY <1>1, <1>3, <1>11, <2>1, <3>1
  <2>2. CASE e # node /\ e \in Order!Dependents(node)
    <3>1. node \in Needs(e) /\ node \notin Order!Members(o) BY <1>5, <2>2
    <3>2. e \notin Order!Members(o) BY <1>13, <3>1
    <3>3. e \notin Order!Members(q)
      <4>1. g[e] # 0 BY <1>12, <3>1
      <4> QED BY <4>1 DEF SortedBy
    <3> QED BY <1>1, <1>3, <1>11, <2>2, <3>2, <3>3
  <2>3. CASE e # node /\ e \notin Order!Dependents(node)
    <3>1. e \notin R /\ left[e] = g[e] BY <2>3
    <3>2. e \in Order!Members(q) <=> e \notin Order!Members(o) /\ g[e] = 0 BY DEF SortedBy
    <3> QED BY <1>1, <1>3, <1>11, <2>3, <3>1, <3>2
  <2> QED BY <2>1, <2>2, <2>3
<1>15. \A k \in 1 .. Len(o2) : \A d \in Needs(o2[k]) : \E j \in 1 .. k - 1 : o2[j] = d
  <2> TAKE k \in 1 .. Len(o2)
  <2> TAKE d \in Needs(o2[k])
  <2>1. Len(o) \in Nat BY LenProperties
  <2>2. CASE k \in 1 .. Len(o)
    <3>1. PICK j \in 1 .. k - 1 : o[j] = d BY <1>3, <2>2 DEF SortedBy
    <3>2. j \in 1 .. Len(o) BY <2>1, <2>2
    <3> QED BY <1>3, <3>1, <3>2
  <2>3. CASE k = Len(o) + 1
    <3>1. d \in Order!Members(o) BY <1>1, <1>2, <1>3, <1>12, <2>3
    <3>2. PICK j \in 1 .. Len(o) : o[j] = d BY <3>1 DEF Order!Members
    <3>3. j \in 1 .. k - 1 BY <2>1, <2>3
    <3> QED BY <1>3, <3>2, <3>3
  <2> QED BY <1>3, <2>1, <2>2, <2>3
<1>16. SortedBy(o2, q2, left) BY <1>3, <1>6, <1>11, <1>14, <1>15 DEF SortedBy
<1> QED BY <1>3, <1>7, <1>11, <1>16

\* The path of the search: each needs the next, and so requires all later ones.
Walked(p, v) ==
  /\ Once(p) /\ Order!Members(p) \subseteq v
  /\ \A j, k \in 1 .. Len(p) : j < k =>
       /\ p[k] \in Order!Requires[p[j]]
       /\ k = j + 1 => p[k] \in needs[p[j]]

\* A cycle: each needs the next, the last is the first, and all require all.
Ring(cycle) ==
  /\ Len(cycle) > 1 /\ cycle[1] = cycle[Len(cycle)]
  /\ \A k \in 1 .. Len(cycle) - 1 : cycle[k + 1] \in needs[cycle[k]]
  /\ \A d, e \in Order!Members(cycle) : d \in Order!Requires[e]
Rings(c) == \A cycle \in Order!Members(c) : Ring(cycle)

\* Who was left and requires itself has its knot reported.
Reported(c, e) == \E cycle \in Order!Members(c) : Order!Within(cycle, e)
KnotsFound(p, v, c) ==
  \A e \in v \ Order!Members(p) : e \in Order!Requires[e] => Reported(c, e)

\* A neighbour that was followed was left, is further up, or closed a cycle.
Settling(p, v, c, j, d) ==
  \/ d \in v \ Order!Members(p)
  \/ \E k \in 1 .. Len(p) : j < k /\ p[k] = d
  \/ \E cycle \in Order!Members(c) : p[j] \in Order!Members(cycle) /\ d \in Order!Members(cycle)
Pursued(p, v, r, c) ==
  \A j \in 1 .. Len(p) : \A d \in Order!Neighbours(p[j]) \ r[p[j]] : Settling(p, v, c, j, d)

Search(p, v, r, c) == Walked(p, v) /\ Rings(c) /\ KnotsFound(p, v, c) /\ Pursued(p, v, r, c)

\* The search enters one that was not visited, by its root or by a neighbour.
LEMMA Entering ==
  ASSUME NEW p \in Seq(Order!Loaded), NEW v \in SUBSET Order!Loaded, NEW c,
         NEW r, NEW r2, Search(p, v, r, c),
         NEW node \in Order!Loaded \ v, p # <<>> => node \in needs[p[Len(p)]],
         \A d \in Order!Loaded : d # node => \A x \in r[d] \ r2[d] : x = node /\ p # <<>> /\ d = p[Len(p)],
         r2[node] = Order!Neighbours(node)
  PROVE  Search(Append(p, node), v \cup {node}, r2, c)
<1> DEFINE q == Append(p, node)
           w == v \cup {node}
<1>1. /\ Len(q) = Len(p) + 1 /\ q[Len(p) + 1] = node /\ Len(p) \in Nat
      /\ \A k \in 1 .. Len(p) : q[k] = p[k] /\ p[k] \in Order!Loaded /\ p[k] \in Order!Members(p)
      /\ Order!Members(q) = Order!Members(p) \cup {node}
      /\ Once(p) /\ node \notin Order!Members(p) => Once(q)
  BY Appended, LenProperties, ElementOfSeq DEF Order!Members
<1>2. Order!Members(p) \subseteq v /\ node \notin Order!Members(p) /\ Once(q) BY <1>1 DEF Search, Walked
<1> HIDE DEF q, w
<1>3. \A k \in 1 .. Len(q) : k \in 1 .. Len(p) \/ k = Len(p) + 1 BY <1>1
<1>4. \A j \in 1 .. Len(p) : node \in Order!Requires[p[j]] /\ (j = Len(p) => node \in needs[p[j]])
  <2> TAKE j \in 1 .. Len(p)
  <2>1. p # <<>> /\ Len(p) \in 1 .. Len(p) BY <1>1, EmptySeq
  <2>2. p[Len(p)] \in Order!Loaded /\ node \in needs[p[Len(p)]] BY <1>1, <2>1
  <2>3. node \in Order!Requires[p[Len(p)]]
    <3>1. node \in Needs(p[Len(p)]) BY <2>2 DEF Needs
    <3> QED BY <2>2, <3>1, Direct
  <2>4. CASE j = Len(p) BY <2>2, <2>3, <2>4
  <2>5. CASE j # Len(p)
    <3>1. j < Len(p) BY <1>1, <2>5
    <3>2. p[Len(p)] \in Order!Requires[p[j]] BY <2>1, <3>1 DEF Search, Walked
    <3>3. p[j] \in Order!Loaded BY <1>1
    <3>4. node \in Order!Requires[p[j]] BY <2>3, <3>2, <3>3, Through
    <3> QED BY <2>5, <3>4
  <2> QED BY <2>4, <2>5
<1>5. Walked(q, w)
  <2>1. Order!Members(q) \subseteq w BY <1>1, <1>2 DEF w
  <2>2. ASSUME NEW j \in 1 .. Len(q), NEW k \in 1 .. Len(q), j < k
        PROVE  q[k] \in Order!Requires[q[j]] /\ (k = j + 1 => q[k] \in needs[q[j]])
    <3>1. j \in 1 .. Len(p) BY <1>1, <2>2
    <3>2. CASE k \in 1 .. Len(p) BY <1>1, <2>2, <3>1, <3>2 DEF Search, Walked
    <3>3. CASE k = Len(p) + 1
      <4>1. k = j + 1 => j = Len(p) BY <1>1, <3>1, <3>3
      <4> QED BY <1>1, <1>4, <3>1, <3>3, <4>1
    <3> QED BY <1>3, <3>2, <3>3
  <2> QED BY <1>2, <2>1, <2>2 DEF Walked
<1>6. w \ Order!Members(q) = v \ Order!Members(p) BY <1>1, <1>2 DEF w
<1>7. KnotsFound(q, w, c) BY <1>6 DEF Search, KnotsFound
<1>8. Pursued(q, w, r2, c)
  <2>1. SUFFICES ASSUME NEW j \in 1 .. Len(q), NEW d \in Order!Neighbours(q[j]) \ r2[q[j]]
                 PROVE  Settling(q, w, c, j, d)
    BY DEF Pursued
  <2>2. j \in 1 .. Len(p)
    <3>1. j # Len(p) + 1 BY <1>1
    <3> QED BY <1>3, <3>1
  <2>3. q[j] = p[j] /\ p[j] # node /\ p[j] \in Order!Loaded BY <1>1, <1>2, <2>2
  <2>4. CASE d \in r[p[j]]
    <3>1. d = node /\ p # <<>> /\ p[j] = p[Len(p)] BY <2>3, <2>4
    <3>2. Len(p) + 1 \in 1 .. Len(q) /\ j < Len(p) + 1 BY <1>1, <2>2
    <3> QED BY <1>1, <3>1, <3>2 DEF Settling
  <2>5. CASE d \notin r[p[j]]
    <3>1. Settling(p, v, c, j, d) BY <2>2, <2>3, <2>5 DEF Search, Pursued
    <3>2. \A k \in 1 .. Len(p) : k \in 1 .. Len(q) /\ q[k] = p[k] BY <1>1
    <3> QED BY <1>6, <2>3, <3>1, <3>2 DEF Settling
  <2> QED BY <2>4, <2>5
<1> QED BY <1>5, <1>7, <1>8 DEF Search, q, w

\* A neighbour on the path closes a ring.
LEMMA Closing ==
  ASSUME NEW p \in Seq(Order!Loaded), NEW v, Walked(p, v), NEW start \in 1 .. Len(p),
         p[start] \in needs[p[Len(p)]],
         NEW cycle, cycle = Append(SubSeq(p, start, Len(p)), p[start])
  PROVE  /\ cycle \in Seq(Order!Loaded) /\ Ring(cycle)
         /\ p[start] \in Order!Members(cycle) /\ p[Len(p)] \in Order!Members(cycle)
<1> DEFINE n == Len(p)
           m == n - start + 1
           s == SubSeq(p, start, n)
<1>1. n \in Nat /\ start \in Nat /\ m \in Nat \ {0} /\ start <= n BY LenProperties
<1>2. \A i \in start .. n : i \in 1 .. n /\ p[i] \in Order!Loaded BY <1>1, ElementOfSeq
<1>3. s \in Seq(Order!Loaded) /\ Len(s) = m /\ \A i \in 1 .. m : s[i] = p[start + i - 1]
  <2>1. start \in Int /\ n \in Int BY <1>1
  <2> HIDE DEF n
  <2> QED BY <1>1, <1>2, <2>1, SubSeqProperties DEF m
<1> HIDE DEF s
<1>4. /\ cycle \in Seq(Order!Loaded) /\ Len(cycle) = m + 1 /\ cycle[m + 1] = p[start]
      /\ \A i \in 1 .. m : cycle[i] = s[i]
  <2>1. cycle = Append(s, p[start]) /\ p[start] \in Order!Loaded BY <1>1, <1>2 DEF s
  <2> HIDE DEF n, m
  <2>2. /\ Append(s, p[start]) \in Seq(Order!Loaded) /\ Len(Append(s, p[start])) = Len(s) + 1
        /\ Append(s, p[start])[Len(s) + 1] = p[start]
        /\ \A k \in 1 .. Len(s) : Append(s, p[start])[k] = s[k]
    BY <1>3, <2>1, Appended
  <2> QED BY ONLY <1>3, <2>1, <2>2
<1>5. \A i \in 1 .. m : cycle[i] = p[start + i - 1] /\ start + i - 1 \in start .. n BY <1>1, <1>3, <1>4
<1>6. 1 \in 1 .. m /\ m \in 1 .. m /\ start + 1 - 1 = start /\ start + m - 1 = n BY <1>1
<1>7. cycle[1] = p[start] /\ cycle[m] = p[n] BY <1>5, <1>6
<1>8. p[n] \in Order!Loaded /\ p[start] \in Order!Loaded /\ p[start] \in Order!Requires[p[n]]
  <2>1. n \in start .. n /\ start \in start .. n BY <1>1
  <2>2. p[start] \in Needs(p[n]) BY <1>2, <2>1 DEF Needs
  <2> QED BY <1>2, <2>1, <2>2, Direct
<1> HIDE DEF n, m
<1>9. \A k \in 1 .. Len(cycle) - 1 : cycle[k + 1] \in needs[cycle[k]]
  <2> TAKE k \in 1 .. Len(cycle) - 1
  <2>1. k \in 1 .. m BY <1>1, <1>4
  <2>2. CASE k = m BY <1>4, <1>7, <2>2 DEF n
  <2>3. CASE k # m
    <3>1. k + 1 \in 1 .. m BY <1>1, <2>1, <2>3
    <3> DEFINE i == start + k - 1
    <3>4. i \in start .. n /\ start + (k + 1) - 1 \in start .. n BY <1>5, <2>1, <3>1
    <3>5. i < i + 1 /\ i + 1 = start + (k + 1) - 1 BY <1>1, <2>1
    <3>2. i \in 1 .. n /\ i + 1 \in 1 .. n /\ i < i + 1 /\ i + 1 = start + (k + 1) - 1 BY <1>2, <3>4, <3>5
    <3>3. cycle[k] = p[i] /\ cycle[k + 1] = p[i + 1] BY <1>5, <2>1, <3>1, <3>2
    <3> HIDE DEF i
    <3> QED BY <3>2, <3>3 DEF Walked, n
  <2> QED BY <2>2, <2>3
<1>10. \A e \in Order!Members(cycle) : \E i \in start .. n : e = p[i]
  <2> TAKE e \in Order!Members(cycle)
  <2>1. PICK k \in 1 .. m + 1 : e = cycle[k] BY <1>4 DEF Order!Members
  <2>2. CASE k \in 1 .. m
    <3>1. cycle[k] = p[start + k - 1] /\ start + k - 1 \in start .. n BY <1>5, <2>2
    <3> QED BY <2>1, <3>1
  <2>3. CASE k = m + 1
    <3>1. start \in start .. n BY <1>1
    <3> QED BY <1>4, <2>1, <2>3, <3>1
  <2>4. k \in 1 .. m \/ k = m + 1 BY <1>1, <2>1
  <2> QED BY <2>2, <2>3, <2>4
<1>11. \A i, j \in start .. n : i < j => p[j] \in Order!Requires[p[i]] BY <1>2 DEF Walked, n
<1>12. \A i \in start .. n : p[start] \in Order!Requires[p[i]]
  <2> TAKE i \in start .. n
  <2>1. CASE i = n BY <1>8, <2>1
  <2>2. CASE i # n
    <3>1. n \in start .. n /\ i < n BY <1>1, <2>2
    <3>2. p[n] \in Order!Requires[p[i]] /\ p[i] \in Order!Loaded BY <1>2, <1>11, <3>1
    <3> QED BY <1>8, <3>2, Through
  <2> QED BY <2>1, <2>2
<1>13. \A i, j \in start .. n : p[j] \in Order!Requires[p[i]]
  <2> TAKE i, j \in start .. n
  <2>1. CASE j = start BY <1>12, <2>1
  <2>2. CASE j # start
    <3>1. start \in start .. n /\ start < j BY <1>1, <2>2
    <3>2. p[j] \in Order!Requires[p[start]] BY <1>11, <3>1
    <3>3. p[start] \in Order!Requires[p[i]] /\ p[i] \in Order!Loaded BY <1>2, <1>12
    <3> QED BY <3>2, <3>3, Through
  <2> QED BY <2>1, <2>2
<1>14. \A d, e \in Order!Members(cycle) : d \in Order!Requires[e] BY <1>10, <1>13
<1>15. Len(cycle) > 1 /\ cycle[1] = cycle[Len(cycle)] BY <1>1, <1>4, <1>7
<1>16. p[start] \in Order!Members(cycle) /\ p[n] \in Order!Members(cycle)
  <2>1. 1 \in 1 .. Len(cycle) /\ m \in 1 .. Len(cycle) BY <1>1, <1>4
  <2> QED BY <1>7, <2>1 DEF Order!Members
<1> QED BY <1>4, <1>9, <1>14, <1>15, <1>16 DEF Ring, n

\* The next neighbour was there before: it closes a ring, or was left.
LEMMA Following ==
  ASSUME NEW p \in Seq(Order!Loaded), NEW v, NEW c \in Seq(Seq(Order!Loaded)), NEW r, NEW r2, Search(p, v, r, c),
         NEW next \in v, next \in needs[p[Len(p)]],
         \A d \in Order!Loaded : \A x \in r[d] \ r2[d] : x = next /\ d = p[Len(p)]
  PROVE  /\ next \notin Order!Members(p) => Search(p, v, r2, c)
         /\ \A start \in 1 .. Len(p) : p[start] = next =>
              LET c2 == Append(c, Append(SubSeq(p, start, Len(p)), next))
              IN  c2 \in Seq(Seq(Order!Loaded)) /\ Search(p, v, r2, c2)
<1>1. \A j \in 1 .. Len(p) : p[j] \in Order!Loaded BY ElementOfSeq
<1>2. ASSUME next \notin Order!Members(p) PROVE Search(p, v, r2, c)
  <2>1. SUFFICES ASSUME NEW j \in 1 .. Len(p), NEW d \in Order!Neighbours(p[j]) \ r2[p[j]]
                 PROVE  Settling(p, v, c, j, d)
    BY DEF Search, Pursued
  <2>2. CASE d = next BY <1>2, <2>2 DEF Settling
  <2>3. CASE d # next
    <3>1. d \notin r[p[j]] BY <1>1, <2>3
    <3> QED BY <3>1 DEF Search, Pursued
  <2> QED BY <2>2, <2>3
<1>3. ASSUME NEW start \in 1 .. Len(p), p[start] = next,
             NEW cycle, cycle = Append(SubSeq(p, start, Len(p)), next)
      PROVE  Append(c, cycle) \in Seq(Seq(Order!Loaded)) /\ Search(p, v, r2, Append(c, cycle))
  <2>1. /\ cycle \in Seq(Order!Loaded) /\ Ring(cycle)
        /\ next \in Order!Members(cycle) /\ p[Len(p)] \in Order!Members(cycle)
    BY <1>3, Closing DEF Search
  <2> DEFINE c2 == Append(c, cycle)
  <2>2. c2 \in Seq(Seq(Order!Loaded)) /\ Order!Members(c2) = Order!Members(c) \cup {cycle} BY <2>1, Appended
  <2> HIDE DEF c2
  <2>3. Rings(c2) BY <2>1, <2>2 DEF Search, Rings
  <2>4. KnotsFound(p, v, c2) BY <2>2 DEF Search, KnotsFound, Reported
  <2>5. Pursued(p, v, r2, c2)
    <3>1. SUFFICES ASSUME NEW j \in 1 .. Len(p), NEW d \in Order!Neighbours(p[j]) \ r2[p[j]]
                   PROVE  Settling(p, v, c2, j, d)
      BY DEF Pursued
    <3>2. CASE d \in r[p[j]] BY <1>1, <2>1, <2>2, <3>2 DEF Settling
    <3>3. CASE d \notin r[p[j]]
      <4>1. Settling(p, v, c, j, d) BY <3>3 DEF Search, Pursued
      <4> QED BY <2>2, <4>1 DEF Settling
    <3> QED BY <3>2, <3>3
  <2> QED BY <2>2, <2>3, <2>4, <2>5 DEF Search, c2
<1> QED BY <1>2, <1>3

\* A knot lies in what remains.
LEMMA Remains ==
  ASSUME loadOrder \in Seq(Order!Loaded), NEW q, NEW g, SortedBy(loadOrder, q, g), NEW k \in 1 .. Len(loadOrder)
  PROVE  loadOrder[k] \notin Order!Requires[loadOrder[k]]
<1> DEFINE S == {loadOrder[j] : j \in 1 .. k - 1}
<1>1. \A j \in 1 .. k - 1 : j \in 1 .. Len(loadOrder) BY LenProperties
<1>2. S \in SUBSET Order!Loaded BY <1>1, ElementOfSeq
<1>3. \A i \in 1 .. Len(loadOrder) : \A d \in Needs(loadOrder[i]) : \E j \in 1 .. i - 1 : loadOrder[j] = d
  BY DEF SortedBy
<1>4. Needs(loadOrder[k]) \subseteq S BY <1>3
<1>5. \A i \in 1 .. k - 1 : \A j \in 1 .. i - 1 : j \in 1 .. k - 1 BY LenProperties
<1>6. Order!Closed(S)
  <2>1. ASSUME NEW i \in 1 .. k - 1 PROVE Needs(loadOrder[i]) \subseteq S
    <3>1. \A d \in Needs(loadOrder[i]) : \E j \in 1 .. i - 1 : loadOrder[j] = d BY <1>1, <1>3
    <3>2. \A j \in 1 .. i - 1 : j \in 1 .. k - 1 BY <1>5
    <3> QED BY <3>1, <3>2
  <2>2. \A e \in S : Needs(e) \subseteq S BY <2>1
  <2> QED BY <2>2 DEF Order!Closed, Needs
<1>7. loadOrder[k] \in Order!Loaded BY ElementOfSeq
<1>8. loadOrder[k] \notin S
  <2>1. \A j \in 1 .. k - 1 : j # k BY LenProperties
  <2> QED BY <1>1, <2>1 DEF SortedBy, Once
<1> HIDE DEF S
<1> QED BY <1>2, <1>4, <1>6, <1>7, <1>8, Inside

\* Leaving an extension, its knot is reported.
LEMMA Leaving ==
  ASSUME loadOrder \in Seq(Order!Loaded), NEW q, NEW g, SortedBy(loadOrder, q, g),
         NEW p \in Seq(Order!Loaded), p # <<>>, NEW v \in SUBSET Order!Loaded, NEW c, NEW r, Search(p, v, r, c),
         r[p[Len(p)]] = {}
  PROVE  Search(But(p), v, r, c)
<1> DEFINE n == Len(p)
           t == But(p)
           top == p[n]
<1>1. /\ t \in Seq(Order!Loaded) /\ n \in Nat \ {0} /\ Len(t) = n - 1
      /\ \A k \in 1 .. Len(t) : k \in 1 .. n /\ t[k] = p[k]
      /\ top \in Order!Loaded /\ Order!Members(p) = Order!Members(t) \cup {top}
      /\ Once(t) /\ top \notin Order!Members(t)
  <2>1. Once(p) BY DEF Search, Walked
  <2> QED BY <2>1, Shortened
<1> HIDE DEF t
<1>2. n \in 1 .. n /\ \A k \in 1 .. n : k = n \/ k \in 1 .. Len(t) BY <1>1
<1>3. top \in v BY <1>1 DEF Search, Walked
<1>4. v \ Order!Members(t) = (v \ Order!Members(p)) \cup {top} BY <1>1, <1>3
<1>5. Walked(t, v) BY <1>1 DEF Search, Walked
<1>6. ASSUME top \in Order!Requires[top] PROVE Reported(c, top)
  <2>1. PICK d \in Needs(top) : d = top \/ top \in Order!Requires[d] BY <1>1, <1>6, Begins
  <2>2. d \in Order!Loaded BY DEF Needs
  <2>3. d \in Order!Requires[top] BY <1>1, <2>1, Direct
  <2>4. top \in Order!Requires[d] /\ d \in Order!Requires[d]
    <3>1. top \in Order!Requires[d] BY <1>6, <2>1
    <3> QED BY <2>2, <2>3, <3>1, Through
  <2>5. d \in Order!Neighbours(top)
    <3>1. d \notin Order!Members(loadOrder) BY <2>4, Remains DEF Order!Members
    <3> QED BY <2>1, <2>2, <3>1 DEF Order!Neighbours, Order!Remaining, Needs
  <2>6. Settling(p, v, c, n, d) BY <1>2, <2>5 DEF Search, Pursued
  <2>7. CASE d \in v \ Order!Members(p)
    <3>1. PICK cycle \in Order!Members(c) : Order!Within(cycle, d) BY <2>4, <2>7 DEF Search, KnotsFound, Reported
    <3>2. ASSUME NEW e \in Order!Members(cycle) PROVE e \in Order!Requires[top] /\ top \in Order!Requires[e]
      <4>1. e \in Order!Requires[d] /\ d \in Order!Requires[e] BY <3>1, <3>2 DEF Order!Within
      <4>2. e \in Order!Loaded BY <2>2, <4>1, Requiring
      <4> QED BY <1>1, <2>2, <2>3, <2>4, <4>1, <4>2, Through
    <3> QED BY <3>2 DEF Reported, Order!Within
  <2>8. CASE \E k \in 1 .. Len(p) : n < k /\ p[k] = d BY <1>1, <2>8
  <2>9. CASE \E cycle \in Order!Members(c) : p[n] \in Order!Members(cycle) /\ d \in Order!Members(cycle)
    BY <2>9 DEF Search, Rings, Ring, Reported, Order!Within
  <2> QED BY <2>6, <2>7, <2>8, <2>9 DEF Settling
<1>7. KnotsFound(t, v, c) BY <1>4, <1>6 DEF Search, KnotsFound
<1>8. Pursued(t, v, r, c)
  <2>1. SUFFICES ASSUME NEW j \in 1 .. Len(t), NEW d \in Order!Neighbours(t[j]) \ r[t[j]]
                 PROVE  Settling(t, v, c, j, d)
    BY DEF Pursued
  <2>2. j \in 1 .. Len(p) /\ t[j] = p[j] BY <1>1
  <2>3. Settling(p, v, c, j, d) BY <2>2 DEF Search, Pursued
  <2>4. CASE d \in v \ Order!Members(p) BY <1>4, <2>4 DEF Settling
  <2>5. CASE \E k \in 1 .. Len(p) : j < k /\ p[k] = d
    <3>1. PICK k \in 1 .. Len(p) : j < k /\ p[k] = d BY <2>5
    <3>2. CASE k = n BY <1>4, <3>1, <3>2 DEF Settling
    <3>3. CASE k \in 1 .. Len(t) BY <1>1, <3>1, <3>3 DEF Settling
    <3> QED BY <1>2, <3>2, <3>3
  <2>6. CASE \E cycle \in Order!Members(c) : p[j] \in Order!Members(cycle) /\ d \in Order!Members(cycle)
    BY <2>2, <2>6 DEF Settling
  <2> QED BY <2>3, <2>4, <2>5, <2>6 DEF Settling
<1> QED BY <1>5, <1>7, <1>8 DEF Search, t

\* The invariant.
OrderIInv ==
  /\ Order!TypeOK /\ Order!DependenciesLoadFirst
  /\ \A e \in Order!Loaded : unfollowed[e] \subseteq needs[e]
  /\ ~ordered =>
       /\ SortedBy(loadOrder, loadQueue, degree)
       /\ loadQueue # <<>> => visited = {} /\ searchPath = <<>> /\ cycles = <<>>
       /\ Search(searchPath, visited, unfollowed, cycles)

\* Nothing was searched yet.
LEMMA Nothing ==
  ASSUME NEW r PROVE Search(<<>>, {}, r, <<>>)
<1>1. Len(<<>>) = 0 OBVIOUS
<1>2. Order!Members(<<>>) = {} BY <1>1 DEF Order!Members
<1> QED BY <1>1, <1>2 DEF Search, Walked, Once, Rings, KnotsFound, Pursued

\* What an extension needs stays what it needs.
LEMMA Stays ==
  ASSUME needs' = needs
  PROVE  /\ Order!Requires' = Order!Requires
         /\ \A e : Needs(e)' = Needs(e)
BY DEF Order!Requires, Order!Closed, Order!Loaded, Needs

\* What is said of the sort in the new state is what the sort says there.
LEMMA SortStays ==
  ASSUME needs' = needs, SortedBy(loadOrder', loadQueue', degree')
  PROVE  SortedBy(loadOrder, loadQueue, degree)'
BY DEF SortedBy, Needs, Order!Members, Order!Loaded, Once

\* And of the search, while nothing is emitted.
LEMMA SearchStays ==
  ASSUME needs' = needs, loadOrder' = loadOrder, Search(searchPath', visited', unfollowed', cycles')
  PROVE  Search(searchPath, visited, unfollowed, cycles)'
<1>1. Order!Requires' = Order!Requires BY Stays
<1>2. Walked(searchPath, visited)' BY <1>1 DEF Search, Walked, Order!Members, Once
<1>3. Rings(cycles)' BY <1>1 DEF Search, Rings, Ring, Order!Members
<1>4. KnotsFound(searchPath, visited, cycles)'
  BY <1>1 DEF Search, KnotsFound, Reported, Order!Within, Order!Members
<1>5. Pursued(searchPath, visited, unfollowed, cycles)'
  <2>1. Order!Remaining' = Order!Remaining BY DEF Order!Remaining, Order!Members, Order!Loaded
  <2>2. Pursued(searchPath', visited', unfollowed', cycles') BY DEF Search
  <2> QED BY <2>1, <2>2 DEF Pursued, Settling, Order!Members, Order!Neighbours
<1> QED BY <1>2, <1>3, <1>4, <1>5 DEF Search

\* At the start.
LEMMA OrderInitial == ASSUME Order!OrderAssumption, Order!Init PROVE OrderIInv
<1> USE DEF Order!OrderAssumption
<1> DEFINE R == {e \in Order!Loaded : Order!InDegree(e) = 0}
<1>1. R \in SUBSET Order!Loaded OBVIOUS
<1> HIDE DEF R
<1>2. /\ Order!ByName(R) \in Seq(R) /\ Order!Members(Order!ByName(R)) = R /\ Once(Order!ByName(R))
  <2>1. R \in SUBSET Nat /\ IsFiniteSet(R) BY <1>1, Few
  <2> QED BY <2>1, Listed
<1>3. loadQueue = Order!ByName(R) /\ loadQueue \in Seq(Order!Loaded)
  <2>1. loadQueue = Order!ByName(R) BY DEF Order!Init, R
  <2> QED BY <1>1, <1>2, <2>1, Wider
<1>4. \A e \in Order!Loaded : degree[e] = Cardinality(Needs(e)) /\ degree[e] \in Nat
  <2> TAKE e \in Order!Loaded
  <2>1. degree[e] = Order!Cardinality(Needs(e)) BY DEF Order!Init, Order!InDegree, Needs
  <2>2. Needs(e) \in SUBSET Order!Loaded BY DEF Needs
  <2> QED BY <2>1, <2>2, Counting, Few
<1>5. degree \in [Order!Loaded -> Nat]
  <2>1. degree = [e \in Order!Loaded |-> degree[e]] BY DEF Order!Init
  <2> QED BY <1>4, <2>1
<1>6. Order!TypeOK
  <2>1. unfollowed \in [Order!Loaded -> SUBSET Order!Loaded] BY DEF Order!Init
  <2>2. loadOrder \in Seq(Order!Loaded) /\ searchPath \in Seq(Order!Loaded) /\ cycles \in Seq(Seq(Order!Loaded))
    BY EmptySeq DEF Order!Init
  <2> QED BY <1>3, <1>5, <2>1, <2>2 DEF Order!Init, Order!TypeOK
<1>7. loadOrder = <<>> /\ Len(loadOrder) = 0 BY DEF Order!Init
<1>8. Order!Members(loadOrder) = {} BY <1>7 DEF Order!Members
<1>9. SortedBy(loadOrder, loadQueue, degree)
  <2>1. \A e \in Order!Loaded : e \in R <=> degree[e] = 0 BY DEF R, Order!Init
  <2>2. \A e \in Order!Loaded : Needs(e) \ Order!Members(loadOrder) = Needs(e) BY <1>8
  <2>3. /\ Once(loadOrder)
        /\ \A k \in 1 .. Len(loadOrder) : \A d \in Needs(loadOrder[k]) :
             \E j \in 1 .. k - 1 : loadOrder[j] = d
    BY <1>7 DEF Once
  <2>4. Once(loadQueue) /\ Order!Members(loadQueue) = R BY <1>2, <1>3
  <2>5. \A e \in Order!Loaded : degree[e] = Cardinality(Needs(e) \ Order!Members(loadOrder)) BY <1>4, <2>2
  <2> QED BY <1>8, <2>1, <2>3, <2>4, <2>5 DEF SortedBy
<1>10. Search(searchPath, visited, unfollowed, cycles) BY Nothing DEF Order!Init
<1>11. \A e \in Order!Loaded : unfollowed[e] \subseteq needs[e] BY DEF Order!Init
<1> QED BY <1>6, <1>9, <1>10, <1>11 DEF Order!Init, OrderIInv, Order!DependenciesLoadFirst

\* Emitting keeps the invariant.
LEMMA EmitKeeps == ASSUME Order!OrderAssumption, OrderIInv, Order!Emit PROVE OrderIInv'
<1> USE DEF Order!OrderAssumption
<1>1. ~ordered /\ loadQueue # <<>> /\ SortedBy(loadOrder, loadQueue, degree) BY DEF OrderIInv, Order!Emit
<1>2. loadOrder \in Seq(Order!Loaded) /\ loadQueue \in Seq(Order!Loaded) /\ degree \in [Order!Loaded -> Nat]
  BY DEF OrderIInv, Order!TypeOK
<1> DEFINE left == [e \in Order!Loaded |-> degree[e] - (IF e \in Order!Dependents(Head(loadQueue)) THEN 1 ELSE 0)]
           R == {e \in Order!Dependents(Head(loadQueue)) : left[e] = 0}
<1>3. loadOrder' = Append(loadOrder, Head(loadQueue)) /\ degree' = left
      /\ loadQueue' = Tail(loadQueue) \o Order!ByName(R)
  BY DEF Order!Emit
<1>4. UNCHANGED <<needs, visited, searchPath, unfollowed, cycles, ordered>> BY DEF Order!Emit, Order!searchVars
<1>5. left = [e \in Order!Loaded |-> degree[e] - (IF e \in Order!Dependents(Head(loadQueue)) THEN 1 ELSE 0)]
      /\ R = {e \in Order!Dependents(Head(loadQueue)) : left[e] = 0}
  OBVIOUS
<1> HIDE DEF left, R
<1>6. /\ degree' \in [Order!Loaded -> Nat] /\ loadOrder' \in Seq(Order!Loaded) /\ loadQueue' \in Seq(Order!Loaded)
      /\ SortedBy(loadOrder', loadQueue', degree')
  <2>1. /\ left \in [Order!Loaded -> Nat] /\ Append(loadOrder, Head(loadQueue)) \in Seq(Order!Loaded)
        /\ Tail(loadQueue) \o Order!ByName(R) \in Seq(Order!Loaded)
        /\ SortedBy(Append(loadOrder, Head(loadQueue)), Tail(loadQueue) \o Order!ByName(R), left)
    BY <1>1, <1>2, <1>5, Emitting
  <2> QED BY <1>3, <2>1
<1>7. Order!TypeOK' BY <1>4, <1>6 DEF OrderIInv, Order!TypeOK, Order!Loaded, Order!NotThere
<1>8. SortedBy(loadOrder, loadQueue, degree)' BY <1>4, <1>6, SortStays
<1>9. visited = {} /\ searchPath = <<>> /\ cycles = <<>> BY <1>1 DEF OrderIInv
<1>10. Search(searchPath, visited, unfollowed, cycles)'
  <2>1. Len(<<>>) = 0 /\ searchPath' = <<>> /\ cycles' = <<>> /\ visited' = {} BY <1>4, <1>9
  <2> QED BY <2>1 DEF Search, Walked, Once, Rings, KnotsFound, Pursued, Order!Members
<1>11. (\A e \in Order!Loaded : unfollowed[e] \subseteq needs[e])' BY <1>4 DEF OrderIInv, Order!Loaded
<1> QED BY <1>1, <1>4, <1>7, <1>8, <1>9, <1>10, <1>11 DEF OrderIInv, Order!DependenciesLoadFirst

\* The search goes into an extension.
LEMMA EnterKeeps ==
  ASSUME OrderIInv, Order!Searching, NEW node \in Order!Loaded \ visited,
         NEW left \in [Order!Loaded -> SUBSET Order!Loaded], Order!Enter(node, left),
         searchPath # <<>> => node \in needs[searchPath[Len(searchPath)]],
         \A d \in Order!Loaded : left[d] \subseteq needs[d],
         \A d \in Order!Loaded : \A x \in unfollowed[d] \ left[d] :
           x = node /\ searchPath # <<>> /\ d = searchPath[Len(searchPath)]
  PROVE  OrderIInv'
<1>1. /\ ~ordered /\ loadQueue = <<>> /\ SortedBy(loadOrder, loadQueue, degree)
      /\ Search(searchPath, visited, unfollowed, cycles) /\ Order!TypeOK
  BY DEF OrderIInv, Order!Searching
<1>2. UNCHANGED <<needs, degree, loadQueue, loadOrder, cycles, ordered>> BY DEF Order!Enter, Order!sortVars
<1>3. /\ visited' = visited \cup {node} /\ searchPath' = Append(searchPath, node)
      /\ unfollowed' = [left EXCEPT ![node] = Order!Neighbours(node)]
  BY DEF Order!Enter
<1>4. visited \in SUBSET Order!Loaded /\ searchPath \in Seq(Order!Loaded) BY <1>1 DEF Order!TypeOK
<1>5. searchPath' \in Seq(Order!Loaded) /\ visited' \in SUBSET Order!Loaded BY <1>3, <1>4, Appended
<1>6. Order!Neighbours(node) \in SUBSET Order!Loaded /\ Order!Neighbours(node) \subseteq needs[node]
  BY DEF Order!Neighbours, Order!Remaining
<1>7. unfollowed' \in [Order!Loaded -> SUBSET Order!Loaded] BY <1>3, <1>6
<1>8. Order!TypeOK' BY <1>1, <1>2, <1>5, <1>7 DEF Order!TypeOK, Order!Loaded, Order!NotThere
<1>9. (\A e \in Order!Loaded : unfollowed[e] \subseteq needs[e])'
  <2>1. \A e \in Order!Loaded : unfollowed'[e] \subseteq needs[e] BY <1>3, <1>6
  <2> QED BY <1>2, <2>1 DEF Order!Loaded
<1>10. Search(searchPath', visited', unfollowed', cycles')
  <2>1. unfollowed'[node] = Order!Neighbours(node) BY <1>3
  <2>2. \A d \in Order!Loaded : d # node => unfollowed'[d] = left[d] BY <1>3
  <2> DEFINE r2 == unfollowed'
  <2>3. \A d \in Order!Loaded : d # node => \A x \in unfollowed[d] \ r2[d] :
          x = node /\ searchPath # <<>> /\ d = searchPath[Len(searchPath)]
    BY <2>2
  <2>4. r2[node] = Order!Neighbours(node) BY <2>1
  <2> HIDE DEF r2
  <2>5. Search(Append(searchPath, node), visited \cup {node}, r2, cycles) BY <1>1, <1>4, <2>3, <2>4, Entering
  <2> QED BY <1>2, <1>3, <2>5 DEF r2
<1>11. SortedBy(loadOrder, loadQueue, degree)' BY <1>1, <1>2, SortStays
<1>12. Search(searchPath, visited, unfollowed, cycles)' BY <1>2, <1>10, SearchStays
<1> QED BY <1>1, <1>2, <1>8, <1>9, <1>11, <1>12 DEF OrderIInv, Order!DependenciesLoadFirst

\* The search begins anew.
LEMMA RootKeeps == ASSUME OrderIInv, Order!Root PROVE OrderIInv'
<1>1. PICK node \in Order!First(Order!Remaining \ visited) : Order!Enter(node, unfollowed) BY DEF Order!Root
<1>2. Order!Searching /\ searchPath = <<>> /\ node \in Order!Loaded \ visited
  BY DEF Order!Root, Order!First, Order!Remaining
<1>3. unfollowed \in [Order!Loaded -> SUBSET Order!Loaded] /\ \A d \in Order!Loaded : unfollowed[d] \subseteq needs[d]
  BY DEF OrderIInv, Order!TypeOK
<1> QED BY <1>1, <1>2, <1>3, EnterKeeps

\* The next neighbour is no longer to be followed.
LEMMA Chosen ==
  ASSUME OrderIInv, NEW next, Order!Follows(next), NEW left, left = Order!Without(next)
  PROVE  /\ ~ordered /\ loadQueue = <<>> /\ searchPath # <<>> /\ searchPath[Len(searchPath)] \in Order!Loaded
         /\ next \in Order!Loaded /\ next \in needs[searchPath[Len(searchPath)]]
         /\ left \in [Order!Loaded -> SUBSET Order!Loaded]
         /\ \A d \in Order!Loaded : left[d] \subseteq needs[d]
         /\ \A d \in Order!Loaded : \A x \in unfollowed[d] \ left[d] :
              x = next /\ searchPath # <<>> /\ d = searchPath[Len(searchPath)]
<1> DEFINE top == searchPath[Len(searchPath)]
<1>1. /\ ~ordered /\ loadQueue = <<>> /\ searchPath # <<>> /\ next \in unfollowed[top]
  BY DEF Order!Follows, Order!Searching, Order!First, Order!Top
<1>2. left = [unfollowed EXCEPT ![top] = @ \ {next}] BY DEF Order!Without, Order!Top
<1>3. unfollowed \in [Order!Loaded -> SUBSET Order!Loaded] /\ searchPath \in Seq(Order!Loaded)
      /\ \A d \in Order!Loaded : unfollowed[d] \subseteq needs[d]
  BY DEF OrderIInv, Order!TypeOK
<1>4. top \in Order!Loaded BY <1>1, <1>3, Shortened
<1> HIDE DEF top
<1>5. left \in [Order!Loaded -> SUBSET Order!Loaded] BY <1>2, <1>3, <1>4
<1>6. \A d \in Order!Loaded : left[d] = IF d = top THEN unfollowed[d] \ {next} ELSE unfollowed[d] BY <1>2, <1>3
<1> QED BY <1>1, <1>3, <1>4, <1>5, <1>6 DEF top

\* It goes on to a neighbour nobody was in yet.
LEMMA DescendKeeps == ASSUME OrderIInv, Order!Descend PROVE OrderIInv'
<1>1. PICK next \in Order!Loaded \ visited : Order!Follows(next) /\ Order!Enter(next, Order!Without(next))
  BY DEF Order!Descend
<1> DEFINE left == Order!Without(next)
<1>2. Order!Searching BY <1>1 DEF Order!Follows
<1>3. Order!Enter(next, left) /\ left = Order!Without(next) BY <1>1
<1> HIDE DEF left
<1>4. /\ next \in needs[searchPath[Len(searchPath)]]
      /\ left \in [Order!Loaded -> SUBSET Order!Loaded]
      /\ \A d \in Order!Loaded : left[d] \subseteq needs[d]
      /\ \A d \in Order!Loaded : \A x \in unfollowed[d] \ left[d] :
           x = next /\ searchPath # <<>> /\ d = searchPath[Len(searchPath)]
  BY <1>1, <1>3, Chosen
<1> QED BY <1>1, <1>2, <1>3, <1>4, EnterKeeps

\* The search follows a neighbour that was visited.
LEMMA FollowKeeps == ASSUME OrderIInv, Order!Close \/ Order!Pass PROVE OrderIInv'
<1>1. UNCHANGED <<needs, degree, loadQueue, loadOrder, visited, searchPath, ordered>>
  BY DEF Order!Close, Order!Pass, Order!sortVars
<1>2. PICK next \in visited :
        /\ Order!Follows(next) /\ unfollowed' = Order!Without(next)
        /\ \/ next \notin Order!Members(searchPath) /\ cycles' = cycles
           \/ \E start \in 1 .. Len(searchPath) :
                /\ searchPath[start] = next
                /\ cycles' = Append(cycles, Append(SubSeq(searchPath, start, Len(searchPath)), next))
  <2>1. CASE Order!Close BY <2>1 DEF Order!Close
  <2>2. CASE Order!Pass BY <2>2 DEF Order!Pass
  <2> QED BY <2>1, <2>2
<1> DEFINE r2 == unfollowed'
           p == searchPath
<1>3. /\ ~ordered /\ loadQueue = <<>> /\ next \in needs[p[Len(p)]]
      /\ r2 \in [Order!Loaded -> SUBSET Order!Loaded]
      /\ \A d \in Order!Loaded : r2[d] \subseteq needs[d]
      /\ \A d \in Order!Loaded : \A x \in unfollowed[d] \ r2[d] : x = next /\ d = p[Len(p)]
  BY <1>2, Chosen
<1>4. /\ SortedBy(loadOrder, loadQueue, degree) /\ Search(p, visited, unfollowed, cycles) /\ Order!TypeOK
  BY <1>3 DEF OrderIInv
<1>5. p \in Seq(Order!Loaded) /\ cycles \in Seq(Seq(Order!Loaded)) BY <1>4 DEF Order!TypeOK
<1> HIDE DEF r2
<1>6. /\ next \notin Order!Members(p) => Search(p, visited, r2, cycles)
      /\ \A start \in 1 .. Len(p) : p[start] = next =>
           LET c2 == Append(cycles, Append(SubSeq(p, start, Len(p)), next))
           IN  c2 \in Seq(Seq(Order!Loaded)) /\ Search(p, visited, r2, c2)
  BY <1>3, <1>4, <1>5, Following
<1>7. cycles' \in Seq(Seq(Order!Loaded)) /\ Search(p, visited, r2, cycles')
  <2>1. CASE next \notin Order!Members(p) /\ cycles' = cycles BY <1>5, <1>6, <2>1
  <2>2. CASE \E start \in 1 .. Len(p) : /\ p[start] = next
                                         /\ cycles' = Append(cycles, Append(SubSeq(p, start, Len(p)), next))
    BY <1>6, <2>2
  <2> QED BY <1>2, <2>1, <2>2
<1>8. Search(searchPath', visited', unfollowed', cycles') BY <1>1, <1>7 DEF r2
<1>9. Order!TypeOK' BY <1>1, <1>3, <1>4, <1>7 DEF Order!TypeOK, Order!Loaded, Order!NotThere, r2
<1>10. (\A e \in Order!Loaded : unfollowed[e] \subseteq needs[e])' BY <1>1, <1>3 DEF Order!Loaded, r2
<1>11. SortedBy(loadOrder, loadQueue, degree)' BY <1>1, <1>4, SortStays
<1>12. Search(searchPath, visited, unfollowed, cycles)' BY <1>1, <1>8, SearchStays
<1> QED BY <1>1, <1>3, <1>9, <1>10, <1>11, <1>12 DEF OrderIInv, Order!DependenciesLoadFirst

\* It leaves an extension whose neighbours are followed.
LEMMA LeaveKeeps == ASSUME OrderIInv, Order!Leave PROVE OrderIInv'
<1>1. /\ ~ordered /\ loadQueue = <<>> /\ searchPath # <<>>
      /\ unfollowed[searchPath[Len(searchPath)]] = {} /\ searchPath' = But(searchPath)
  BY DEF Order!Leave, Order!Searching, Order!Top, But
<1>2. UNCHANGED <<needs, degree, loadQueue, loadOrder, visited, unfollowed, cycles, ordered>>
  BY DEF Order!Leave, Order!sortVars
<1>3. /\ SortedBy(loadOrder, loadQueue, degree) /\ Search(searchPath, visited, unfollowed, cycles) /\ Order!TypeOK
  BY <1>1 DEF OrderIInv
<1>4. loadOrder \in Seq(Order!Loaded) /\ searchPath \in Seq(Order!Loaded) /\ visited \in SUBSET Order!Loaded
  BY <1>3 DEF Order!TypeOK
<1>5. Search(But(searchPath), visited, unfollowed, cycles) BY <1>1, <1>3, <1>4, Leaving
<1>6. But(searchPath) \in Seq(Order!Loaded) BY <1>1, <1>4, Shortened
<1>7. Order!TypeOK' BY <1>1, <1>2, <1>3, <1>6 DEF Order!TypeOK, Order!Loaded, Order!NotThere
<1>8. (\A e \in Order!Loaded : unfollowed[e] \subseteq needs[e])' BY <1>2 DEF OrderIInv, Order!Loaded
<1>9. SortedBy(loadOrder, loadQueue, degree)' BY <1>2, <1>3, SortStays
<1>10. Search(searchPath, visited, unfollowed, cycles)' BY <1>1, <1>2, <1>5, SearchStays
<1> QED BY <1>1, <1>2, <1>7, <1>8, <1>9, <1>10 DEF OrderIInv, Order!DependenciesLoadFirst

\* Who remains of the sort has to do with a knot.
LEMMA RemainsKnotted ==
  ASSUME Many \in Nat, NEW o, SortedBy(o, <<>>, degree), NEW e \in Order!Loaded \ Order!Members(o)
  PROVE  Order!Meets(e)
<1> DEFINE X == {x \in Order!Loaded \ Order!Members(o) : x = e \/ x \in Order!Requires[e]}
<1>1. X \in SUBSET Order!Loaded /\ X # {} /\ e \in X OBVIOUS
<1>2. IsFiniteSet(X) BY <1>1, Few
<1>3. \A x \in X : \E y \in X : y \in Order!Requires[x]
  <2> TAKE x \in X
  <2>1. x \in Order!Loaded /\ x \notin Order!Members(o) OBVIOUS
  <2> DEFINE W == Needs(x) \ Order!Members(o)
  <2>2. W \in SUBSET Order!Loaded /\ degree[x] = Cardinality(W) BY <2>1 DEF Needs, SortedBy
  <2>3. degree[x] # 0
    <3>1. Order!Members(<<>>) = {} BY DEF Order!Members
    <3> QED BY <2>1, <3>1 DEF SortedBy
  <2> HIDE DEF W
  <2>4. PICK y \in W : TRUE BY <2>2, <2>3, Few
  <2>5. y \in Needs(x) /\ y \in Order!Loaded \ Order!Members(o) BY <2>2, <2>4 DEF W
  <2>6. y \in Order!Requires[x] BY <2>1, <2>5, Direct
  <2>7. y \in Order!Requires[e]
    <3>1. CASE x = e BY <2>6, <3>1
    <3>2. CASE x \in Order!Requires[e] BY <2>6, <3>2, Through
    <3> QED BY <3>1, <3>2
  <2> QED BY <2>5, <2>6, <2>7
<1> HIDE DEF X
<1>4. PICK x \in X : x \in Order!Requires[x] BY <1>1, <1>2, <1>3, Knot
<1>5. x \in Order!Loaded /\ (x = e \/ x \in Order!Requires[e]) BY DEF X
<1> QED BY <1>4, <1>5 DEF Order!Meets, Order!Knotted

\* A sequence that lists the first numbers once is as long.
LEMMA Complete ==
  ASSUME Many \in Nat, NEW o \in Seq(Order!Loaded), Once(o), Order!Members(o) = Order!Loaded
  PROVE  Len(o) = Many
<1>1. Len(o) \in Nat /\ o \in [1 .. Len(o) -> Order!Loaded] BY LenProperties
<1>2. o \in Injection(1 .. Len(o), Order!Loaded) BY <1>1 DEF Once, Injection, IsInjective
<1>3. \A e \in Order!Loaded : \E k \in 1 .. Len(o) : o[k] = e BY DEF Order!Members
<1>4. o \in Surjection(1 .. Len(o), Order!Loaded) BY <1>1, <1>3 DEF Surjection
<1>5. IsFiniteSet(Order!Loaded) /\ Cardinality(Order!Loaded) = Many BY FS_Interval DEF Order!Loaded
<1>6. Cardinality(1 .. Len(o)) = Len(o) BY <1>1, FS_Interval
<1>7. Cardinality(1 .. Len(o)) = Cardinality(Order!Loaded) BY <1>2, <1>4, <1>5, FS_Injection
<1> QED BY <1>5, <1>6, <1>7

\* The order is complete.
LEMMA FinishKeeps == ASSUME Order!OrderAssumption, OrderIInv, Order!Finish PROVE OrderIInv'
<1> USE DEF Order!OrderAssumption
<1> DEFINE M == Order!Remaining
           b == Order!ByName(M)
           o == loadOrder \o b
<1>1. /\ ~ordered /\ loadQueue = <<>> /\ searchPath = <<>> /\ M \subseteq visited
      /\ loadOrder' = o /\ ordered' = TRUE
  BY DEF Order!Finish, Order!Searching
<1>2. UNCHANGED <<needs, degree, loadQueue, visited, searchPath, unfollowed, cycles>>
  BY DEF Order!Finish, Order!searchVars
<1>3. /\ SortedBy(loadOrder, <<>>, degree) /\ Search(<<>>, visited, unfollowed, cycles) /\ Order!TypeOK
  BY <1>1 DEF OrderIInv
<1>4. loadOrder \in Seq(Order!Loaded) /\ cycles \in Seq(Seq(Order!Loaded)) BY <1>3 DEF Order!TypeOK
<1>5. M = Order!Loaded \ Order!Members(loadOrder) /\ M \in SUBSET Order!Loaded BY DEF Order!Remaining
<1>6. Order!Members(loadOrder) \subseteq Order!Loaded BY <1>4, ElementOfSeq DEF Order!Members
<1> HIDE DEF M
<1>7. /\ b \in Seq(Order!Loaded) /\ Order!Members(b) = M /\ Once(b)
  <2>1. M \in SUBSET Nat /\ IsFiniteSet(M) BY <1>5, Few
  <2> QED BY <1>5, <2>1, Listed, Wider
<1> HIDE DEF b
<1>8. /\ o \in Seq(Order!Loaded) /\ Len(o) = Len(loadOrder) + Len(b)
      /\ \A k \in 1 .. Len(loadOrder) : o[k] = loadOrder[k]
      /\ Order!Members(o) = Order!Loaded /\ Once(o)
  <2>1. Once(loadOrder) /\ Order!Members(loadOrder) \cap Order!Members(b) = {} BY <1>3, <1>5, <1>7 DEF SortedBy
  <2>2. Order!Members(loadOrder) \cup Order!Members(b) = Order!Loaded BY <1>5, <1>6, <1>7
  <2>3. /\ loadOrder \o b \in Seq(Order!Loaded) /\ Len(loadOrder \o b) = Len(loadOrder) + Len(b)
        /\ \A k \in 1 .. Len(loadOrder) : (loadOrder \o b)[k] = loadOrder[k]
        /\ Order!Members(loadOrder \o b) = Order!Members(loadOrder) \cup Order!Members(b)
    BY <1>4, <1>7, Joined
  <2>4. Once(loadOrder \o b) BY <1>4, <1>7, <2>1, Joined
  <2> QED BY <2>2, <2>3, <2>4
<1> HIDE DEF o
<1>9. Len(o) = Many BY <1>8, Complete
<1>10. Len(loadOrder) \in Nat /\ Len(b) \in Nat BY <1>4, <1>7, LenProperties
<1>11. ASSUME NEW e \in Order!Loaded, ~Order!Meets(e), NEW d \in Needs(e)
       PROVE  \E k \in 1 .. Len(o) : o[k] = e /\ \E j \in 1 .. k - 1 : o[j] = d
  <2>1. e \in Order!Members(loadOrder) BY <1>3, <1>11, RemainsKnotted
  <2>2. PICK k \in 1 .. Len(loadOrder) : loadOrder[k] = e BY <2>1 DEF Order!Members
  <2>3. PICK j \in 1 .. k - 1 : loadOrder[j] = d BY <1>3, <1>11, <2>2 DEF SortedBy
  <2>4. k \in 1 .. Len(o) /\ j \in 1 .. Len(loadOrder) BY <1>8, <1>10, <2>2, <2>3
  <2> QED BY <1>8, <2>2, <2>3, <2>4
<1>12. \A e \in Order!Loaded : e \in Order!Requires[e] => Reported(cycles, e)
  <2> TAKE e \in Order!Loaded
  <2> HAVE e \in Order!Requires[e]
  <2>1. e \in M
    <3>1. ASSUME NEW k \in 1 .. Len(loadOrder), loadOrder[k] = e PROVE FALSE BY <1>3, <1>4, <3>1, Remains
    <3> QED BY <1>5, <3>1 DEF Order!Members
  <2>2. Order!Members(<<>>) = {} BY DEF Order!Members
  <2> QED BY <1>1, <1>3, <2>1, <2>2 DEF Search, KnotsFound
<1>13. ASSUME NEW cycle \in Order!Members(cycles) PROVE \E e \in Order!Loaded : e \in Order!Requires[e]
  <2>1. Ring(cycle) BY <1>3 DEF Search, Rings
  <2>2. cycle \in Seq(Order!Loaded) BY <1>4, ElementOfSeq DEF Order!Members
  <2>3. 1 \in 1 .. Len(cycle) BY <2>1, <2>2, LenProperties DEF Ring
  <2>4. cycle[1] \in Order!Loaded /\ cycle[1] \in Order!Members(cycle) BY <2>2, <2>3, ElementOfSeq DEF Order!Members
  <2> QED BY <2>1, <2>4 DEF Ring
<1>14. cycles = <<>> <=> Order!Knotted = {}
  <2>1. ASSUME cycles # <<>> PROVE Order!Members(cycles) # {}
    <3>1. 1 \in 1 .. Len(cycles) BY <1>4, <2>1, LenProperties, EmptySeq
    <3> QED BY <3>1 DEF Order!Members
  <2>2. Order!Members(<<>>) = {} BY DEF Order!Members
  <2>3. ASSUME cycles = <<>> PROVE Order!Knotted = {} BY <1>12, <2>2, <2>3 DEF Reported, Order!Knotted
  <2> QED BY <1>13, <2>1, <2>3 DEF Order!Knotted
<1>15. (\A e \in Order!Loaded : needs[e] \subseteq Order!Loaded)
         <=> \A e \in Order!Loaded : Order!NotThere \notin needs[e]
  <2>1. \A e \in Order!Loaded : needs[e] \subseteq Order!Loaded \cup {Order!NotThere} BY <1>3 DEF Order!TypeOK
  <2>2. Order!NotThere \notin Order!Loaded BY DEF Order!NotThere, Order!Loaded
  <2> QED BY <2>1, <2>2
<1>16. /\ Order!Requires' = Order!Requires /\ Order!Loaded' = Order!Loaded /\ Order!NotThere' = Order!NotThere
       /\ Order!Knotted' = Order!Knotted
  BY <1>2, Stays DEF Order!Knotted, Order!Loaded, Order!NotThere
<1>17. Order!DependenciesLoadFirst'
  <2>1. (Len(loadOrder) = Many /\ Order!Members(loadOrder) = Order!Loaded)'
    BY <1>1, <1>8, <1>9 DEF Order!Members, Order!Loaded
  <2>2. (\A e \in Order!Loaded : Order!Meets(e) \/ \A d \in needs[e] \cap Order!Loaded : Order!Before(d, e))'
    BY <1>1, <1>2, <1>11, <1>16 DEF Order!Meets, Order!Before, Needs
  <2>3. (\A cycle \in Order!Members(cycles) :
           /\ Len(cycle) > 1 /\ cycle[1] = cycle[Len(cycle)]
           /\ \A k \in 1 .. Len(cycle) - 1 : cycle[k + 1] \in needs[cycle[k]])'
    BY <1>2, <1>3 DEF Search, Rings, Ring, Order!Members
  <2>4. (\A e \in Order!Knotted : \E cycle \in Order!Members(cycles) : Order!Within(cycle, e))'
    BY <1>2, <1>12, <1>16 DEF Order!Knotted, Reported, Order!Within, Order!Members
  <2>5. (Order!Valid <=> Order!Knotted = {} /\ \A e \in Order!Loaded : Order!NotThere \notin needs[e])'
    BY <1>2, <1>14, <1>15, <1>16 DEF Order!Valid
  <2> QED BY <2>1, <2>2, <2>3, <2>4, <2>5 DEF Order!DependenciesLoadFirst
<1>18. Order!TypeOK' BY <1>1, <1>2, <1>3, <1>8, <1>16 DEF Order!TypeOK
<1>19. (\A e \in Order!Loaded : unfollowed[e] \subseteq needs[e])' BY <1>2, <1>16 DEF OrderIInv
<1> QED BY <1>1, <1>17, <1>18, <1>19 DEF OrderIInv

\* The invariant is inductive.
LEMMA OrderInductive == ASSUME Order!OrderAssumption PROVE Order!Spec => []OrderIInv
<1>1. ASSUME OrderIInv, UNCHANGED Order!vars PROVE OrderIInv'
  <2>1. UNCHANGED <<needs, degree, loadQueue, loadOrder, visited, searchPath, unfollowed, cycles, ordered>>
    BY <1>1 DEF Order!vars, Order!sortVars, Order!searchVars
  <2>2. /\ Order!Requires' = Order!Requires /\ Order!Loaded' = Order!Loaded /\ Order!NotThere' = Order!NotThere
        /\ Order!Knotted' = Order!Knotted
    BY <2>1, Stays DEF Order!Knotted, Order!Loaded, Order!NotThere
  <2>3. Order!TypeOK' BY <1>1, <2>1, <2>2 DEF OrderIInv, Order!TypeOK
  <2>4. Order!DependenciesLoadFirst'
    BY <1>1, <2>1, <2>2
    DEF OrderIInv, Order!DependenciesLoadFirst, Order!Members, Order!Meets, Order!Before, Order!Within, Order!Valid
  <2>5. ~ordered => SortedBy(loadOrder, loadQueue, degree)' BY <1>1, <2>1, SortStays DEF OrderIInv
  <2>6. ~ordered => Search(searchPath, visited, unfollowed, cycles)' BY <1>1, <2>1, SearchStays DEF OrderIInv
  <2>7. (\A e \in Order!Loaded : unfollowed[e] \subseteq needs[e])' BY <1>1, <2>1, <2>2 DEF OrderIInv
  <2> QED BY <1>1, <2>1, <2>3, <2>4, <2>5, <2>6, <2>7 DEF OrderIInv
<1>2. ASSUME OrderIInv, [Order!Next]_(Order!vars) PROVE OrderIInv'
  BY <1>1, <1>2, EmitKeeps, RootKeeps, DescendKeeps, FollowKeeps, LeaveKeeps, FinishKeeps DEF Order!Next
<1> QED BY <1>2, OrderInitial, PTL DEF Order!Spec

\* What the invariant says of the service by itself.
LEMMA Ordered == ASSUME Order!OrderAssumption
  PROVE Order!Spec => [](Order!TypeOK /\ Order!DependenciesLoadFirst)
<1>1. OrderIInv => Order!TypeOK /\ Order!DependenciesLoadFirst BY DEF OrderIInv
<1> QED BY <1>1, OrderInductive, PTL

\* The group implements the service.
LEMMA OrderImplemented == CatalogSpec => Order!Spec
<1>1. CatalogInit => Order!Init BY DEF CatalogInit
<1>2. [CatalogNext]_catalogVars => [Order!Next]_(Order!vars)
  BY DEF CatalogNext, catalogVars, orderVars, Order!vars, Order!sortVars, Order!searchVars
<1> QED BY <1>1, <1>2, PTL DEF CatalogSpec, Order!Spec

\* For any number of extensions and any dependencies, missing, circular or of
\* themselves: every extension is loaded, once, and after what it needs unless
\* it has to do with a cycle; each knot has a cycle reported that is one
\* (dependency.rs).
THEOREM LoadsInOrder == ASSUME CatalogAssumption PROVE CatalogSpec => []DependenciesLoadFirst
<1>1. Order!OrderAssumption BY DEF CatalogAssumption
<1>2. Order!Spec => [](Order!TypeOK /\ Order!DependenciesLoadFirst) BY <1>1, Ordered
<1>3. Order!DependenciesLoadFirst => DependenciesLoadFirst BY DEF DependenciesLoadFirst
<1> QED BY <1>2, <1>3, OrderImplemented, PTL

-----------------------------------------------------------------------------
\* Every variable of every service of the group stays of its type.
THEOREM CatalogTyped == ASSUME CatalogAssumption PROVE CatalogSpec => []CatalogTypeOK
<1>1. /\ Roster!RosterAssumption
      /\ Mcp!McpAssumption
      /\ Extension!ExtensionAssumption
      /\ Order!OrderAssumption
  BY DEF CatalogAssumption
<1>2. Roster!Spec => [](Roster!TypeOK /\ Roster!RosterAgrees)
  BY <1>1, Agreed
<1>3. Mcp!Spec => [](Mcp!TypeOK /\ Mcp!CopiesFollowRows)
  BY <1>1, Followed
<1>4. Extension!Spec => [](Extension!TypeOK /\ Extension!SwitchesAreKept)
  BY <1>1, ExtensionKept
<1>5. Order!Spec => [](Order!TypeOK /\ Order!DependenciesLoadFirst)
  BY <1>1, Ordered
<1>6. Roster!TypeOK /\ Mcp!TypeOK /\ Extension!TypeOK /\ Order!TypeOK => CatalogTypeOK
  BY DEF CatalogTypeOK
<1> QED
  BY <1>2, <1>3, <1>4, <1>5, <1>6,
     RosterImplemented, McpImplemented, ExtensionImplemented, OrderImplemented, PTL
=============================================================================
