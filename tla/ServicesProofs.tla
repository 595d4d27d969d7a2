--------------------------- MODULE ServicesProofs ---------------------------
(***************************************************************************)
(* Proofs about StreamRelay, for any capacity, interval and bounds; about  *)
(* OfficeWatch: no officecli process is ever left behind; and about the    *)
(* services side by side: what the run checks implements every group.      *)
(*                                                                         *)
(* Relay: what the rows have follows what the relay has read, and that     *)
(* follows what the client got; the shape of the relay says how far.       *)
(* Office: the invariant adds to WatchersAreOwned that nobody but its one  *)
(* owner names a child, dead or alive, and that a request holds a handle   *)
(* only while it polls: so that what is killed is the killer's own.        *)
(* System: a step is one of one service, and leaves the others alone.      *)
(***************************************************************************)
EXTENDS MCServices, AccessProofs, AgentsProofs, CatalogProofs

-----------------------------------------------------------------------------
(* The relay of a turn: StreamRelay.                                       *)

\* What was sent bounds what the relay has.
Counted == relay.text + relay.thinks + Len(queue) <= sent

\* How the rows follow the relay's text.
Follows ==
  /\ client.text = relay.text
  /\ Kept <= relay.text
  /\ relay.pc # "done" =>
       /\ ~relay.created => row = None
       /\ ~Spoilt => relay.text = Kept + relay.pending /\ (relay.created => row # None)

\* Where the relay stands.
Standing ==
  /\ relay.pending <= FlushInterval /\ relay.pending <= relay.text
  /\ relay.pc \notin {"flush", "dead"} => relay.pending < FlushInterval
  /\ relay.created \/ relay.pc = "flush" => relay.text > 0
  /\ relay.pc \in {"read", "flush"} => relay.event = None
  /\ relay.pc \in {"lookup", "write"} => relay.event \in Start \cup Update \cup Tool
  /\ relay.pc \in {"read", "flush", "lookup", "write", "think", "clean"} => relay.form = "raw"

IInv == TypeOK /\ Counted /\ Follows /\ Standing

-----------------------------------------------------------------------------
(* The relay's records. *)

\* The kinds tell the events apart.
LEMMA EventKinds ==
  ASSUME NEW e \in Events
  PROVE  /\ e.kind \in {"text", "think", "finish", "error", "start", "update", "tool"}
         /\ e.kind \in {"start", "update", "tool"} => e.call \in Calls /\ e.info \in Info
                                                      /\ e \in Start \cup Update \cup Tool
BY DEF Events, Plain, Start, Update, Tool, Whole, Info

\* What was heard of a call is of its type.
LEMMA HearType ==
  ASSUME NEW was \in HeardCall \cup {None}, NEW e, e.info \in Info
  PROVE  Hear(was, e) \in HeardCall
BY DEF Hear, HeardCall, Info

\* Reading takes one event off the queue.
LEMMA Taking ==
  ASSUME queue \in Seq(Events), Take
  PROVE  /\ relay.pc = "read" /\ Head(queue) \in Events
         /\ queue' \in Seq(Events) /\ Len(queue') = Len(queue) - 1
         /\ Len(queue) \in Nat /\ Len(queue) > 0
<1>1. relay.pc = "read" /\ queue # <<>> /\ queue' = Tail(queue)
  BY DEF Take
<1>2. Head(queue) \in Events /\ Tail(queue) \in Seq(Events) /\ Len(Tail(queue)) = Len(queue) - 1
  BY <1>1
<1>3. Len(queue) \in Nat /\ Len(queue) > 0
  BY <1>1, LenProperties, EmptySeq
<1> QED
  BY <1>1, <1>2, <1>3

\* A sequence no longer than another is at most one longer with an element more.
LEMMA Longer ==
  ASSUME NEW S, NEW s \in Seq(S), NEW t \in Seq(S), NEW e \in S, Len(s) <= Len(t)
  PROVE  Append(s, e) \in Seq(S) /\ Len(Append(s, e)) <= Len(t) + 1
<1>1. Append(s, e) \in Seq(S) /\ Len(Append(s, e)) = Len(s) + 1
  BY AppendProperties
<1>2. Len(s) \in Nat /\ Len(t) \in Nat
  BY LenProperties
<1> QED
  BY <1>1, <1>2

\* A full channel drops its oldest event for the new one.
LEMMA Sending ==
  ASSUME RelayAssumption, queue \in Seq(Events), NEW e \in Events,
         queue' = Append(IF Len(queue) < Capacity THEN queue ELSE Tail(queue), e)
  PROVE  queue' \in Seq(Events) /\ Len(queue') <= Len(queue) + 1
<1> DEFINE kept == IF Len(queue) < Capacity THEN queue ELSE Tail(queue)
<1>1. kept \in Seq(Events) /\ Len(kept) <= Len(queue)
  <2>1. CASE Len(queue) < Capacity
    BY <2>1
  <2>2. CASE ~(Len(queue) < Capacity)
    <3>1. Capacity \in Nat \ {0} /\ Len(queue) \in Nat
      BY DEF RelayAssumption
    <3>2. queue # <<>>
      BY <2>2, <3>1
    <3>3. Tail(queue) \in Seq(Events) /\ Len(Tail(queue)) = Len(queue) - 1
      BY <3>2, HeadTailProperties
    <3> QED
      BY <2>2, <3>1, <3>3
  <2> QED
    BY <2>1, <2>2
<1>2. queue' = Append(kept, e)
  OBVIOUS
<1> HIDE DEF kept
<1>3. Append(kept, e) \in Seq(Events) /\ Len(Append(kept, e)) <= Len(queue) + 1
  BY <1>1, Longer
<1> QED
  BY ONLY <1>2, <1>3

-----------------------------------------------------------------------------
(* The invariant. *)

\* The relay starts out with the invariant.
THEOREM Initial == ASSUME RelayAssumption, Init PROVE IInv
<1>1. TypeOK
  <2>1. 0 \in 0 .. MaxEvents /\ 0 \in 0 .. MaxFaults
    BY DEF RelayAssumption
  <2>2. relay \in RelayState
    BY <2>1 DEF Init, RelayState, Forms, Statuses
  <2>3. queue \in Seq(Events)
    BY DEF Init
  <2>4. tool \in [Calls -> ToolRow \cup {None}] /\ heard \in [Calls -> HeardCall \cup {None}]
    BY DEF Init
  <2>5. client \in [text : 0 .. MaxEvents, form : Forms]
    BY <2>1 DEF Init, Forms
  <2> QED
    BY <2>1, <2>2, <2>3, <2>4, <2>5 DEF Init, TypeOK
<1>2. Len(queue) = 0
  BY DEF Init
<1>3. Counted
  BY <1>2 DEF Init, Counted
<1>4. Follows
  BY DEF Init, Follows, Kept
<1>5. Standing
  BY DEF RelayAssumption, Init, Standing
<1> QED
  BY <1>1, <1>3, <1>4, <1>5 DEF IInv

\* The agent's steps.
LEMMA AgentKeeps ==
  ASSUME RelayAssumption, IInv, (\E e \in Events : Send(e)) \/ Close
  PROVE  IInv'
<1> USE DEF IInv
<1>1. ASSUME NEW e \in Events, Send(e) PROVE IInv'
  <2>1. queue' \in Seq(Events) /\ Len(queue') <= Len(queue) + 1
    BY <1>1, Sending DEF Send, TypeOK
  <2>2. sent' = sent + 1 /\ sent < MaxEvents
    BY <1>1 DEF Send
  <2>3. begun' \subseteq Calls
    <3>1. e \in Start => e.call \in Calls
      BY DEF Start
    <3> QED
      BY <1>1, <3>1 DEF Send, TypeOK
  <2>4. open' \in BOOLEAN
    BY <1>1 DEF Send, TypeOK
  <2>5. TypeOK'
    BY <1>1, <2>1, <2>2, <2>3, <2>4 DEF RelayAssumption, Send, rows, TypeOK
  <2>6. Counted'
    <3>1. /\ relay.text \in Nat /\ relay.thinks \in Nat /\ Len(queue) \in Nat /\ sent \in Nat
          /\ Len(queue') \in Nat
      BY <2>1 DEF RelayAssumption, TypeOK, RelayState
    <3> QED
      BY <1>1, <2>1, <2>2, <3>1 DEF Send, Counted
  <2>7. Follows'
    BY <1>1 DEF Send, rows, Follows, Kept, Spoilt
  <2>8. Standing'
    BY <1>1 DEF Send, Standing
  <2> QED
    BY <2>5, <2>6, <2>7, <2>8
<1>2. ASSUME Close PROVE IInv'
  BY <1>2, ZenonT(60) DEF Close, rows, TypeOK, Counted, Follows, Kept, Spoilt, Standing
<1> QED
  BY <1>1, <1>2

\* Text grows by one on both sides, and the relay stops to flush it in time.
LEMMA ReadTextKeeps ==
  ASSUME RelayAssumption, IInv, ReadText
  PROVE  IInv'
<1> USE DEF IInv
<1>1. /\ relay.pc = "read" /\ queue' \in Seq(Events) /\ Len(queue') = Len(queue) - 1
      /\ Len(queue) \in Nat /\ Len(queue) > 0
  BY Taking DEF ReadText, TakeKind, TypeOK
<1>2. /\ relay.text \in Nat /\ relay.pending \in Nat /\ relay.thinks \in Nat
      /\ FlushInterval \in Nat /\ sent \in Nat /\ MaxEvents \in Nat /\ sent <= MaxEvents
      /\ client.text \in Nat
  BY DEF RelayAssumption, TypeOK, RelayState
<1>3. relay.text + 1 \in 0 .. MaxEvents /\ relay.pending + 1 \in 0 .. MaxEvents
  <2>1. relay.text + relay.thinks + Len(queue) <= sent /\ relay.pending <= relay.text
    BY DEF Counted, Standing
  <2>2. relay.text + 1 <= MaxEvents
    BY <1>1, <1>2, <2>1
  <2> QED
    BY <1>2, <2>1, <2>2
<1>4. relay' \in RelayState
  BY <1>1, <1>3 DEF ReadText, TypeOK, RelayState
<1>5. /\ relay'.text = relay.text + 1 /\ relay'.pending = relay.pending + 1
      /\ relay'.thinks = relay.thinks /\ relay'.created = relay.created
      /\ relay'.form = relay.form /\ relay'.event = relay.event
      /\ relay'.pc = IF relay.pending + 1 >= FlushInterval THEN "flush" ELSE "read"
  BY DEF ReadText, TypeOK, RelayState
<1>6. client' \in [text : 0 .. MaxEvents, form : Forms] /\ client'.text = client.text + 1
  BY <1>3 DEF ReadText, TypeOK, Follows
<1>7. TypeOK'
  BY <1>1, <1>4, <1>6 DEF ReadText, rows, TypeOK
<1>8. Counted'
  BY <1>1, <1>2, <1>5 DEF ReadText, Counted
<1>9. Follows'
  <2>1. Kept' = Kept /\ row' = row /\ Spoilt' = Spoilt
    BY DEF ReadText, rows, Kept, Spoilt
  <2>2. Kept \in Nat
    BY DEF TypeOK, TextRow, Kept
  <2> QED
    BY <1>1, <1>2, <1>5, <1>6, <2>1, <2>2 DEF Follows
<1>10. Standing'
  BY <1>1, <1>2, <1>5 DEF Standing
<1> QED
  BY <1>7, <1>8, <1>9, <1>10

\* The other events are put away, or stop the relay at the step they call for.
LEMMA ReadKeeps ==
  ASSUME RelayAssumption, IInv, ReadThink \/ ReadEnd \/ ReadTool
  PROVE  IInv'
<1> USE DEF IInv
<1>1. /\ relay.text \in Nat /\ relay.thinks \in Nat /\ Len(queue) \in Nat
      /\ sent \in Nat /\ MaxEvents \in Nat /\ sent <= MaxEvents
      /\ relay.text + relay.thinks + Len(queue) <= sent
  BY LenProperties DEF RelayAssumption, TypeOK, RelayState, Counted
<1>2. CASE ReadThink
  <2>1. /\ relay.pc = "read" /\ queue' \in Seq(Events) /\ Len(queue') = Len(queue) - 1
        /\ Len(queue) > 0
    BY <1>2, Taking DEF ReadThink, TakeKind, TypeOK
  <2>2. relay.thinks + 1 \in 0 .. MaxEvents
    BY <1>1, <2>1
  <2>3. relay' \in RelayState /\ relay' = [relay EXCEPT !.thinks = relay.thinks + 1]
    BY <1>2, <2>2 DEF ReadThink, TypeOK, RelayState
  <2>4. /\ relay'.pc = relay.pc /\ relay'.text = relay.text /\ relay'.pending = relay.pending
        /\ relay'.created = relay.created /\ relay'.form = relay.form
        /\ relay'.event = relay.event /\ relay'.thinks = relay.thinks + 1
    BY <2>3 DEF TypeOK, RelayState
  <2>5. TypeOK'
    BY <1>2, <2>1, <2>3 DEF ReadThink, rows, TypeOK
  <2>6. Counted'
    BY <1>1, <1>2, <2>1, <2>4 DEF ReadThink, Counted
  <2>7. Follows' /\ Standing'
    BY <1>2, <2>4 DEF ReadThink, rows, Follows, Kept, Spoilt, Standing
  <2> QED
    BY <2>5, <2>6, <2>7
<1>3. CASE ReadEnd
  <2>1. relay.pc = "read" /\ queue' \in Seq(Events) /\ Len(queue') \in Nat /\ Len(queue') <= Len(queue)
    <3>1. CASE \E e \in {"finish", "error"} : TakeKind(e)
      BY <1>1, <3>1, Taking, LenProperties DEF TakeKind, TypeOK
    <3>2. CASE relay.pc = "read" /\ UNCHANGED queue
      BY <1>1, <3>2 DEF TypeOK
    <3> QED
      BY <1>3, <3>1, <3>2 DEF ReadEnd
  <2>2. PICK e \in {"finish", "error"} : relay' = [relay EXCEPT !.pc = "think", !.end = e]
    BY <1>3 DEF ReadEnd
  <2>3. relay' \in RelayState
    BY <2>2 DEF TypeOK, RelayState, Statuses
  <2>4. /\ relay'.pc = "think" /\ relay'.text = relay.text /\ relay'.pending = relay.pending
        /\ relay'.created = relay.created /\ relay'.form = relay.form
        /\ relay'.thinks = relay.thinks
    BY <2>2 DEF TypeOK, RelayState
  <2>5. TypeOK'
    BY <1>3, <2>1, <2>3 DEF ReadEnd, rows, TypeOK
  <2>6. Counted'
    BY <1>1, <1>3, <2>1, <2>4 DEF ReadEnd, Counted
  <2>7. Follows' /\ Standing'
    BY <1>3, <2>1, <2>4 DEF ReadEnd, rows, Follows, Kept, Spoilt, Standing
  <2> QED
    BY <2>5, <2>6, <2>7
<1>4. CASE ReadTool
  <2> DEFINE e == Head(queue)
  <2>1. /\ relay.pc = "read" /\ queue' \in Seq(Events) /\ Len(queue') = Len(queue) - 1
        /\ Len(queue) > 0 /\ e \in Events
    BY <1>4, Taking DEF ReadTool, TypeOK
  <2>2. e.call \in Calls /\ e.info \in Info /\ e \in Start \cup Update \cup Tool
    BY <1>4, <2>1, EventKinds DEF ReadTool
  <2>3. PICK pc \in {"write", "lookup"} :
          relay' = [relay EXCEPT !.event = e, !.found = None, !.pc = pc]
    BY <1>4 DEF ReadTool
  <2> HIDE DEF e
  <2>4. relay' \in RelayState
    BY <2>1, <2>3 DEF TypeOK, RelayState
  <2>5. /\ relay'.pc \in {"write", "lookup"} /\ relay'.text = relay.text
        /\ relay'.pending = relay.pending /\ relay'.created = relay.created
        /\ relay'.form = relay.form /\ relay'.thinks = relay.thinks /\ relay'.event = e
    BY <2>3 DEF TypeOK, RelayState
  <2>6. heard' \in [Calls -> HeardCall \cup {None}]
    <3>1. heard' = [heard EXCEPT ![e.call] = Hear(heard[e.call], e)]
      BY <1>4 DEF ReadTool, e
    <3>2. Hear(heard[e.call], e) \in HeardCall
      BY <2>1, <2>2, EventKinds, HearType DEF TypeOK
    <3> QED
      BY <2>2, <3>1, <3>2 DEF TypeOK
  <2>7. TypeOK'
    BY <1>4, <2>1, <2>4, <2>6 DEF ReadTool, rows, TypeOK
  <2>8. Counted'
    BY <1>1, <1>4, <2>1, <2>5 DEF ReadTool, Counted
  <2>9. Follows' /\ Standing'
    BY <1>4, <2>1, <2>2, <2>5 DEF ReadTool, rows, Follows, Kept, Spoilt, Standing
  <2> QED
    BY <2>7, <2>8, <2>9
<1> QED
  BY <1>2, <1>3, <1>4

\* A statement's outcome, and what a failure leaves behind.
LEMMA Outcome ==
  ASSUME RelayAssumption, TypeOK, Works \/ Breaks, UNCHANGED conv
  PROVE  /\ faults' \in 0 .. MaxFaults
         /\ Spoilt => Spoilt'
         /\ Breaks => Spoilt'
         /\ Works => conv /\ Spoilt' = Spoilt
BY DEF RelayAssumption, TypeOK, Works, Breaks, Spoilt

\* A flush stores the whole text so far.
LEMMA FlushKeeps ==
  ASSUME RelayAssumption, IInv, Flush
  PROVE  IInv'
<1> USE DEF IInv
<1> DEFINE new == [text |-> relay.text, form |-> "raw", status |-> "work"]
<1>1. /\ faults' \in 0 .. MaxFaults /\ (Spoilt => Spoilt') /\ (Breaks => Spoilt')
      /\ Works => conv /\ Spoilt' = Spoilt
  BY Outcome DEF Flush
<1>2. relay' = [relay EXCEPT !.pc = "read", !.pending = 0, !.created = TRUE] /\ relay.pc = "flush"
  BY DEF Flush
<1>3. relay' \in RelayState
  <2>1. 0 \in 0 .. MaxEvents
    BY DEF RelayAssumption
  <2> QED
    BY <1>2, <2>1 DEF TypeOK, RelayState
<1>4. /\ relay'.pc = "read" /\ relay'.text = relay.text /\ relay'.pending = 0
      /\ relay'.created = TRUE /\ relay'.form = relay.form
      /\ relay'.thinks = relay.thinks /\ relay'.event = relay.event
  BY <1>2 DEF TypeOK, RelayState
<1>5. /\ relay.text \in Nat /\ relay.text \in 0 .. MaxEvents /\ FlushInterval \in Nat /\ FlushInterval > 0
  BY DEF RelayAssumption, TypeOK, RelayState
<1>6. new \in TextRow /\ new.text = relay.text /\ new # None
  BY <1>5 DEF RelayAssumption, TextRow, Forms, Statuses
<1> HIDE DEF new
<1>7. \/ row' = new
      \/ row' = row /\ (Spoilt' \/ (relay.created /\ row = None))
  BY <1>1 DEF Flush, new
<1>8. TypeOK'
  BY <1>1, <1>3, <1>6, <1>7 DEF Flush, TypeOK
<1>9. Counted'
  BY <1>4 DEF Flush, Counted
<1>10. Follows'
  <2>1. CASE row' = new
    BY <1>4, <1>5, <1>6, <2>1 DEF Flush, Follows, Kept
  <2>2. CASE row' = row /\ Spoilt'
    BY <1>4, <2>2 DEF Flush, Follows, Kept
  <2>3. CASE row' = row /\ relay.created /\ row = None
    <3>1. Spoilt
      BY <1>2, <2>3 DEF Follows
    <3> QED
      BY <1>1, <1>4, <2>3, <3>1 DEF Flush, Follows, Kept
  <2> QED
    BY <1>7, <2>1, <2>2, <2>3
<1>11. Standing'
  BY <1>2, <1>4, <1>5 DEF Standing
<1> QED
  BY <1>8, <1>9, <1>10, <1>11

\* A step that moves the relay on and leaves the text and its row alone.
LEMMA AsideKeeps ==
  ASSUME RelayAssumption, IInv,
         relay.pc \in {"lookup", "write", "think"}, relay' \in RelayState,
         relay'.pc \in {"read", "write", "clean"},
         relay'.text = relay.text, relay'.pending = relay.pending, relay'.thinks = relay.thinks,
         relay'.created = relay.created, relay'.form = relay.form,
         relay'.pc = "read" => relay.pc = "write" /\ relay'.event = None,
         relay'.pc = "write" => relay.pc = "lookup" /\ relay'.event = relay.event,
         thinking' \in 0 .. MaxEvents, tool' \in [Calls -> ToolRow \cup {None}],
         Works \/ Breaks \/ UNCHANGED faults,
         UNCHANGED <<acp, queue, sent, open, begun, client, row, tips, conv, heard>>
  PROVE  IInv'
<1> USE DEF IInv
<1>1. faults' \in 0 .. MaxFaults /\ (Spoilt => Spoilt')
  BY Outcome DEF TypeOK, Spoilt
<1>2. TypeOK'
  BY <1>1 DEF TypeOK
<1>3. Counted'
  BY DEF Counted
<1>4. Follows'
  BY <1>1 DEF Follows, Kept
<1>5. Standing'
  BY DEF Standing
<1> QED
  BY <1>2, <1>3, <1>4, <1>5

\* The tool call's row is looked up and written, the thinking is stored.
LEMMA StoreKeeps ==
  ASSUME RelayAssumption, IInv, Lookup \/ Write \/ Think
  PROVE  IInv'
<1>1. TypeOK /\ Standing
  BY DEF IInv
<1>2. relay \in RelayState /\ relay.event \in Events \cup {None} /\ relay.found \in Info \cup {None}
  BY <1>1 DEF TypeOK, RelayState
<1>3. CASE Lookup
  <2>1. relay.pc = "lookup" /\ relay.event.call \in Calls
    BY <1>1, <1>3 DEF Lookup, Standing, Start, Update, Tool
  <2>2. PICK f \in Info \cup {None} : relay' = [relay EXCEPT !.pc = "write", !.found = f]
    <3>1. tool[relay.event.call] # None => tool[relay.event.call].content \in Info
      BY <1>1, <2>1 DEF TypeOK, ToolRow
    <3> QED
      BY <1>3, <3>1 DEF Lookup
  <2>3. /\ relay' \in RelayState /\ relay'.pc = "write" /\ relay'.text = relay.text
        /\ relay'.pending = relay.pending /\ relay'.thinks = relay.thinks
        /\ relay'.created = relay.created /\ relay'.form = relay.form
        /\ relay'.event = relay.event
    BY <1>2, <2>2 DEF RelayState
  <2>4. Works \/ Breaks \/ UNCHANGED faults
    BY <1>3 DEF Lookup
  <2>5. thinking' \in 0 .. MaxEvents /\ tool' \in [Calls -> ToolRow \cup {None}]
        /\ UNCHANGED <<acp, queue, sent, open, begun, client, row, tips, conv, heard>>
    BY <1>1, <1>3 DEF Lookup, rows, TypeOK
  <2> QED
    BY <2>1, <2>3, <2>4, <2>5, AsideKeeps
<1>4. CASE Write
  <2> DEFINE c == relay.event.call
             new == [column |-> Column(relay.event.info.status),
                     content |-> Merge(relay.found, relay.event.info)]
  <2>1. relay.pc = "write" /\ c \in Calls /\ relay.event.info \in Info
    BY <1>1, <1>4 DEF Write, Standing, Start, Update, Tool, Whole, Info
  <2>2. new \in ToolRow
    <3>1. Merge(relay.found, relay.event.info) \in Info
      BY <1>2, <2>1 DEF Merge, Info
    <3>2. Column(relay.event.info.status) \in {"work", "over"}
      BY <2>1 DEF Column, Info
    <3> QED
      BY <3>1, <3>2 DEF ToolRow
  <2>3. \/ tool' = [tool EXCEPT ![c] = new]
        \/ tool' = tool
    BY <1>4 DEF Write
  <2> HIDE DEF new
  <2>4. tool' \in [Calls -> ToolRow \cup {None}]
    BY <1>1, <2>1, <2>2, <2>3 DEF TypeOK
  <2>5. /\ relay' \in RelayState /\ relay'.pc = "read" /\ relay'.text = relay.text
        /\ relay'.pending = relay.pending /\ relay'.thinks = relay.thinks
        /\ relay'.created = relay.created /\ relay'.form = relay.form
        /\ relay'.event = None
    BY <1>2, <1>4 DEF Write, RelayState
  <2>6. Works \/ Breaks \/ UNCHANGED faults
    BY <1>4 DEF Write
  <2>7. thinking' \in 0 .. MaxEvents
        /\ UNCHANGED <<acp, queue, sent, open, begun, client, row, tips, conv, heard>>
    BY <1>1, <1>4 DEF Write, TypeOK
  <2> QED
    BY <2>1, <2>4, <2>5, <2>6, <2>7, AsideKeeps
<1>5. CASE Think
  <2>1. relay.pc = "think" /\ relay' = [relay EXCEPT !.pc = "clean"]
    BY <1>5 DEF Think, Go
  <2>2. /\ relay' \in RelayState /\ relay'.pc = "clean" /\ relay'.text = relay.text
        /\ relay'.pending = relay.pending /\ relay'.thinks = relay.thinks
        /\ relay'.created = relay.created /\ relay'.form = relay.form
    BY <1>2, <2>1 DEF RelayState
  <2>3. thinking' \in 0 .. MaxEvents
    BY <1>1, <1>5 DEF Think, TypeOK, RelayState
  <2>4. Works \/ Breaks \/ UNCHANGED faults
    BY <1>5 DEF Think
  <2>5. tool' \in [Calls -> ToolRow \cup {None}]
        /\ UNCHANGED <<acp, queue, sent, open, begun, client, row, tips, conv, heard>>
    BY <1>1, <1>5 DEF Think, TypeOK
  <2> QED
    BY <2>1, <2>2, <2>3, <2>4, <2>5, AsideKeeps
<1> QED
  BY <1>3, <1>4, <1>5

\* Cleaning decides the form of the text.
LEMMA CleanKeeps ==
  ASSUME RelayAssumption, IInv, Clean
  PROVE  IInv'
<1> USE DEF IInv
<1>1. PICK form \in Forms : relay' = [relay EXCEPT !.pc = "save", !.form = form]
  BY DEF Clean, Forms
<1>2. relay' \in RelayState
  BY <1>1 DEF TypeOK, RelayState
<1>3. /\ relay'.pc = "save" /\ relay'.text = relay.text /\ relay'.pending = relay.pending
      /\ relay'.created = relay.created /\ relay'.thinks = relay.thinks
  BY <1>1 DEF TypeOK, RelayState
<1>4. TypeOK'
  BY <1>2 DEF Clean, rows, TypeOK
<1>5. Counted' /\ Follows' /\ Standing'
  BY <1>3 DEF Clean, rows, Counted, Follows, Kept, Spoilt, Standing
<1> QED
  BY <1>4, <1>5

\* The end, where only the row and the client may still change.
LEMMA EndKeeps ==
  ASSUME RelayAssumption, IInv, NEW pc \in {"done", "dead"},
         relay' = [relay EXCEPT !.pc = pc],
         client' \in [text : 0 .. MaxEvents, form : Forms], client'.text = client.text,
         tips' \in BOOLEAN, faults' \in 0 .. MaxFaults,
         pc = "dead" => relay.pc # "done" /\ UNCHANGED <<row, faults>>,
         pc = "done" => relay.pc = "save",
         row' = row \/ (row' \in TextRow /\ row'.text = relay.text),
         UNCHANGED <<acp, queue, sent, open, begun, thinking, tool, conv, heard>>
  PROVE  IInv'
<1> USE DEF IInv
<1>1. relay' \in RelayState
  BY DEF TypeOK, RelayState
<1>2. /\ relay'.pc = pc /\ relay'.text = relay.text /\ relay'.pending = relay.pending
      /\ relay'.created = relay.created /\ relay'.form = relay.form
      /\ relay'.thinks = relay.thinks
  BY DEF TypeOK, RelayState
<1>3. TypeOK'
  BY <1>1 DEF TypeOK
<1>4. Counted' /\ Standing'
  BY <1>2 DEF Counted, Standing
<1>5. client'.text = relay'.text /\ Kept' <= relay'.text
  <2>1. relay.text \in Nat
    BY DEF RelayAssumption, TypeOK, RelayState
  <2> QED
    BY <1>2, <2>1 DEF RelayAssumption, Follows, Kept
<1>6. Follows'
  BY <1>2, <1>5 DEF Follows, Kept, Spoilt
<1> QED
  BY <1>3, <1>4, <1>6

\* The text or the error is saved; or the server dies first.
LEMMA SaveKeeps ==
  ASSUME RelayAssumption, IInv, SaveText \/ SaveTips \/ Crash
  PROVE  IInv'
<1>1. TypeOK
  BY DEF IInv
<1>2. relay \in RelayState
  BY <1>1 DEF TypeOK
<1>3. CASE SaveText
  <2> DEFINE final == [text |-> relay.text, form |-> relay.form, status |-> relay.end]
  <2>1. relay.pc = "save" /\ relay' = [relay EXCEPT !.pc = "done"]
    BY <1>3 DEF SaveText, Go
  <2>2. final \in TextRow /\ final.text = relay.text
    BY <1>2 DEF RelayState, TextRow
  <2>3. row' = row \/ row' = final
    BY <1>3 DEF SaveText
  <2>4. client' \in [text : 0 .. MaxEvents, form : Forms] /\ client'.text = client.text
    BY <1>1, <1>2, <1>3 DEF SaveText, TypeOK, RelayState
  <2>5. faults' \in 0 .. MaxFaults
    BY <1>1, <1>3, Outcome DEF SaveText, TypeOK
  <2> HIDE DEF final
  <2>6. row' = row \/ (row' \in TextRow /\ row'.text = relay.text)
    BY <2>2, <2>3
  <2>7. tips' \in BOOLEAN
        /\ UNCHANGED <<acp, queue, sent, open, begun, thinking, tool, conv, heard>>
    BY <1>1, <1>3 DEF SaveText, TypeOK
  <2> QED
    BY <2>1, <2>4, <2>5, <2>6, <2>7, EndKeeps
<1>4. CASE SaveTips
  <2>1. relay.pc = "save" /\ relay' = [relay EXCEPT !.pc = "done"]
    BY <1>4 DEF SaveTips, Go
  <2>2. faults' \in 0 .. MaxFaults
    BY <1>1, <1>4, Outcome DEF SaveTips, TypeOK
  <2>3. /\ client' \in [text : 0 .. MaxEvents, form : Forms] /\ client'.text = client.text
        /\ tips' \in BOOLEAN /\ row' = row
        /\ UNCHANGED <<acp, queue, sent, open, begun, thinking, tool, conv, heard>>
    BY <1>1, <1>4 DEF SaveTips, TypeOK
  <2> QED
    BY <2>1, <2>2, <2>3, EndKeeps
<1>5. CASE Crash
  <2>1. relay.pc # "done" /\ relay' = [relay EXCEPT !.pc = "dead"]
    BY <1>5 DEF Crash, Go
  <2>2. /\ client' \in [text : 0 .. MaxEvents, form : Forms] /\ client'.text = client.text
        /\ tips' \in BOOLEAN /\ faults' \in 0 .. MaxFaults /\ UNCHANGED <<row, faults>>
        /\ UNCHANGED <<acp, queue, sent, open, begun, thinking, tool, conv, heard>>
    BY <1>1, <1>5 DEF Crash, rows, TypeOK
  <2> QED
    BY <2>1, <2>2, EndKeeps
<1> QED
  BY <1>3, <1>4, <1>5

\* A deleted conversation takes its rows along.
LEMMA DeleteKeeps ==
  ASSUME RelayAssumption, IInv, Delete
  PROVE  IInv'
<1> USE DEF IInv
<1>1. Spoilt'
  BY DEF Delete, Spoilt
<1>2. 0 \in 0 .. MaxEvents /\ relay.text \in Nat
  BY DEF RelayAssumption, TypeOK, RelayState
<1>3. TypeOK'
  BY <1>2 DEF Delete, TypeOK
<1>4. Counted' /\ Standing'
  BY DEF Delete, Counted, Standing
<1>5. Follows'
  BY <1>1, <1>2 DEF Delete, Follows, Kept
<1> QED
  BY <1>3, <1>4, <1>5

\* Every step keeps the invariant.
THEOREM Inductive ==
  ASSUME RelayAssumption, IInv, [Next]_vars
  PROVE  IInv'
<1>1. CASE UNCHANGED vars
  BY <1>1 DEF vars, IInv, TypeOK, Counted, Follows, Kept, Spoilt, Standing
<1>2. CASE Next
  BY <1>2, AgentKeeps, ReadTextKeeps, ReadKeeps, FlushKeeps, StoreKeeps, CleanKeeps, SaveKeeps,
     DeleteKeeps DEF Next
<1> QED
  BY <1>1, <1>2
\* StreamRelay (stream_relay.rs): every variable is of its type at every step,
\* whatever the channel's capacity, the interval and the bounds.
THEOREM Typed == ASSUME RelayAssumption PROVE Spec => []TypeOK
<1>1. Init => IInv
  BY Initial
<1>2. IInv /\ [Next]_vars => IInv'
  BY Inductive
<1>3. IInv => TypeOK
  BY DEF IInv
<1> QED
  BY <1>1, <1>2, <1>3, PTL DEF Spec

-----------------------------------------------------------------------------
(* StreamRelay implements Transcript. *)

\* What the copy holds is between nothing and what was shown.
LEMMA KeptIs ==
  ASSUME RelayAssumption, IInv
  PROVE  /\ Kept \in 0 .. client.text /\ Kept \in Nat /\ client.text \in Nat
         /\ relay \in RelayState /\ Spoilt \in BOOLEAN /\ client.text = relay.text
BY DEF RelayAssumption, IInv, TypeOK, Follows, Kept, TextRow, RelayState, Spoilt

\* A step that shows and stores nothing and decides nothing is not seen.
LEMMA Unseen ==
  ASSUME RelayAssumption, IInv, UNCHANGED conv,
         client'.text = client.text, row' = row, relay'.form = relay.form, Stage' = Stage,
         UNCHANGED faults \/ Works \/ Breaks
  PROVE  [Promise!Next]_(Promise!vars)
<1>1. Kept' = Kept /\ Kept \in 0 .. client.text
  BY KeptIs DEF Kept
<1>2. CASE Spoilt' = Spoilt
  BY <1>1, <1>2 DEF Promise!vars
<1>3. CASE Spoilt' = TRUE
  BY <1>1, <1>3 DEF Promise!Next, Promise!Spoil
<1>4. Spoilt' = Spoilt \/ Spoilt' = TRUE
  BY Outcome DEF IInv, Spoilt
<1> QED
  BY <1>2, <1>3, <1>4

\* Every step of the relay is a step of the transcript, or none.
LEMMA Simulates ==
  ASSUME RelayAssumption, IInv, [Next]_vars
  PROVE  [Promise!Next]_(Promise!vars)
<1>1. /\ Kept \in 0 .. client.text /\ Kept \in Nat /\ client.text \in Nat
      /\ relay \in RelayState /\ Spoilt \in BOOLEAN /\ client.text = relay.text
  BY KeptIs
<1>2. CASE UNCHANGED vars
  BY <1>2, Unseen DEF vars, Stage
<1>3. CASE (\E e \in Events : Send(e)) \/ Close
  BY <1>3, Unseen DEF Send, Close, rows, Stage
<1>4. CASE ReadText
  <2>1. /\ relay.pc = "read" /\ client' = [client EXCEPT !.text = @ + 1]
        /\ relay' = [relay EXCEPT !.text = @ + 1, !.pending = @ + 1,
                       !.pc = IF relay.pending + 1 >= FlushInterval THEN "flush" ELSE "read"]
        /\ UNCHANGED <<row, faults, conv>>
    BY <1>4 DEF ReadText, TakeKind, Take, rows
  <2>2. client'.text = client.text + 1
    BY <2>1 DEF IInv, TypeOK
  <2>3. relay'.form = relay.form /\ relay'.pc \in {"read", "flush"}
    BY <1>1, <2>1 DEF RelayState
  <2>4. Stage = "open" /\ Stage' = "open" /\ Kept' = Kept /\ Spoilt' = Spoilt
    BY <2>1, <2>3 DEF Stage, Kept, Spoilt
  <2>5. Spoilt \/ client.text < Kept + FlushInterval
    <3>1. ~Spoilt => client.text = Kept + relay.pending
      BY <1>1, <2>1 DEF IInv, Follows
    <3>2. relay.pending < FlushInterval /\ relay.pending \in Nat /\ FlushInterval \in Nat
      BY <1>1, <2>1 DEF IInv, Standing, RelayState, RelayAssumption
    <3> QED
      BY <1>1, <3>1, <3>2
  <2> QED
    BY <2>2, <2>3, <2>4, <2>5 DEF Promise!Next, Promise!Show
<1>5. CASE ReadThink \/ ReadEnd \/ ReadTool
  <2>1. UNCHANGED <<client, row, faults, conv>>
    BY <1>5 DEF ReadThink, ReadEnd, ReadTool, rows
  <2>2. relay.pc = "read"
    BY <1>5 DEF ReadThink, ReadEnd, ReadTool, TakeKind, Take
  <2>3. relay'.form = relay.form /\ relay'.pc \in {"read", "think", "write", "lookup"}
    BY <1>1, <1>5, <2>2 DEF ReadThink, ReadEnd, ReadTool, RelayState
  <2> QED
    BY <2>1, <2>2, <2>3, Unseen DEF Stage
<1>6. CASE Flush
  <2> DEFINE new == [text |-> relay.text, form |-> "raw", status |-> "work"]
  <2>1. relay'.form = relay.form /\ relay.pc = "flush" /\ relay'.pc = "read"
    BY <1>1, <1>6 DEF Flush, RelayState
  <2>2. UNCHANGED <<client, conv>>
    BY <1>6 DEF Flush
  <2>3. CASE row' = row
    BY <1>6, <2>1, <2>2, <2>3, Unseen DEF Flush, Stage
  <2>4. CASE Works /\ row' = new
    <3>1. new # None /\ new.text = relay.text
      BY <1>1 DEF RelayAssumption, RelayState, TextRow, Forms, Statuses
    <3>2. Kept' = client.text
      BY <1>1, <2>4, <3>1 DEF Kept
    <3>3. Spoilt' = Spoilt
      BY <2>2, <2>4 DEF Works, Spoilt
    <3>4. Kept' \in Kept .. client.text
      BY <1>1, <3>2
    <3> QED
      BY <2>1, <2>2, <3>3, <3>4 DEF Stage, Promise!Next, Promise!Keep
  <2> QED
    BY <1>6, <2>3, <2>4 DEF Flush
<1>7. CASE Lookup \/ Write \/ Think
  <2>1. UNCHANGED <<client, row, conv>> /\ relay.pc \in {"lookup", "write", "think"}
        /\ (UNCHANGED faults \/ Works \/ Breaks)
    BY <1>7 DEF Lookup, Write, Think, rows
  <2>2. relay'.form = relay.form /\ relay'.pc \in {"read", "write", "clean"}
    BY <1>1, <1>7 DEF Lookup, Write, Think, Go, RelayState
  <2> QED
    BY <2>1, <2>2, Unseen DEF Stage
<1>8. CASE Clean
  <2>1. PICK form \in Forms : relay' = [relay EXCEPT !.pc = "save", !.form = form]
    BY <1>8 DEF Clean, Forms
  <2>2. UNCHANGED <<client, row, faults, conv>> /\ relay.pc = "clean" /\ relay.form = "raw"
    BY <1>8 DEF Clean, rows, IInv, Standing
  <2>3. relay'.form = form /\ relay'.pc = "save"
    BY <1>1, <2>1 DEF RelayState
  <2>4. Stage = "open" /\ Stage' = "open" /\ Kept' = Kept /\ Spoilt' = Spoilt
    BY <2>2, <2>3 DEF Stage, Kept, Spoilt
  <2>5. CASE form = "emptied"
    BY <2>2, <2>3, <2>4, <2>5 DEF Promise!Next, Promise!Judge
  <2>6. CASE form # "emptied"
    BY <2>2, <2>3, <2>4, <2>6 DEF Promise!vars
  <2> QED
    BY <2>5, <2>6
<1>9. CASE SaveText \/ SaveTips
  <2>1. relay.pc = "save" /\ relay'.pc = "done" /\ relay'.form = relay.form
    BY <1>1, <1>9 DEF SaveText, SaveTips, Go, RelayState
  <2>2. client'.text = client.text /\ UNCHANGED conv
    BY <1>9 DEF SaveText, SaveTips, IInv, TypeOK
  <2>3. Stage = "open" /\ Stage' = "closed"
    BY <2>1 DEF Stage
  <2>4. CASE Spoilt'
    <3>1. Kept' \in 0 .. client.text
      BY <1>1, <1>9 DEF SaveText, SaveTips, Kept
    <3> QED
      BY <2>1, <2>2, <2>3, <2>4, <3>1 DEF Promise!Next, Promise!Spoil
  <2>5. CASE ~Spoilt'
    <3>1. ~Spoilt
      BY <2>5, Outcome, <1>9 DEF SaveText, SaveTips, IInv, Spoilt
    <3>2. (~relay.created => row = None) /\ (relay.created => row # None)
      BY <2>1, <3>1 DEF IInv, Follows
    <3>3. Kept' = client.text \/ (relay.form = "emptied" /\ Kept = 0 /\ Kept' = 0)
      <4>1. CASE SaveText
        BY <1>1, <2>5, <3>2, <4>1, Outcome DEF SaveText, Kept, IInv, RelayAssumption, TextRow, RelayState
      <4>2. CASE SaveTips
        BY <1>1, <4>2 DEF SaveTips, Kept
      <4> QED
        BY <1>9, <4>1, <4>2
    <3>4. Spoilt' = Spoilt /\ (relay'.form = "emptied") = (relay.form = "emptied")
      BY <2>1, <2>5, <3>1 DEF Spoilt
    <3> QED
      BY <2>2, <2>3, <3>3, <3>4 DEF Promise!Next, Promise!Close
  <2> QED
    BY <2>4, <2>5
<1>10. CASE Delete
  <2>1. Spoilt' /\ Kept' = 0 /\ UNCHANGED <<relay, client>>
    BY <1>10 DEF Delete, Spoilt, Kept
  <2>2. 0 \in 0 .. client.text
    BY <1>1
  <2> QED
    BY <2>1, <2>2 DEF Stage, Promise!Next, Promise!Spoil
<1>11. CASE Crash
  <2>1. relay.pc \notin {"done", "dead"} /\ relay'.pc = "dead" /\ relay'.form = relay.form
        /\ UNCHANGED <<client, row, faults, conv>>
    BY <1>1, <1>11 DEF Crash, Go, rows, RelayState
  <2> QED
    BY <2>1 DEF Stage, Kept, Spoilt, Promise!Next, Promise!Cut
<1> QED
  BY <1>2, <1>3, <1>4, <1>5, <1>6, <1>7, <1>8, <1>9, <1>10, <1>11 DEF Next

\* StreamRelay::consume implements the transcript: what is stored of an answer
\* never shows more than the client was shown, is never more than one interval
\* behind, and is complete when the turn is done, unless a statement failed or
\* the conversation is gone.
THEOREM Refines == ASSUME RelayAssumption PROVE Spec => KeepsTranscript
<1>1. Init => Promise!Init
  BY DEF RelayAssumption, Init, Promise!Init, Kept, Spoilt, Stage
<1>2. Init => IInv
  BY Initial
<1>3. IInv /\ [Next]_vars => IInv'
  BY Inductive
<1>4. IInv /\ [Next]_vars => [Promise!Next]_(Promise!vars)
  BY Simulates
<1> QED
  BY <1>1, <1>2, <1>3, <1>4, PTL DEF Spec, KeepsTranscript, Promise!Spec

-----------------------------------------------------------------------------
(* Who reloads sees the same. *)

\* The i-th event of the channel starts the call c.
Starts(i, c) == i \in 1 .. Len(queue) /\ queue[i].kind = "start" /\ queue[i].call = c

\* The i-th event of the channel updates the call c.
Updates(i, c) == i \in 1 .. Len(queue) /\ queue[i].kind = "update" /\ queue[i].call = c

\* A call is started once, and nothing was heard of it before; updates follow
\* the start.
Fresh ==
  /\ \A i \in Nat, c \in Calls : Starts(i, c) => acp /\ c \in begun /\ heard[c] = None
  /\ \A i, j \in Nat, c \in Calls : Starts(i, c) /\ Starts(j, c) => i = j
  /\ \A i \in Nat, c \in Calls : Updates(i, c) => acp /\ c \in begun
  /\ \A i, j \in Nat, c \in Calls : Starts(i, c) /\ Updates(j, c) => i < j
  /\ \A i \in 1 .. Len(queue) : queue[i].kind = "tool" => ~acp
  /\ acp => \A c \in Calls : heard[c] # None => c \in begun

\* Where calls are not updated, each is heard of from its start.
FromStart == ~acp => \A c \in Calls : heard[c] # None => heard[c].start

\* What was heard of the event's call before the event.
Earlier(was, e) ==
  /\ heard[e.call] = Hear(was, e) /\ tool[e.call] = Recorded(was)
  /\ e.kind = "start" => was = None
  /\ e.kind = "tool" => was = None \/ was.start

\* What a lookup finds.
Content(r) == IF r = None THEN None ELSE r.content

\* Each call's row is what was heard of the call, up to the event at hand.
ToolsFollow ==
  IF relay.pc \in {"lookup", "write"}
  THEN LET e == relay.event IN
       /\ \A d \in Calls : d # e.call => tool[d] = Recorded(heard[d])
       /\ \E was \in HeardCall \cup {None} : Earlier(was, e)
       /\ e.kind = "start" => relay.pc = "write" /\ tool[e.call] = None
       /\ relay.pc = "write" => relay.found = Content(tool[e.call])
  ELSE tool = [c \in Calls |-> Recorded(heard[c])]

\* What is stored at the end is not there before and is right after.
EndFollows ==
  /\ relay.pc \in {"read", "flush", "lookup", "write", "think"} => thinking = 0
  /\ relay.pc \in {"clean", "save", "done"} => thinking = relay.thinks
  /\ relay.pc # "done" => client.form = "raw" /\ ~tips
  /\ relay.pc = "done" =>
       /\ tips = (relay.end = "error" /\ relay.text = 0)
       /\ row = None => relay.text = 0 \/ (relay.form = "emptied" /\ relay.text < FlushInterval)
       /\ row # None => row.text = client.text /\ row.form = client.form /\ row.status = relay.end

Agrees == Fresh /\ FromStart /\ (~Spoilt /\ relay.pc # "dead" => ToolsFollow /\ EndFollows)

\* At first nothing is stored, shown or heard.
LEMMA AgreesAtFirst == ASSUME RelayAssumption, Init PROVE Agrees
<1>1. Len(queue) = 0
  BY DEF Init
<1>2. Fresh
  BY <1>1 DEF Init, Fresh, Starts, Updates
<1>3. ToolsFollow /\ EndFollows
  BY DEF Init, ToolsFollow, Recorded, EndFollows
<1>4. FromStart
  BY DEF Init, FromStart
<1> QED
  BY <1>2, <1>3, <1>4 DEF Agrees

\* A step that leaves the channel and what was heard alone.
LEMMA FreshStays ==
  ASSUME Fresh, FromStart, UNCHANGED <<queue, acp, begun, heard>>
  PROVE  Fresh' /\ FromStart'
BY DEF Fresh, FromStart, Starts, Updates

\* Reading the head moves the others one place up.
LEMMA FreshTail ==
  ASSUME TypeOK, Fresh, Take, UNCHANGED <<acp, begun>>, heard' \in [Calls -> HeardCall \cup {None}],
         \A c \in Calls : heard'[c] = heard[c] \/
            (Head(queue).kind \in {"start", "update", "tool"} /\ Head(queue).call = c)
  PROVE  Fresh'
<1>1. queue # <<>> /\ queue' = Tail(queue)
  BY DEF Take
<1>2. /\ Len(queue) \in Nat /\ Len(queue) > 0 /\ Len(queue') = Len(queue) - 1
      /\ \A i \in 1 .. Len(queue') : queue'[i] = queue[i + 1]
      /\ Head(queue) = queue[1]
  BY <1>1, HeadTailProperties, EmptySeq DEF TypeOK
<1>3. ASSUME NEW i \in Nat, NEW c \in Calls, Starts(i, c)' PROVE Starts(i + 1, c)
  BY <1>2, <1>3 DEF Starts
<1>8. ASSUME NEW i \in Nat, NEW c \in Calls, Updates(i, c)' PROVE Updates(i + 1, c)
  BY <1>2, <1>8 DEF Updates
<1>4. ASSUME NEW i \in Nat, NEW c \in Calls, Starts(i, c)' PROVE acp' /\ c \in begun' /\ heard'[c] = None
  <2>1. Starts(i + 1, c) /\ acp /\ c \in begun /\ heard[c] = None /\ i > 0
    BY <1>3, <1>4 DEF Fresh, Starts
  <2>2. ~(queue[1].kind = "start" /\ queue[1].call = c)
    <3>1. queue[1].kind = "start" /\ queue[1].call = c => Starts(1, c)
      BY <1>2 DEF Starts
    <3>2. Starts(1, c) => i + 1 = 1
      BY <2>1 DEF Fresh
    <3> QED
      BY <2>1, <3>1, <3>2
  <2>3. queue[1].kind # "tool"
    BY <1>2, <2>1 DEF Fresh
  <2>4. ~(queue[1].kind = "update" /\ queue[1].call = c)
    <3>1. queue[1].kind = "update" /\ queue[1].call = c => Updates(1, c)
      BY <1>2 DEF Updates
    <3>2. i + 1 \in Nat /\ 1 \in Nat /\ ~(i + 1 < 1)
      OBVIOUS
    <3>3. \A m, j \in Nat : Starts(m, c) /\ Updates(j, c) => m < j
      BY DEF Fresh
    <3>4. ~Updates(1, c)
      BY <2>1, <3>2, <3>3
    <3> QED
      BY <3>1, <3>4
  <2> QED
    BY <1>2, <2>1, <2>2, <2>3, <2>4
<1>5. ASSUME NEW i \in Nat, NEW j \in Nat, NEW c \in Calls, Starts(i, c)', Starts(j, c)' PROVE i = j
  <2>1. Starts(i + 1, c) /\ Starts(j + 1, c)
    BY <1>3, <1>5
  <2>2. i + 1 = j + 1
    BY <2>1 DEF Fresh
  <2> QED
    BY <2>2
<1>6. ASSUME NEW i \in 1 .. Len(queue'), queue'[i].kind = "tool" PROVE ~acp'
  BY <1>2, <1>6, SMTT(40) DEF Fresh
<1>7. ASSUME acp', NEW c \in Calls, heard'[c] # None PROVE c \in begun'
  <2>1. CASE heard[c] # None
    BY <1>7, <2>1 DEF Fresh
  <2>2. CASE heard[c] = None
    <3>1. queue[1].kind \in {"start", "update", "tool"} /\ queue[1].call = c
      BY <1>2, <1>7, <2>2
    <3>2. queue[1].kind \in {"start", "update"}
      BY <1>2, <1>7, <3>1 DEF Fresh
    <3>3. Starts(1, c) \/ Updates(1, c)
      BY <1>2, <3>1, <3>2 DEF Starts, Updates
    <3> QED
      BY <3>3 DEF Fresh
  <2> QED
    BY <2>1, <2>2
<1>9. ASSUME NEW i \in Nat, NEW c \in Calls, Updates(i, c)' PROVE acp' /\ c \in begun'
  BY <1>8, <1>9 DEF Fresh
<1>10. ASSUME NEW i \in Nat, NEW j \in Nat, NEW c \in Calls, Starts(i, c)', Updates(j, c)' PROVE i < j
  <2>1. Starts(i + 1, c) /\ Updates(j + 1, c)
    BY <1>3, <1>8, <1>10
  <2>2. i + 1 < j + 1
    BY <2>1 DEF Fresh
  <2> QED
    BY <2>2
<1> QED
  BY <1>4, <1>5, <1>6, <1>7, <1>9, <1>10 DEF Fresh

\* What a full channel keeps of its events, and where.
LEMMA Shifted ==
  ASSUME RelayAssumption, queue \in Seq(Events), NEW e \in Events,
         queue' = Append(IF Len(queue) < Capacity THEN queue ELSE Tail(queue), e)
  PROVE  \E k \in {0, 1} : \A i \in 1 .. Len(queue') :
           \/ i = Len(queue') /\ queue'[i] = e
           \/ i + k \in 1 .. Len(queue) /\ i < Len(queue') /\ queue'[i] = queue[i + k]
<1> DEFINE kept == IF Len(queue) < Capacity THEN queue ELSE Tail(queue)
<1>1. PICK k \in {0, 1} : /\ kept \in Seq(Events) /\ Len(kept) = Len(queue) - k
                          /\ \A i \in 1 .. Len(kept) : kept[i] = queue[i + k]
  <2>1. CASE Len(queue) < Capacity
    <3>1. kept = queue /\ Len(queue) \in Nat
      BY <2>1, LenProperties
    <3>2. \A i \in 1 .. Len(queue) : i + 0 = i
      BY <3>1
    <3>3. Len(queue) - 0 = Len(queue)
      BY <3>1
    <3> HIDE DEF kept
    <3> QED
      BY <3>1, <3>2, <3>3, ZenonT(60)
  <2>2. CASE ~(Len(queue) < Capacity)
    <3>1. Capacity \in Nat \ {0} /\ Len(queue) \in Nat
      BY LenProperties DEF RelayAssumption
    <3>2. queue # <<>> /\ kept = Tail(queue)
      BY <2>2, <3>1, EmptySeq
    <3> QED
      BY <3>2, HeadTailProperties
  <2> QED
    BY <2>1, <2>2
<1>2. queue' = Append(kept, e)
  OBVIOUS
<1> HIDE DEF kept
<1>3. /\ Len(Append(kept, e)) = Len(kept) + 1 /\ Append(kept, e)[Len(kept) + 1] = e
      /\ \A i \in 1 .. Len(kept) : Append(kept, e)[i] = kept[i]
  BY <1>1, AppendProperties
<1>4. Len(kept) \in Nat /\ Len(queue) \in Nat
  BY <1>1, LenProperties
<1>5. ASSUME NEW i \in 1 .. Len(queue')
      PROVE  \/ i = Len(queue') /\ queue'[i] = e
             \/ i + k \in 1 .. Len(queue) /\ i < Len(queue') /\ queue'[i] = queue[i + k]
  <2>1. i \in 1 .. Len(kept) + 1 /\ Len(queue') = Len(kept) + 1
    BY <1>2, <1>3
  <2>2. CASE i = Len(kept) + 1
    BY <1>2, <1>3, <2>1, <2>2
  <2>3. CASE i \in 1 .. Len(kept)
    BY <1>1, <1>2, <1>3, <1>4, <2>1, <2>3, SMTT(40)
  <2> QED
    BY <1>4, <2>1, <2>2, <2>3
<1> QED
  BY <1>5, SMTT(40)

\* A call is started at most once, and before anything else is said of it.
LEMMA FreshSent ==
  ASSUME RelayAssumption, TypeOK, Fresh, NEW e \in Events, Send(e)
  PROVE  Fresh'
<1>1. PICK k \in {0, 1} : \A i \in 1 .. Len(queue') :
        \/ i = Len(queue') /\ queue'[i] = e
        \/ i + k \in 1 .. Len(queue) /\ i < Len(queue') /\ queue'[i] = queue[i + k]
  BY Shifted DEF Send, TypeOK
<1>2. /\ UNCHANGED <<acp, heard>> /\ begun \subseteq begun'
      /\ e \in Start => acp /\ e.call \notin begun /\ e.call \in begun'
      /\ e \in Update => acp /\ e.call \in begun
      /\ e \in Tool => ~acp
  BY DEF Send
<1>3. /\ (e.kind = "start" => e \in Start) /\ (e.kind = "update" => e \in Update)
      /\ (e.kind = "tool" => e \in Tool)
  BY DEF Events, Plain, Start, Update, Tool
<1>4. ASSUME NEW i \in Nat, NEW c \in Calls, Starts(i, c)'
      PROVE  \/ i = Len(queue') /\ e \in Start /\ e.call = c
             \/ i + k \in Nat /\ i < Len(queue') /\ Starts(i + k, c)
  BY <1>1, <1>3, <1>4 DEF Starts
<1>9. ASSUME NEW i \in Nat, NEW c \in Calls, Updates(i, c)'
      PROVE  \/ i = Len(queue') /\ e \in Update /\ e.call = c
             \/ i + k \in Nat /\ i < Len(queue') /\ Updates(i + k, c)
  BY <1>1, <1>3, <1>9 DEF Updates
<1>5. ASSUME NEW i \in Nat, NEW c \in Calls, Starts(i, c)' PROVE acp' /\ c \in begun' /\ heard'[c] = None
  BY <1>2, <1>4, <1>5 DEF Fresh
<1>6. ASSUME NEW i \in Nat, NEW j \in Nat, NEW c \in Calls, Starts(i, c)', Starts(j, c)' PROVE i = j
  <2>1. c \notin begun => i = Len(queue') /\ j = Len(queue')
    BY <1>4, <1>6 DEF Fresh
  <2>2. c \in begun => Starts(i + k, c) /\ Starts(j + k, c) /\ i + k \in Nat /\ j + k \in Nat
    BY <1>2, <1>4, <1>6
  <2>3. c \in begun => i + k = j + k
    BY <2>2 DEF Fresh
  <2> QED
    BY <2>1, <2>3
<1>7. ASSUME NEW i \in 1 .. Len(queue'), queue'[i].kind = "tool" PROVE ~acp'
  BY <1>1, <1>2, <1>3, <1>7 DEF Fresh
<1>8. ASSUME acp', NEW c \in Calls, heard'[c] # None PROVE c \in begun'
  BY <1>2, <1>8 DEF Fresh
<1>10. ASSUME NEW i \in Nat, NEW c \in Calls, Updates(i, c)' PROVE acp' /\ c \in begun'
  BY <1>2, <1>9, <1>10 DEF Fresh
<1>11. ASSUME NEW i \in Nat, NEW j \in Nat, NEW c \in Calls, Starts(i, c)', Updates(j, c)' PROVE i < j
  <2>1. CASE Starts(i + k, c) /\ Updates(j + k, c) /\ i + k \in Nat /\ j + k \in Nat
    <3>1. i + k < j + k
      BY <2>1 DEF Fresh
    <3> QED
      BY <3>1
  <2>2. CASE i = Len(queue') /\ e \in Start /\ e.call = c
    <3>1. e \notin Update
      BY <2>2 DEF Start, Update
    <3>2. Updates(j + k, c) /\ j + k \in Nat
      BY <1>9, <1>11, <3>1
    <3> QED
      BY <1>2, <2>2, <3>2 DEF Fresh
  <2>3. CASE j = Len(queue') /\ i < Len(queue')
    BY <2>3
  <2> QED
    BY <1>4, <1>9, <1>11, <2>1, <2>2, <2>3
<1> QED
  BY <1>5, <1>6, <1>7, <1>8, <1>10, <1>11 DEF Fresh

\* The agent's steps and a deletion.
LEMMA OutsideAgrees ==
  ASSUME RelayAssumption, IInv, Agrees, (\E e \in Events : Send(e)) \/ Close \/ Delete \/ Crash
  PROVE  Agrees'
<1>1. CASE \E e \in Events : Send(e)
  <2>1. Fresh'
    BY <1>1, FreshSent DEF IInv, Agrees
  <2> QED
    BY <1>1, <2>1 DEF Send, rows, Agrees, FromStart, Spoilt, ToolsFollow, Earlier, EndFollows
<1>2. CASE Close
  BY <1>2, FreshStays DEF Close, rows, Agrees, Spoilt, ToolsFollow, Earlier, EndFollows
<1>3. CASE Delete
  BY <1>3, FreshStays DEF Delete, Agrees, Spoilt
<1>4. CASE Crash
  <2>1. relay.pc \notin {"done", "dead"} /\ UNCHANGED <<client, row, thinking, tips, tool, faults, conv, heard>>
        /\ UNCHANGED <<queue, acp, begun>>
    BY <1>4 DEF Crash, rows
  <2>2. Fresh' /\ FromStart'
    BY <2>1, FreshStays DEF Agrees
  <2>3. relay'.pc = "dead"
    BY <1>4 DEF Crash, Go, IInv, TypeOK, RelayState
  <2> QED
    BY <2>2, <2>3 DEF Agrees
<1> QED
  BY <1>1, <1>2, <1>3, <1>4
\* Reading: of a tool call, what it brings is heard and yet to be written.
LEMMA ReadAgrees ==
  ASSUME RelayAssumption, IInv, Agrees, ReadText \/ ReadThink \/ ReadEnd \/ ReadTool
  PROVE  Agrees'
<1>1. relay \in RelayState /\ TypeOK /\ TypeOK'
  BY Inductive DEF IInv, TypeOK, Next
<1>2. CASE ReadText \/ ReadThink \/ ReadEnd
  <2>1. Fresh' /\ FromStart'
    <3>1. CASE Take
      BY <1>1, <1>2, <3>1, FreshTail DEF ReadText, ReadThink, ReadEnd, TypeOK, Agrees, FromStart
    <3>2. CASE UNCHANGED queue
      BY <1>2, <3>2, FreshStays DEF ReadText, ReadThink, ReadEnd, Agrees
    <3> QED
      BY <1>2, <3>1, <3>2 DEF ReadText, ReadThink, ReadEnd, TakeKind
  <2>2. relay.pc = "read" /\ relay'.pc \in {"read", "flush", "think"} /\ client'.form = client.form
    BY <1>1, <1>2, ZenonT(60) DEF ReadText, ReadThink, ReadEnd, TakeKind, Take, RelayState, TypeOK
  <2>3. UNCHANGED <<thinking, tips, tool, heard, faults, conv>>
    BY <1>2 DEF ReadText, ReadThink, ReadEnd, rows
  <2> QED
    BY <2>1, <2>2, <2>3 DEF Agrees, Spoilt, ToolsFollow, Earlier, EndFollows
<1>3. CASE ReadTool
  <2> DEFINE e == Head(queue)
  <2>1. /\ relay.pc = "read" /\ queue # <<>> /\ e \in Events
        /\ e.kind \in {"start", "update", "tool"}
        /\ relay' = [relay EXCEPT !.event = e, !.found = None,
                       !.pc = IF e.kind = "start" THEN "write" ELSE "lookup"]
        /\ heard' = [heard EXCEPT ![e.call] = Hear(heard[e.call], e)]
        /\ UNCHANGED <<acp, begun, client, row, thinking, tips, tool, conv, faults>>
    BY <1>1, <1>3, Taking DEF ReadTool, Take, rows, TypeOK
  <2>2. e.call \in Calls /\ e.info \in Info
    BY <2>1, EventKinds
  <2>3. Fresh'
    BY <1>1, <1>3, <2>1, FreshTail DEF ReadTool, TypeOK, Agrees
  <2>4. relay'.pc = (IF e.kind = "start" THEN "write" ELSE "lookup") /\ relay'.event = e /\ relay'.found = None
    BY <1>1, <2>1 DEF RelayState
  <2>5. /\ e.kind = "start" => heard[e.call] = None
        /\ e.kind = "update" => acp
        /\ e.kind = "tool" => ~acp
    <3>1. /\ e.kind = "start" => Starts(1, e.call)
          /\ e.kind = "update" => Updates(1, e.call)
          /\ 1 \in 1 .. Len(queue) /\ e = queue[1]
      BY <2>1, EmptySeq DEF Starts, Updates, IInv, TypeOK
    <3> QED
      BY <2>2, <3>1 DEF Agrees, Fresh
  <2> HIDE DEF e
  <2>6. FromStart'
    <3>1. SUFFICES ASSUME ~acp, NEW c \in Calls, heard'[c] # None PROVE heard'[c].start
      BY <2>1 DEF FromStart
    <3>2. CASE c # e.call
      BY <1>1, <2>1, <3>1, <3>2 DEF Agrees, FromStart, TypeOK
    <3>3. CASE c = e.call
      <4>1. heard'[c] = Hear(heard[c], e) /\ e.kind # "update"
        BY <1>1, <2>1, <2>5, <3>1, <3>3 DEF TypeOK
      <4>2. heard[c] # None => heard[c] \in HeardCall /\ heard[c].start
        BY <1>1, <3>1 DEF Agrees, FromStart, TypeOK
      <4>3. CASE heard[c] = None
        <5>1. Hear(heard[c], e).start = (e.kind # "update")
          BY <4>3 DEF Hear
        <5> QED
          BY <4>1, <5>1, Zenon
      <4>4. CASE heard[c] # None
        <5>1. Hear(heard[c], e).start = heard[c].start
          BY <4>2, <4>4 DEF Hear, HeardCall
        <5> QED
          BY <4>1, <4>2, <4>4, <5>1
      <4> QED
        BY <4>3, <4>4
    <3> QED
      BY <3>2, <3>3
  <2>7. ASSUME ~Spoilt' PROVE ToolsFollow' /\ EndFollows'
    <3>1. tool = [c \in Calls |-> Recorded(heard[c])] /\ EndFollows
      BY <2>1, <2>7 DEF Agrees, Spoilt, ToolsFollow
    <3>2. heard[e.call] \in HeardCall \cup {None}
      BY <1>1, <2>2 DEF TypeOK
    <3>3. /\ heard'[e.call] = Hear(heard[e.call], e) /\ tool'[e.call] = Recorded(heard[e.call])
          /\ e.kind = "start" => heard[e.call] = None
          /\ e.kind = "tool" => heard[e.call] = None \/ heard[e.call].start
      BY <1>1, <2>1, <2>2, <2>5, <3>1 DEF Agrees, FromStart, TypeOK
    <3>4. \A d \in Calls : d # e.call => tool'[d] = Recorded(heard'[d])
      BY <1>1, <2>1, <2>2, <3>1 DEF TypeOK
    <3>5. e.kind = "start" => tool[e.call] = None
      BY <2>2, <2>5, <3>1 DEF Recorded
    <3>6. relay'.pc = "write" => relay'.found = Content(tool'[e.call])
      BY <2>1, <2>4, <3>5 DEF Content
    <3>7. ToolsFollow'
      BY <2>1, <2>4, <3>2, <3>3, <3>4, <3>5, <3>6 DEF ToolsFollow, Earlier
    <3>8. EndFollows'
      BY <2>1, <2>4, <3>1 DEF EndFollows
    <3> QED
      BY <3>7, <3>8
  <2> QED
    BY <2>3, <2>6, <2>7 DEF Agrees
<1> QED
  BY <1>2, <1>3
\* A statement that fails spoils the turn; one that works does not.
LEMMA Unspoilt ==
  ASSUME RelayAssumption, TypeOK, UNCHANGED conv, ~Spoilt', Works \/ Breaks
  PROVE  ~Spoilt /\ Works /\ ~Breaks
BY DEF RelayAssumption, TypeOK, Works, Breaks, Spoilt

\* The row that is written is what was heard of the call, with its event.
LEMMA RowIsHeard ==
  ASSUME RelayAssumption, NEW was \in HeardCall \cup {None}, NEW e \in Start \cup Update \cup Tool,
         e.kind = "start" => was = None, e.kind = "tool" => was = None \/ was.start
  PROVE  LET found == Content(Recorded(was))
             update == e.kind = "update" \/ found # None
         IN  Recorded(Hear(was, e)) =
               IF update = (Recorded(was) # None)
               THEN [column |-> Column(e.info.status), content |-> Merge(found, e.info)]
               ELSE Recorded(was)
<1> DEFINE found == Content(Recorded(was))
<1>1. /\ e.kind \in {"start", "update", "tool"} /\ e.info \in Info
      /\ e.info = [status |-> e.info.status, input |-> e.info.input]
      /\ e.info.status \in {"none", "work", "over"} /\ e.info.input \in BOOLEAN
  BY DEF Start, Update, Tool, Whole, Info
<1>2. Hear(was, e) \in HeardCall /\ Hear(was, e) # None
  BY <1>1, HearType DEF RelayAssumption
<1>3. CASE was = None
  <2>1. Recorded(was) = None /\ found = None
    BY <1>3 DEF Recorded, Content
  <2>2. Hear(was, e) = [start |-> e.kind # "update", status |-> e.info.status,
                        input |-> e.info.input, bare |-> e.info.status = "none"]
    BY <1>3 DEF Hear
  <2>3. CASE e.kind = "update"
    <3>1. Hear(was, e).start = (e.kind # "update")
      BY <2>2
    <3>2. ~Hear(was, e).start
      BY <2>3, <3>1, Zenon
    <3>3. Recorded(Hear(was, e)) = None
      BY <3>2 DEF Recorded
    <3> QED
      BY <2>1, <2>3, <3>3
  <2>4. CASE e.kind # "update"
    <3>1. /\ Hear(was, e).start = (e.kind # "update") /\ Hear(was, e).status = e.info.status
          /\ Hear(was, e).input = e.info.input /\ Hear(was, e).bare = (e.info.status = "none")
      BY <2>2
    <3>2. Hear(was, e).start
      BY <2>4, <3>1, Zenon
    <3>3. Recorded(Hear(was, e)) =
            [column |-> IF Hear(was, e).bare THEN "work" ELSE Hear(was, e).status,
             content |-> [status |-> Hear(was, e).status, input |-> Hear(was, e).input]]
      BY <1>2, <3>2 DEF Recorded
    <3>4. [status |-> Hear(was, e).status, input |-> Hear(was, e).input] = e.info
      BY <1>1, <3>1
    <3>5. (IF Hear(was, e).bare THEN "work" ELSE Hear(was, e).status) = Column(e.info.status)
      BY <3>1 DEF Column
    <3>6. Recorded(Hear(was, e)) = [column |-> Column(e.info.status), content |-> e.info]
      BY <3>3, <3>4, <3>5
    <3> QED
      BY <2>1, <2>4, <3>6 DEF Merge
  <2> QED
    BY <2>3, <2>4
<1>4. CASE was # None
  <2>1. was \in HeardCall /\ e.kind # "start"
    BY <1>4
  <2>2. /\ Hear(was, e).start = was.start
        /\ Hear(was, e).status = IF e.info.status = "none" THEN was.status ELSE e.info.status
        /\ Hear(was, e).input = (was.input \/ e.info.input)
        /\ Hear(was, e).bare = (e.info.status = "none")
    BY <1>1, <1>4, <2>1 DEF Hear, HeardCall
  <2>3. CASE ~was.start
    <3>1. e.kind = "update" /\ Recorded(was) = None /\ Recorded(Hear(was, e)) = None
      BY <1>1, <1>4, <2>1, <2>2, <2>3 DEF Recorded
    <3> QED
      BY <3>1
  <2>4. CASE was.start
    <3>1. Recorded(was).content = [status |-> was.status, input |-> was.input]
      BY <1>4, <2>4 DEF Recorded
    <3>2. Recorded(was) \in ToolRow /\ Recorded(was).content \in Info
      BY <1>4, <2>1, <2>4 DEF Recorded, ToolRow, Info, HeardCall
    <3>3. Recorded(was) # None /\ found = Recorded(was).content /\ found # None
      BY <3>2 DEF RelayAssumption, Content
    <3>4. Recorded(Hear(was, e)) =
            [column |-> Column(e.info.status), content |-> Merge(found, e.info)]
      BY <1>1, <1>2, <2>1, <2>2, <2>4, <3>1, <3>3 DEF Recorded, Column, Merge, HeardCall
    <3> QED
      BY <3>3, <3>4
  <2> QED
    BY <2>3, <2>4
<1> QED
  BY <1>3, <1>4

\* The steps between two events, and the thinking and the cleaning at the end.
LEMMA WorkAgrees ==
  ASSUME RelayAssumption, IInv, Agrees, Flush \/ Lookup \/ Write \/ Think \/ Clean
  PROVE  Agrees'
<1>1. relay \in RelayState /\ TypeOK
  BY DEF IInv, TypeOK
<1>2. Fresh' /\ FromStart'
  BY FreshStays DEF Flush, Lookup, Write, Think, Clean, Agrees
<1>3. SUFFICES ASSUME ~Spoilt' PROVE ToolsFollow' /\ EndFollows'
  BY <1>2 DEF Agrees
<1>4. CASE Flush
  <2>1. relay.pc = "flush" /\ relay'.pc = "read"
    BY <1>1, <1>4 DEF Flush, RelayState
  <2>2. ~Spoilt
    BY <1>1, <1>3, <1>4, Unspoilt DEF Flush
  <2> QED
    BY <1>4, <2>1, <2>2 DEF Flush, Agrees, ToolsFollow, EndFollows
<1>5. CASE Lookup
  <2>1. ~Spoilt /\ Works /\ ~Breaks
    BY <1>1, <1>3, <1>5, Unspoilt DEF Lookup
  <2>2. relay' = [relay EXCEPT !.pc = "write", !.found = Content(tool[relay.event.call])]
    BY <1>5, <2>1 DEF Lookup, Content
  <2>3. /\ relay.pc = "lookup" /\ relay'.pc = "write" /\ relay'.event = relay.event
        /\ relay'.found = Content(tool[relay.event.call])
    BY <1>1, <1>5, <2>2 DEF Lookup, RelayState
  <2>4. ToolsFollow /\ EndFollows /\ UNCHANGED <<tool, heard, thinking, client, tips>>
    BY <1>5, <2>1, <2>3 DEF Lookup, rows, Agrees
  <2>5. ToolsFollow'
    BY <2>3, <2>4 DEF ToolsFollow, Earlier
  <2>6. EndFollows'
    BY <2>3, <2>4 DEF EndFollows
  <2> QED
    BY <2>5, <2>6
<1>6. CASE Write
  <2> DEFINE e == relay.event
             c == e.call
             update == e.kind = "update" \/ relay.found # None
  <2>1. ~Spoilt /\ Works /\ ~Breaks
    BY <1>1, <1>3, <1>6, Unspoilt DEF Write
  <2>2. relay.pc = "write" /\ relay'.pc = "read"
    BY <1>1, <1>6 DEF Write, RelayState
  <2>3. ToolsFollow /\ EndFollows
    BY <2>1, <2>2 DEF Agrees
  <2>4. c \in Calls
    BY <2>2 DEF IInv, Standing, Start, Update, Tool
  <2> DEFINE new == [column |-> Column(e.info.status), content |-> Merge(relay.found, e.info)]
  <2>5. tool' = IF update = (tool[c] # None) THEN [tool EXCEPT ![c] = new] ELSE tool
    BY <1>6, <2>1 DEF Write
  <2>6. /\ relay.found = Content(tool[c]) /\ \A d \in Calls : d # c => tool[d] = Recorded(heard[d])
        /\ \E was \in HeardCall \cup {None} : Earlier(was, e)
    BY <2>2, <2>3 DEF ToolsFollow
  <2>7. tool'[c] = Recorded(heard[c])
    <3>1. PICK was \in HeardCall \cup {None} : Earlier(was, e)
      BY <2>6
    <3>2. /\ heard[c] = Hear(was, e) /\ tool[c] = Recorded(was)
          /\ e.kind = "start" => was = None
          /\ e.kind = "tool" => was = None \/ was.start
      BY <3>1 DEF Earlier
    <3>3. e \in Start \cup Update \cup Tool
      BY <2>2 DEF IInv, Standing
    <3>4. tool'[c] = IF update = (tool[c] # None) THEN new ELSE tool[c]
      BY <1>1, <2>4, <2>5 DEF TypeOK
    <3> HIDE DEF e, c
    <3> QED
      BY <2>6, <3>2, <3>3, <3>4, RowIsHeard
  <2>8. tool' = [d \in Calls |-> Recorded(heard[d])]
    <3>1. \A d \in Calls : tool'[d] = Recorded(heard[d])
      BY <1>1, <2>4, <2>5, <2>6, <2>7 DEF TypeOK
    <3>2. tool' \in [Calls -> ToolRow \cup {None}]
      BY <1>6, Inductive DEF Next, IInv, TypeOK
    <3> QED
      BY <1>1, <3>1, <3>2 DEF TypeOK
  <2> QED
    BY <1>6, <2>2, <2>3, <2>8 DEF Write, ToolsFollow, EndFollows
<1>7. CASE Think
  <2>1. relay.pc = "think" /\ relay'.pc = "clean" /\ relay'.thinks = relay.thinks
    BY <1>1, <1>7 DEF Think, Go, RelayState
  <2>2. ~Spoilt /\ (relay.thinks # 0 => ~Breaks)
    BY <1>1, <1>3, <1>7, Unspoilt DEF Think, Spoilt
  <2>3. ToolsFollow /\ EndFollows
    BY <2>1, <2>2 DEF Agrees
  <2>4. thinking' = relay.thinks
    BY <1>7, <2>1, <2>2, <2>3 DEF Think, EndFollows
  <2> QED
    BY <1>7, <2>1, <2>3, <2>4 DEF Think, ToolsFollow, EndFollows
<1>8. CASE Clean
  <2>1. relay.pc = "clean" /\ relay'.pc = "save" /\ relay'.thinks = relay.thinks
    BY <1>1, <1>8 DEF Clean, RelayState
  <2> QED
    BY <1>3, <1>8, <2>1 DEF Clean, rows, Agrees, Spoilt, ToolsFollow, EndFollows
<1> QED
  BY <1>4, <1>5, <1>6, <1>7, <1>8

\* Saving: the row, the client and the outcome agree.
LEMMA SaveAgrees ==
  ASSUME RelayAssumption, IInv, Agrees, SaveText \/ SaveTips
  PROVE  Agrees'
<1>1. relay \in RelayState /\ TypeOK
  BY DEF IInv, TypeOK
<1>2. Fresh' /\ FromStart'
  BY FreshStays DEF SaveText, SaveTips, Agrees
<1>3. SUFFICES ASSUME ~Spoilt' PROVE ToolsFollow' /\ EndFollows'
  BY <1>2 DEF Agrees
<1>4. /\ relay.pc = "save" /\ relay'.pc = "done" /\ relay'.text = relay.text
      /\ relay'.thinks = relay.thinks /\ relay'.end = relay.end /\ relay'.form = relay.form
  BY <1>1 DEF SaveText, SaveTips, Go, RelayState
<1>5. ~Spoilt
  BY <1>1, <1>3, Unspoilt DEF SaveText, SaveTips, Spoilt
<1>6. ToolsFollow /\ EndFollows
  BY <1>4, <1>5 DEF Agrees
<1>7. /\ relay.pending < FlushInterval /\ relay.text = Kept + relay.pending
      /\ (relay.created => row # None) /\ (~relay.created => row = None)
      /\ relay.created => relay.text > 0
      /\ client.text = relay.text
  BY <1>4, <1>5 DEF IInv, Standing, Follows
<1>8. relay.text \in Nat /\ relay.pending \in Nat
  BY <1>1 DEF RelayState
<1>9. ToolsFollow' /\ thinking' = relay'.thinks
  BY <1>4, <1>6 DEF SaveText, SaveTips, ToolsFollow, EndFollows
<1>10. CASE SaveText
  <2> DEFINE final == [text |-> relay.text, form |-> relay.form, status |-> relay.end]
  <2>1. relay.text > 0 /\ tips' = FALSE
    BY <1>1, <1>4, <1>6, <1>10 DEF SaveText, EndFollows, TypeOK
  <2>2. tips' = (relay'.end = "error" /\ relay'.text = 0)
    <3>1. relay'.text # 0
      BY <1>4, <1>8, <2>1
    <3> QED
      BY <2>1, <3>1, Zenon
  <2>3. CASE relay.form = "emptied" /\ ~relay.created
    <3>1. row' = None /\ relay.text < FlushInterval
      BY <1>7, <1>8, <1>10, <2>3 DEF SaveText, Kept
    <3> QED
      BY <1>4, <1>9, <2>2, <2>3, <3>1 DEF EndFollows
  <2>4. CASE ~(relay.form = "emptied" /\ ~relay.created)
    <3>1. ~Breaks
      BY <1>1, <1>3, <1>10, <2>4, Unspoilt DEF SaveText
    <3>2. row' = final /\ client' = [client EXCEPT !.form = relay.form]
      BY <1>7, <1>10, <2>4, <3>1 DEF SaveText
    <3>3. client'.text = relay.text /\ client'.form = relay.form /\ final # None
          /\ final.text = relay.text /\ final.form = relay.form /\ final.status = relay.end
      BY <1>1, <1>7, <3>2 DEF TypeOK, RelayAssumption, TextRow, RelayState
    <3> HIDE DEF final
    <3> QED
      BY <1>4, <1>9, <2>2, <3>2, <3>3 DEF EndFollows
  <2> QED
    BY <2>3, <2>4
<1>11. CASE SaveTips
  <2>1. relay.text = 0 /\ row' = row /\ row = None
    BY <1>7, <1>11 DEF SaveTips
  <2>2. tips' = (relay.end = "error")
    <3>1. CASE relay.end # "error"
      BY <1>4, <1>6, <1>11, <3>1 DEF SaveTips, EndFollows, IInv, TypeOK
    <3>2. CASE relay.end = "error"
      <4>1. ~Breaks
        BY <1>1, <1>3, <1>11, <3>2, Unspoilt DEF SaveTips
      <4> QED
        BY <1>11, <3>2, <4>1 DEF SaveTips
    <3> QED
      BY <3>1, <3>2
  <2> QED
    BY <1>4, <1>9, <2>1, <2>2 DEF EndFollows
<1> QED
  BY <1>10, <1>11

\* StreamRelay::consume and finalize, with the statements of
\* SqliteConversationRepository: who loads the conversation after a turn none
\* of whose statements failed sees what the client was shown of it, whatever
\* the channel dropped and however the turn ended; but of a call whose start it
\* dropped nothing, and of one last updated without a status the status in the
\* content of its row, for the column is at work again.
THEOREM ReloadIsFaithful == ASSUME RelayAssumption PROVE Spec => []ReloadShowsTheSame
<1>1. Init => IInv /\ Agrees
  BY Initial, AgreesAtFirst
<1>2. IInv /\ Agrees /\ [Next]_vars => IInv' /\ Agrees'
  <2>1. SUFFICES ASSUME IInv, Agrees, [Next]_vars PROVE Agrees'
    BY Inductive
  <2>2. CASE UNCHANGED vars
    BY <2>1, <2>2, FreshStays DEF vars, Agrees, Spoilt, ToolsFollow, Earlier, EndFollows
  <2>3. CASE Next
    BY <2>1, <2>3, OutsideAgrees, ReadAgrees, WorkAgrees, SaveAgrees DEF Next
  <2> QED
    BY <2>1, <2>2, <2>3
<1>3. IInv /\ Agrees => ReloadShowsTheSame
  BY DEF IInv, Agrees, ToolsFollow, EndFollows, ReloadShowsTheSame
<1> QED
  BY <1>1, <1>2, <1>3, PTL DEF Spec

-----------------------------------------------------------------------------
(* The watches of the office: OfficeWatch.                                 *)

Children == [port : Ports, state : {"up", "serves", "gone"}]

\* A session's child is no other session's; a start's is no other start's.
SessionsApart == \A d, e \in Documents : preview[d] = preview[e] /\ preview[d] # 0 => d = e
StartsApart ==
  \A r, s \in Requests : At(r, "poll") /\ At(s, "poll") /\ request[r].child = request[s].child => r = s

\* A start's child is no session's, and there is one as long as it polls.
HandlesApart ==
  \A r \in Requests :
    IF At(r, "poll") THEN request[r].child # 0 /\ \A d \in Documents : preview[d] # request[r].child
    ELSE request[r].child = 0

\* A child that runs is somebody's.
Covered ==
  \A i \in 1 .. Len(child) :
    child[i].state # "gone" =>
      \/ \E d \in Documents : preview[d] = i
      \/ \E r \in Requests : At(r, "poll") /\ request[r].child = i

Guarded == WatchTypeOK /\ SessionsApart /\ StartsApart /\ HandlesApart /\ Covered

-----------------------------------------------------------------------------

\* Killing changes one child's state and nothing else.
LEMMA KillFacts ==
  ASSUME child \in Seq(Children), NEW i \in Nat, Kill(i)
  PROVE  /\ child' \in Seq(Children) /\ Len(child') = Len(child)
         /\ \A j \in 1 .. Len(child) :
              /\ j = i => child'[j].state = "gone"
              /\ j # i => child'[j].state = child[j].state
<1>1. Len(child) \in Nat /\ child \in [1 .. Len(child) -> Children] BY LenProperties
<1>2. child' \in [1 .. Len(child) -> Children] BY <1>1 DEF Kill, Children
<1>3. child' \in Seq(Children) BY <1>1, <1>2, SeqDef
<1>4. Len(child') = Len(child) BY <1>1, <1>2, <1>3, LenProperties
<1>5. \A j \in 1 .. Len(child) :
        /\ j = i => child'[j].state = "gone"
        /\ j # i => child'[j].state = child[j].state
  BY <1>1 DEF Kill, Children
<1> QED BY <1>3, <1>4, <1>5

\* A child that binds or gives up changes its state and nothing else.
LEMMA BindFacts ==
  ASSUME child \in Seq(Children), NEW i \in 1 .. Len(child), Bind(i)
  PROVE  /\ child' \in Seq(Children) /\ Len(child') = Len(child)
         /\ child[i].state # "gone"
         /\ \A j \in 1 .. Len(child) : j # i => child'[j].state = child[j].state
<1>1. Len(child) \in Nat /\ child \in [1 .. Len(child) -> Children] BY LenProperties
<1>2. child' \in [1 .. Len(child) -> Children] BY <1>1 DEF Bind, Children
<1>3. child' \in Seq(Children) BY <1>1, <1>2, SeqDef
<1>4. Len(child') = Len(child) BY <1>1, <1>2, <1>3, LenProperties
<1>5. child[i].state # "gone" /\ \A j \in 1 .. Len(child) : j # i => child'[j].state = child[j].state
  BY <1>1 DEF Bind, Children
<1> QED BY <1>3, <1>4, <1>5

\* A child to be killed is named by a number.
LEMMA Named ==
  ASSUME WatchTypeOK
  PROVE  /\ Len(child) \in Nat /\ child \in Seq(Children)
         /\ \A d \in Documents : preview[d] \in Nat /\ preview[d] \in 0 .. Len(child)
         /\ \A r \in Requests : request[r].child \in Nat /\ request[r].doc \in Documents
BY LenProperties DEF WatchTypeOK, Children

\* No request is of the type of requests, and holds no handle.
LEMMA IdleType ==
  ASSUME WatchAssumption, NEW n \in Nat
  PROVE  /\ Idle \in [pc : Phases, doc : Documents, child : 0 .. n, port : Ports]
         /\ Idle.pc = "idle" /\ Idle.child = 0
BY DEF WatchAssumption, Idle, Phases

\* At the start there is no process, and nobody holds a handle.
THEOREM WatchStarts == ASSUME WatchAssumption, WatchInit PROVE Guarded
<1>1. WatchTypeOK
  <2>1. Idle \in [pc : Phases, doc : Documents, child : 0 .. 0, port : Ports] BY IdleType
  <2>2. Len(child) = 0 /\ child \in Seq(Children) BY EmptySeq DEF WatchInit
  <2> QED BY <2>1, <2>2 DEF WatchInit, WatchTypeOK, WatchAssumption, Children
<1>2. \A r \in Requests : request[r].pc = "idle" /\ request[r].child = 0 BY DEF WatchInit, Idle
<1>3. Len(child) = 0 /\ \A d \in Documents : preview[d] = 0 BY EmptySeq DEF WatchInit
<1> QED BY <1>1, <1>2, <1>3 DEF Guarded, SessionsApart, StartsApart, HandlesApart, Covered, At

-----------------------------------------------------------------------------

\* A request that becomes another of its type.
Request(n) == [pc : Phases, doc : Documents, child : 0 .. n, port : Ports]

\* A request changed by a step is a request.
LEMMA RequestType ==
  ASSUME NEW n \in Nat, request \in [Requests -> Request(n)], NEW r \in Requests
  PROVE  /\ \A x \in Request(n) : [request EXCEPT ![r] = x] \in [Requests -> Request(n)]
         /\ \A pc \in Phases : [request EXCEPT ![r].pc = pc] \in [Requests -> Request(n)]
         /\ \A pc \in Phases, d \in Documents : [request[r] EXCEPT !.pc = pc, !.doc = d] \in Request(n)
         /\ \A pc \in Phases, p \in Ports : [request[r] EXCEPT !.pc = pc, !.port = p] \in Request(n)
         /\ \A pc \in Phases, p \in Ports :
              [pc |-> pc, child |-> n + 1, doc |-> request[r].doc, port |-> p] \in Request(n + 1)
<1>1. request[r] \in Request(n) OBVIOUS
<1>2. \A x \in Request(n) : [request EXCEPT ![r] = x] \in [Requests -> Request(n)] OBVIOUS
<1>3. \A pc \in Phases : [request[r] EXCEPT !.pc = pc] \in Request(n) BY <1>1 DEF Request
<1>4. \A pc \in Phases, d \in Documents : [request[r] EXCEPT !.pc = pc, !.doc = d] \in Request(n)
  BY <1>1 DEF Request
<1>5. \A pc \in Phases, p \in Ports : [request[r] EXCEPT !.pc = pc, !.port = p] \in Request(n)
  BY <1>1 DEF Request
<1>6. \A pc \in Phases, p \in Ports :
        [pc |-> pc, child |-> n + 1, doc |-> request[r].doc, port |-> p] \in Request(n + 1)
  BY <1>1 DEF Request
<1>7. \A pc \in Phases : [request EXCEPT ![r].pc = pc] \in [Requests -> Request(n)]
  BY <1>2, <1>3
<1> QED BY <1>2, <1>4, <1>5, <1>6, <1>7

\* With one more child there are more names of children.
LEMMA RequestGrows ==
  ASSUME NEW n \in Nat, request \in [Requests -> Request(n)], NEW r \in Requests, NEW x \in Request(n + 1)
  PROVE  [request EXCEPT ![r] = x] \in [Requests -> Request(n + 1)]
<1>1. \A s \in Requests : request[s] \in Request(n + 1) BY DEF Request
<1> QED BY <1>1

\* Every step keeps the variables in their types.
LEMMA TypeKept == ASSUME WatchAssumption, WatchTypeOK, WatchNext PROVE WatchTypeOK'
<1> DEFINE Record == Request(Len(child))
<1>0. /\ Len(child) \in Nat /\ child \in Seq(Children) /\ MaxRequests \in Nat /\ MaxChildren \in Nat
      /\ Idle \in Record /\ request \in [Requests -> Record]
      /\ preview \in [Documents -> 0 .. Len(child)] /\ asked \in Nat /\ Len(child) <= MaxChildren
      /\ asked <= MaxRequests
  BY IdleType, Named DEF WatchAssumption, WatchTypeOK, Request
<1>1. \A r \in Requests : request[r].doc \in Documents /\ request[r].child \in 0 .. Len(child)
  BY <1>0 DEF Request
<1>2. ASSUME child' \in Seq(Children), Len(child') = Len(child), request' \in [Requests -> Record],
             preview' \in [Documents -> 0 .. Len(child)], asked' \in 0 .. MaxRequests
      PROVE  WatchTypeOK'
  BY <1>0, <1>2 DEF WatchTypeOK, Children, Request
<1>3. ASSUME NEW r \in Requests PROVE Leave(r) => request' \in [Requests -> Record]
  BY <1>0, RequestType, ZenonT(60) DEF Leave
<1>4. ASSUME NEW r \in Requests, NEW pc \in Phases PROVE To(r, pc) => request' \in [Requests -> Record]
  <2>1. [request EXCEPT ![r].pc = pc] \in [Requests -> Record] BY <1>0, RequestType
  <2> QED BY <2>1 DEF To
<1> HIDE DEF Record
<1>5. ASSUME NEW r \in Requests, NEW d \in Documents, Ask(r, d) PROVE WatchTypeOK'
  <2>1. PICK pc \in Phases : request' = [request EXCEPT ![r] = [request[r] EXCEPT !.pc = pc, !.doc = d]]
    BY <1>5 DEF Ask, Phases
  <2>2. request' \in [Requests -> Record] BY <2>1, <1>0, RequestType DEF Record
  <2>3. UNCHANGED <<preview, child>> /\ asked' \in 0 .. MaxRequests BY <1>0, <1>5 DEF Ask
  <2> QED BY <1>0, <1>2, <2>2, <2>3
<1>6. ASSUME NEW r \in Requests, Found(r) \/ Missing(r) \/ SpawnFails(r) \/ Install(r) PROVE WatchTypeOK'
  <2>1. request' \in [Requests -> Record]
    <3>1. CASE Leave(r) BY <1>3, <3>1
    <3>2. CASE \E pc \in Phases : To(r, pc) BY <1>4, <3>2
    <3>3. CASE \E p \in Ports : request' = [request EXCEPT ![r] = [@ EXCEPT !.pc = "install", !.port = p]]
      <4>1. PICK p \in Ports : request' = [request EXCEPT ![r] = [request[r] EXCEPT !.pc = "install", !.port = p]]
        BY <3>3
      <4>2. [request[r] EXCEPT !.pc = "install", !.port = p] \in Record
        BY <1>0, RequestType DEF Phases, Record
      <4> QED BY <1>0, <4>1, <4>2, RequestType DEF Record
    <3>4. Found(r) => Leave(r) BY DEF Found
    <3>5. Missing(r) => \E pc \in Phases : To(r, pc) BY DEF Missing, Phases
    <3>6. Install(r) => Leave(r) \/ \E pc \in Phases : To(r, pc) BY DEF Install, Phases
    <3>7. SpawnFails(r) =>
            Leave(r) \/ \E p \in Ports : request' = [request EXCEPT ![r] = [@ EXCEPT !.pc = "install", !.port = p]]
      BY DEF SpawnFails
    <3> QED BY <1>6, <3>1, <3>2, <3>3, <3>4, <3>5, <3>6, <3>7
  <2>2. UNCHANGED <<preview, child, asked>> BY <1>6 DEF Found, Missing, SpawnFails, Install
  <2> QED BY <1>0, <1>2, <2>1, <2>2
<1>7. ASSUME NEW r \in Requests, Spawn(r) PROVE WatchTypeOK'
  <2> PICK p \in Ports :
        /\ child' = Append(child, [port |-> p, state |-> "up"])
        /\ request' = [request EXCEPT ![r] = [pc |-> "poll", child |-> Len(child) + 1, doc |-> @.doc, port |-> p]]
    BY <1>7 DEF Spawn
  <2>1. child' \in Seq(Children) /\ Len(child') = Len(child) + 1
    BY <1>0, AppendProperties DEF Children
  <2>2. Len(child') <= MaxChildren /\ UNCHANGED <<preview, asked>> BY <1>0, <1>7, <2>1 DEF Spawn
  <2>3. request' \in [Requests -> Request(Len(child) + 1)]
    BY <1>0, RequestType, RequestGrows DEF Record, Phases
  <2> QED BY <1>0, <2>1, <2>2, <2>3 DEF WatchTypeOK, Children, Request
<1>8. ASSUME NEW r \in Requests, Discard(r) \/ Insert(r) \/ StopNow(r) PROVE WatchTypeOK'
  <2>1. Kill(preview[request[r].doc]) /\ preview[request[r].doc] \in Nat
    BY <1>0, <1>1, <1>8 DEF Discard, Insert, StopNow
  <2>2. child' \in Seq(Children) /\ Len(child') = Len(child) BY <1>0, <2>1, KillFacts
  <2>3. request' \in [Requests -> Record] BY <1>8, <1>3, <1>4 DEF Discard, Insert, StopNow, Phases
  <2>4. UNCHANGED asked /\ \E i \in 0 .. Len(child) : preview' = [preview EXCEPT ![request[r].doc] = i]
    BY <1>0, <1>1, <1>8 DEF Discard, Insert, StopNow
  <2>5. preview' \in [Documents -> 0 .. Len(child)] BY <1>0, <2>4
  <2> QED BY <1>0, <1>2, <2>2, <2>3, <2>4, <2>5
<1>9. ASSUME NEW r \in Requests, TimeOut(r) \/ HangUp(r) PROVE WatchTypeOK'
  <2>1. Kill(request[r].child) /\ request[r].child \in Nat BY <1>0, <1>1, <1>9 DEF TimeOut, HangUp
  <2>2. child' \in Seq(Children) /\ Len(child') = Len(child) BY <1>0, <2>1, KillFacts
  <2>3. request' \in [Requests -> Record] /\ UNCHANGED <<preview, asked>> BY <1>9, <1>3 DEF TimeOut, HangUp
  <2> QED BY <1>0, <1>2, <2>2, <2>3
<1>10. ASSUME NEW i \in 1 .. Len(child), Bind(i) \/ Exit(i) PROVE WatchTypeOK'
  <2>1. child' \in Seq(Children) /\ Len(child') = Len(child) BY <1>0, <1>10, KillFacts, BindFacts DEF Exit
  <2>2. UNCHANGED <<preview, request, asked>> BY <1>10 DEF Bind, Exit
  <2> QED BY <1>0, <1>2, <2>1, <2>2
<1> QED BY <1>5, <1>6, <1>7, <1>8, <1>9, <1>10 DEF WatchNext

-----------------------------------------------------------------------------

Owned == SessionsApart /\ StartsApart /\ HandlesApart /\ Covered

\* A step that moves no handle and no session: what runs has its owner still.
LEMMA Unmoved ==
  ASSUME WatchTypeOK, Owned, UNCHANGED preview, Len(child') = Len(child),
         \A i \in 1 .. Len(child) : child'[i].state # "gone" => child[i].state # "gone",
         \A r \in Requests : At(r, "poll")' = At(r, "poll") /\ request'[r].child = request[r].child
  PROVE  Owned'
<1>1. SessionsApart' /\ StartsApart' BY DEF Owned, SessionsApart, StartsApart
<1>2. HandlesApart' BY DEF Owned, HandlesApart
<1>3. Covered' BY DEF Owned, Covered
<1> QED BY <1>1, <1>2, <1>3 DEF Owned

\* A request that leaves or moves on.
LEMMA Left ==
  ASSUME WatchAssumption, WatchTypeOK, NEW r \in Requests, Leave(r)
  PROVE  \A s \in Requests :
           /\ s = r => ~At(s, "poll")' /\ request'[s].child = 0
           /\ s # r => At(s, "poll")' = At(s, "poll") /\ request'[s].child = request[s].child
BY IdleType, Named DEF WatchTypeOK, Leave, At

\* A request that goes to another step, but the poll, moves no handle.
LEMMA Moved ==
  ASSUME WatchTypeOK, NEW r \in Requests, NEW pc \in Phases \ {"poll"}, To(r, pc), ~At(r, "poll")
  PROVE  \A s \in Requests : At(s, "poll")' = At(s, "poll") /\ request'[s].child = request[s].child
<1>1. ASSUME NEW s \in Requests PROVE s # r => request'[s] = request[s]
  BY DEF WatchTypeOK, To
<1>2. request'[r].pc = pc /\ request'[r].child = request[r].child BY DEF WatchTypeOK, To
<1> QED BY <1>1, <1>2 DEF At

\* The start that gives up kills its own child.
LEMMA GivesUp ==
  ASSUME WatchAssumption, Guarded, NEW r \in Requests, Leave(r), Kill(request[r].child), UNCHANGED preview
  PROVE  Owned'
<1>0. /\ Len(child) \in Nat /\ child \in Seq(Children) /\ request[r].child \in Nat
      /\ \A s \in Requests : request[s].child \in Nat
  BY Named DEF Guarded
<1>1. /\ Len(child') = Len(child)
      /\ \A j \in 1 .. Len(child) :
           /\ j = request[r].child => child'[j].state = "gone"
           /\ j # request[r].child => child'[j].state = child[j].state
  BY <1>0, KillFacts
<1>2. \A s \in Requests :
        /\ s = r => ~At(s, "poll")' /\ request'[s].child = 0
        /\ s # r => At(s, "poll")' = At(s, "poll") /\ request'[s].child = request[s].child
  BY Left DEF Guarded
<1>3. SessionsApart' BY DEF Guarded, SessionsApart
<1>4. StartsApart' BY <1>2 DEF Guarded, StartsApart
<1>5. HandlesApart' BY <1>2 DEF Guarded, HandlesApart
<1>6. Covered'
  <2> SUFFICES ASSUME NEW i \in 1 .. Len(child), child'[i].state # "gone"
               PROVE  \/ \E d \in Documents : preview'[d] = i
                      \/ \E s \in Requests : At(s, "poll")' /\ request'[s].child = i
    BY <1>1 DEF Covered
  <2>1. i # request[r].child /\ child[i].state # "gone" BY <1>1
  <2>2. CASE \E d \in Documents : preview[d] = i BY <2>2
  <2>3. CASE \E s \in Requests : At(s, "poll") /\ request[s].child = i BY <1>2, <2>1, <2>3
  <2> QED BY <2>1, <2>2, <2>3 DEF Guarded, Covered
<1> QED BY <1>3, <1>4, <1>5, <1>6 DEF Owned

\* A session that is removed takes its own child with it.
LEMMA Removes ==
  ASSUME Guarded, NEW d \in Documents, Kill(preview[d]), preview' = [preview EXCEPT ![d] = 0],
         \A s \in Requests : At(s, "poll")' = At(s, "poll") /\ request'[s].child = request[s].child
  PROVE  Owned'
<1>0. /\ Len(child) \in Nat /\ child \in Seq(Children) /\ preview[d] \in Nat
      /\ \A e \in Documents : preview[e] \in Nat /\ (e # d => preview'[e] = preview[e]) /\ preview'[d] = 0
  BY Named DEF Guarded, WatchTypeOK
<1>1. /\ Len(child') = Len(child)
      /\ \A j \in 1 .. Len(child) :
           /\ j = preview[d] => child'[j].state = "gone"
           /\ j # preview[d] => child'[j].state = child[j].state
  BY <1>0, KillFacts
<1>2. SessionsApart' BY <1>0 DEF Guarded, SessionsApart
<1>3. StartsApart' BY DEF Guarded, StartsApart
<1>4. HandlesApart'
  <2> SUFFICES ASSUME NEW r \in Requests
               PROVE  IF At(r, "poll")' THEN
                         request'[r].child # 0 /\ \A e \in Documents : preview'[e] # request'[r].child
                      ELSE request'[r].child = 0
    BY DEF HandlesApart
  <2> QED BY <1>0 DEF Guarded, HandlesApart
<1>5. Covered'
  <2> SUFFICES ASSUME NEW i \in 1 .. Len(child), child'[i].state # "gone"
               PROVE  \/ \E e \in Documents : preview'[e] = i
                      \/ \E s \in Requests : At(s, "poll")' /\ request'[s].child = i
    BY <1>1 DEF Covered
  <2>1. i # preview[d] /\ child[i].state # "gone" BY <1>1
  <2> QED BY <1>0, <2>1 DEF Guarded, Covered
<1> QED BY <1>2, <1>3, <1>4, <1>5 DEF Owned

\* The session a start replaces takes its own child with it; the start's child
\* changes hands.
LEMMA Inserts ==
  ASSUME WatchAssumption, Guarded, NEW r \in Requests, Insert(r)
  PROVE  Owned'
<1> DEFINE d == request[r].doc
           mine == request[r].child
<1>0. /\ Len(child) \in Nat /\ child \in Seq(Children) /\ d \in Documents /\ preview[d] \in Nat
      /\ \A e \in Documents : e # d => preview'[e] = preview[e]
      /\ preview'[d] = mine /\ At(r, "poll") /\ Kill(preview[d]) /\ Leave(r)
  BY Named DEF Guarded, WatchTypeOK, Insert
<1>1. /\ Len(child') = Len(child)
      /\ \A j \in 1 .. Len(child) :
           /\ j = preview[d] => child'[j].state = "gone"
           /\ j # preview[d] => child'[j].state = child[j].state
  BY <1>0, KillFacts
<1>2. \A s \in Requests :
        /\ s = r => ~At(s, "poll")' /\ request'[s].child = 0
        /\ s # r => At(s, "poll")' = At(s, "poll") /\ request'[s].child = request[s].child
  BY <1>0, Left DEF Guarded
<1>3. mine # 0 /\ \A e \in Documents : preview[e] # mine BY <1>0 DEF Guarded, HandlesApart
<1>4. \A s \in Requests \ {r} : At(s, "poll") => request[s].child # mine BY <1>0 DEF Guarded, StartsApart
<1> HIDE DEF d, mine
<1>5. SessionsApart' BY <1>0, <1>3 DEF Guarded, SessionsApart
<1>6. StartsApart' BY <1>2 DEF Guarded, StartsApart
<1>7. HandlesApart'
  <2> SUFFICES ASSUME NEW s \in Requests
               PROVE  IF At(s, "poll")' THEN
                         request'[s].child # 0 /\ \A e \in Documents : preview'[e] # request'[s].child
                      ELSE request'[s].child = 0
    BY DEF HandlesApart
  <2>1. CASE s = r BY <1>2, <2>1
  <2>2. CASE s # r BY <1>0, <1>2, <1>4, <2>2 DEF Guarded, HandlesApart
  <2> QED BY <2>1, <2>2
<1>8. Covered'
  <2> SUFFICES ASSUME NEW i \in 1 .. Len(child), child'[i].state # "gone"
               PROVE  \/ \E e \in Documents : preview'[e] = i
                      \/ \E s \in Requests : At(s, "poll")' /\ request'[s].child = i
    BY <1>1 DEF Covered
  <2>1. i # preview[d] /\ child[i].state # "gone" BY <1>1
  <2>2. CASE \E e \in Documents : preview[e] = i BY <1>0, <2>1, <2>2
  <2>3. CASE i = mine BY <1>0, <2>3
  <2>4. CASE i # mine /\ \E s \in Requests : At(s, "poll") /\ request[s].child = i
    BY <1>2, <2>4 DEF mine
  <2> QED BY <2>1, <2>2, <2>3, <2>4 DEF Guarded, Covered
<1> QED BY <1>5, <1>6, <1>7, <1>8 DEF Owned

\* A new child is the start's that spawned it, and nobody else names it.
LEMMA Spawns ==
  ASSUME WatchTypeOK, Owned, NEW r \in Requests, Spawn(r)
  PROVE  Owned'
<1> DEFINE new == Len(child) + 1
<1>0. PICK p \in Ports :
        /\ child' = Append(child, [port |-> p, state |-> "up"])
        /\ request' = [request EXCEPT ![r] = [pc |-> "poll", child |-> new, doc |-> @.doc, port |-> p]]
  BY DEF Spawn
<1>1. /\ Len(child) \in Nat /\ Len(child') = new
      /\ \A j \in 1 .. Len(child) : child'[j] = child[j]
  BY <1>0, Named, AppendProperties DEF Children
<1>2. \A s \in Requests :
        /\ s = r => At(s, "poll")' /\ request'[s].child = new
        /\ s # r => At(s, "poll")' = At(s, "poll") /\ request'[s].child = request[s].child
  BY <1>0 DEF WatchTypeOK, At
<1>3. /\ UNCHANGED preview /\ \A e \in Documents : preview[e] # new
      /\ \A s \in Requests : request[s].child # new
      /\ ~At(r, "poll")
  BY <1>1 DEF WatchTypeOK, Spawn, At
<1> HIDE DEF new
<1>4. new # 0 BY <1>1 DEF new
<1>5. SessionsApart' BY <1>3 DEF Owned, SessionsApart
<1>6. StartsApart' BY <1>2, <1>3 DEF Owned, StartsApart
<1>7. HandlesApart' BY <1>2, <1>3, <1>4 DEF Owned, HandlesApart
<1>8. Covered'
  <2> SUFFICES ASSUME NEW i \in 1 .. new, child'[i].state # "gone"
               PROVE  \/ \E e \in Documents : preview'[e] = i
                      \/ \E s \in Requests : At(s, "poll")' /\ request'[s].child = i
    BY <1>1 DEF Covered
  <2>1. CASE i = new BY <1>2, <2>1
  <2>2. CASE i # new
    <3>1. i \in 1 .. Len(child) /\ child[i].state # "gone" BY <1>1, <2>2 DEF new
    <3>2. CASE \E e \in Documents : preview[e] = i BY <1>3, <3>2
    <3>3. CASE \E s \in Requests : At(s, "poll") /\ request[s].child = i BY <1>2, <1>3, <3>3
    <3> QED BY <3>1, <3>2, <3>3 DEF Owned, Covered
  <2> QED BY <2>1, <2>2
<1> QED BY <1>5, <1>6, <1>7, <1>8 DEF Owned

-----------------------------------------------------------------------------

\* Every step of the previews keeps the invariant (watch_manager.rs).
THEOREM WatchInductive == ASSUME WatchAssumption, Guarded, [WatchNext]_watchVars PROVE Guarded'
<1> USE DEF Guarded
<1>0. Owned BY DEF Owned
<1>1. CASE UNCHANGED watchVars
  BY <1>1 DEF watchVars, WatchTypeOK, SessionsApart, StartsApart, HandlesApart, Covered, At
<1>2. CASE WatchNext
  <2>0. WatchTypeOK' BY <1>2, TypeKept
  <2>1. ASSUME NEW r \in Requests, NEW d \in Documents, Ask(r, d) PROVE Owned'
    <3>1. PICK pc \in {"look", "delay"} :
            request' = [request EXCEPT ![r] = [request[r] EXCEPT !.pc = pc, !.doc = d]]
      BY <2>1 DEF Ask
    <3>2. \A s \in Requests : At(s, "poll")' = At(s, "poll") /\ request'[s].child = request[s].child
      BY <2>1, <3>1 DEF WatchTypeOK, Ask, At
    <3> QED BY <1>0, <2>1, <3>2, Unmoved DEF Ask
  <2>2. ASSUME NEW r \in Requests, Found(r) \/ Missing(r) \/ SpawnFails(r) \/ Install(r) PROVE Owned'
    <3>1. UNCHANGED <<preview, child>> /\ ~At(r, "poll") BY <2>2 DEF Found, Missing, SpawnFails, Install, At
    <3>2. request[r].child = 0 BY <3>1 DEF HandlesApart
    <3>3. \A s \in Requests : At(s, "poll")' = At(s, "poll") /\ request'[s].child = request[s].child
      <4>1. CASE Leave(r) BY <3>1, <3>2, <4>1, Left DEF At
      <4>2. CASE \E pc \in Phases \ {"poll"} : To(r, pc) BY <3>1, <4>2, Moved
      <4>3. CASE \E p \in Ports : request' = [request EXCEPT ![r] = [@ EXCEPT !.pc = "install", !.port = p]]
        BY <3>1, <4>3 DEF WatchTypeOK, At
      <4>4. Missing(r) \/ Install(r) => Leave(r) \/ \E pc \in Phases \ {"poll"} : To(r, pc)
        BY DEF Missing, Install, Phases
      <4> QED BY <2>2, <4>1, <4>2, <4>3, <4>4 DEF Found, SpawnFails
    <3> QED BY <1>0, <3>1, <3>3, Unmoved
  <2>3. ASSUME NEW r \in Requests, Discard(r) \/ StopNow(r) PROVE Owned'
    <3>1. /\ request[r].doc \in Documents /\ Kill(preview[request[r].doc]) /\ ~At(r, "poll")
          /\ preview' = [preview EXCEPT ![request[r].doc] = 0]
      BY <2>3, Named DEF Discard, StopNow, At
    <3>2. request[r].child = 0 BY <3>1 DEF HandlesApart
    <3>3. \A s \in Requests : At(s, "poll")' = At(s, "poll") /\ request'[s].child = request[s].child
      <4>1. CASE Leave(r) BY <3>1, <3>2, <4>1, Left DEF At
      <4>2. CASE To(r, "spawn") BY <3>1, <4>2, Moved DEF Phases
      <4> QED BY <2>3, <4>1, <4>2 DEF Discard, StopNow
    <3> QED BY <3>1, <3>3, Removes
  <2>4. ASSUME NEW r \in Requests, TimeOut(r) \/ HangUp(r) PROVE Owned'
    BY <2>4, GivesUp DEF TimeOut, HangUp
  <2>5. ASSUME NEW i \in 1 .. Len(child), Bind(i) \/ Exit(i) PROVE Owned'
    <3>1. /\ Len(child') = Len(child)
          /\ \A j \in 1 .. Len(child) : child'[j].state # "gone" => child[j].state # "gone"
      BY <2>5, Named, KillFacts, BindFacts DEF Exit
    <3>2. UNCHANGED <<preview, request>> BY <2>5 DEF Bind, Exit
    <3> QED BY <1>0, <3>1, <3>2, Unmoved DEF At
  <2>6. ASSUME NEW r \in Requests, Spawn(r) PROVE Owned' BY <1>0, <2>6, Spawns
  <2>7. ASSUME NEW r \in Requests, Insert(r) PROVE Owned' BY <2>7, Inserts
  <2>8. Owned' BY <1>2, <2>1, <2>2, <2>3, <2>4, <2>5, <2>6, <2>7 DEF WatchNext
  <2> QED BY <2>0, <2>8 DEF Owned
<1> QED BY <1>1, <1>2

\* However starts, stops, time-outs and hang-ups cross, for any number of
\* documents, requests and ports: an officecli process that runs belongs to
\* exactly one session or start under way (watch_manager.rs).
THEOREM NoneLeftBehind == ASSUME WatchAssumption PROVE WatchSpec => []WatchersAreOwned
<1>1. WatchInit => Guarded BY WatchStarts
<1>2. Guarded /\ [WatchNext]_watchVars => Guarded' BY WatchInductive
<1>3. Guarded => WatchersAreOwned
  <2> SUFFICES ASSUME Guarded, NEW i \in 1 .. Len(child), Lives(i)
               PROVE  \E o \in Owners(i) : Owners(i) = {o}
    BY DEF WatchersAreOwned
  <2>1. i # 0 /\ child[i].state # "gone" BY DEF Lives
  <2>2. CASE \E d \in Documents : preview[d] = i
    BY <2>1, <2>2 DEF Guarded, SessionsApart, HandlesApart, Owners
  <2>3. CASE \E r \in Requests : At(r, "poll") /\ request[r].child = i
    BY <2>1, <2>3 DEF Guarded, StartsApart, HandlesApart, Owners
  <2> QED BY <2>1, <2>2, <2>3 DEF Guarded, Covered
<1> QED BY <1>1, <1>2, <1>3, PTL DEF WatchSpec

-----------------------------------------------------------------------------
(* The services side by side: MCServices.                                  *)

\* MCServices: a behaviour of the whole is one of each group, of StreamRelay and
\* of OfficeWatch, so that what is proved of them holds of the whole.
THEOREM SystemImplements ==
  SystemSpec => AccessSpec /\ AgentsSpec /\ CatalogSpec /\ Spec /\ WatchSpec
<1>1. SystemInit => AccessInit /\ AgentsInit /\ CatalogInit /\ Init /\ WatchInit
  BY DEF SystemInit
<1> DEFINE systemVars == <<accessVars, agentsVars, catalogVars, vars, watchVars>>
<1>2. [SystemNext]_systemVars => [AccessNext]_accessVars
  BY DEF SystemNext
<1>3. [SystemNext]_systemVars => [AgentsNext]_agentsVars
  BY DEF SystemNext
<1>4. [SystemNext]_systemVars => [CatalogNext]_catalogVars
  BY DEF SystemNext
<1>5. [SystemNext]_systemVars => [Next]_vars
  BY DEF SystemNext
<1>6. [SystemNext]_systemVars => [WatchNext]_watchVars
  BY DEF SystemNext
<1> QED
  BY <1>1, <1>2, <1>3, <1>4, <1>5, <1>6, PTL
  DEF SystemSpec, AccessSpec, AgentsSpec, CatalogSpec, Spec, WatchSpec

\* MCServices: every variable of every service is of its type at every step,
\* whichever service is in focus and whatever the bounds.
THEOREM ServicesTyped == SystemSpec => []ServicesTypeOK
<1>1. AccessAssumption /\ AgentsAssumption /\ CatalogAssumption /\ RelayAssumption /\ WatchAssumption
  BY ServicesAssumption
<1>2. SystemSpec => AccessSpec /\ AgentsSpec /\ CatalogSpec /\ Spec /\ WatchSpec
  BY SystemImplements
<1>3. AccessSpec => []AccessTypeOK BY <1>1, AccessTyped
<1>4. AgentsSpec => []AgentsTypeOK BY <1>1, AgentsTyped
<1>5. CatalogSpec => []CatalogTypeOK BY <1>1, CatalogTyped
<1>6. Spec => []TypeOK BY <1>1, Typed
<1>7. WatchSpec => []WatchTypeOK
  <2>1. WatchInit => Guarded BY <1>1, WatchStarts
  <2>2. Guarded /\ [WatchNext]_watchVars => Guarded' BY <1>1, WatchInductive
  <2>3. Guarded => WatchTypeOK BY DEF Guarded
  <2> QED BY <2>1, <2>2, <2>3, PTL DEF WatchSpec
<1>8. SystemSpec => [](focus \in InFocus)
  <2>1. SystemInit => focus \in InFocus BY DEF SystemInit
  <2>2. focus \in InFocus /\ [SystemNext]_<<accessVars, agentsVars, catalogVars, vars, watchVars>>
          => (focus \in InFocus)'
    BY DEF SystemNext, AccessNext, AgentsNext, CatalogNext, accessVars, agentsVars, catalogVars
  <2> QED BY <2>1, <2>2, PTL DEF SystemSpec
<1>9. AccessTypeOK /\ AgentsTypeOK /\ CatalogTypeOK /\ TypeOK /\ WatchTypeOK /\ focus \in InFocus
        => ServicesTypeOK
  BY DEF ServicesTypeOK
<1> QED BY <1>2, <1>3, <1>4, <1>5, <1>6, <1>7, <1>8, <1>9, PTL
=============================================================================
