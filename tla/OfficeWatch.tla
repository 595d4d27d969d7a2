----------------------------- MODULE OfficeWatch -----------------------------
(***************************************************************************)
(* The previews of documents: one officecli process for each that is open. *)
(*                                                                         *)
(* aionui-office: watch_manager.rs, port.rs; aionui-runtime: spawn.rs.     *)
(* Nothing is locked from the look at the sessions to the insertion of a   *)
(* new one, so starts and stops of one document cross freely; what keeps   *)
(* the processes from piling up is that a handle kills its child when it   *)
(* is dropped (kill_on_drop).  A step is one access to the map of sessions *)
(* or one await of a request.                                              *)
(*                                                                         *)
(* It is one life of the server: what outlives a server that is killed is  *)
(* the operating system's matter, and when it ends in good order the map   *)
(* is dropped with it.  The names are the module's own, for it is composed *)
(* with others by EXTENDS.                                                 *)
(***************************************************************************)
EXTENDS Naturals, Sequences

CONSTANTS
  Documents,       \* the keys of the map: a path with its type
  Requests,        \* the requests in flight at once
  Ports,
  MaxRequests,     \* bound: requests
  MaxChildren      \* bound: processes spawned

VARIABLES
  preview,         \* by document: the child of its session, 0 if there is none
  child,           \* the officecli processes, in the order they were spawned
  request,         \* what each request is at
  asked            \* requests so far

watchVars == <<preview, child, request, asked>>

WatchAssumption ==
  MaxRequests \in Nat /\ MaxChildren \in Nat /\ Documents # {} /\ Ports # {}

Phases == {"idle", "look", "discard", "spawn", "install", "again", "poll", "delay"}
\* The document and the port of no request mean nothing.
Idle ==
  [pc |-> "idle", child |-> 0,
   doc |-> CHOOSE d \in Documents : TRUE, port |-> CHOOSE p \in Ports : TRUE]

\* Of the children the first is numbered 1.  One that is up has yet to
\* listen, one that serves listens on its port.
WatchTypeOK ==
  /\ asked \in 0 .. MaxRequests
  /\ child \in Seq([port : Ports, state : {"up", "serves", "gone"}]) /\ Len(child) <= MaxChildren
  /\ preview \in [Documents -> 0 .. Len(child)]
  /\ request \in [Requests -> [pc : Phases, doc : Documents, child : 0 .. Len(child), port : Ports]]

WatchInit ==
  /\ asked = 0 /\ child = <<>> /\ preview = [d \in Documents |-> 0]
  /\ request = [r \in Requests |-> Idle]

Lives(i) == i # 0 /\ child[i].state # "gone"
Served(port) == \E i \in 1 .. Len(child) : child[i].state = "serves" /\ child[i].port = port

\* TokioProcessHandle::kill, and the drop of a handle; nobody else can hold
\* the lock of a child that is out of the map.
Kill(i) ==
  child' = [j \in 1 .. Len(child) |->
              IF j = i THEN [child[j] EXCEPT !.state = "gone"] ELSE child[j]]

At(r, pc) == request[r].pc = pc
To(r, pc) == request' = [request EXCEPT ![r].pc = pc]
\* The request is answered or given up, and its handle, if it holds one, gone.
Leave(r) == request' = [request EXCEPT ![r] = Idle]

-----------------------------------------------------------------------------
(* Requests *)

\* POST start or stop of a preview.
Ask(r, d) ==
  /\ At(r, "idle") /\ asked < MaxRequests /\ asked' = asked + 1
  /\ \E pc \in {"look", "delay"} : request' = [request EXCEPT ![r] = [@ EXCEPT !.pc = pc, !.doc = d]]
  /\ UNCHANGED <<preview, child>>

\* is_alive asks with try_lock: of two starts that look at once, one may take
\* a live process for dead.
TakenForDead(r) ==
  \/ ~Lives(preview[request[r].doc])
  \/ \E s \in Requests \ {r} : At(s, "look") /\ request[s].doc = request[r].doc

\* start finds a live session, and answers with its port.
Found(r) ==
  /\ At(r, "look") /\ Lives(preview[request[r].doc])
  /\ Leave(r) /\ UNCHANGED <<preview, child, asked>>

\* start finds none, or a dead one.
Missing(r) ==
  /\ At(r, "look")
  /\ \/ preview[request[r].doc] = 0 /\ To(r, "spawn")
     \/ preview[request[r].doc] # 0 /\ TakenForDead(r) /\ To(r, "discard")
  /\ UNCHANGED <<preview, child, asked>>

\* The dead session is removed by its key: it may be another one by now.
Discard(r) ==
  /\ At(r, "discard") /\ To(r, "spawn")
  /\ Kill(preview[request[r].doc])
  /\ preview' = [preview EXCEPT ![request[r].doc] = 0]
  /\ UNCHANGED asked

\* try_start: a port that is free now, and a child that is told to use it.
\* After an installation the port is the same.
Spawn(r) ==
  /\ request[r].pc \in {"spawn", "again"} /\ Len(child) < MaxChildren
  /\ \E p \in Ports :
       /\ IF At(r, "again") THEN p = request[r].port ELSE ~Served(p)
       /\ child' = Append(child, [port |-> p, state |-> "up"])
       /\ request' = [request EXCEPT ![r] = [pc |-> "poll", child |-> Len(child) + 1, doc |-> @.doc, port |-> p]]
  /\ UNCHANGED <<preview, asked>>

SpawnFails(r) ==
  /\ \/ request[r].pc \in {"spawn", "again"} /\ Leave(r)
     \/ At(r, "spawn") /\ \E p \in Ports :
          ~Served(p) /\ request' = [request EXCEPT ![r] = [@ EXCEPT !.pc = "install", !.port = p]]
  /\ UNCHANGED <<preview, child, asked>>

Install(r) ==
  /\ At(r, "install") /\ (To(r, "again") \/ Leave(r))
  /\ UNCHANGED <<preview, child, asked>>

\* poll_port_ready: anybody who listens will do.  The new session replaces
\* the one another start has made meanwhile, and drops it.
InsertBeside(r) ==
  /\ At(r, "poll") /\ Served(request[r].port) /\ Leave(r)
  /\ preview' = [preview EXCEPT ![request[r].doc] = request[r].child]
  /\ UNCHANGED <<child, asked>>

Insert(r) ==
  /\ At(r, "poll") /\ Served(request[r].port) /\ Leave(r)
  /\ Kill(preview[request[r].doc])
  /\ preview' = [preview EXCEPT ![request[r].doc] = request[r].child]
  /\ UNCHANGED asked

\* The port stays closed for 15 s.
TimeOut(r) ==
  /\ At(r, "poll") /\ ~Served(request[r].port) /\ Leave(r)
  /\ Kill(request[r].child) /\ UNCHANGED <<preview, asked>>

\* stop, after its delay: whatever session the document has by then.
StopNow(r) ==
  /\ At(r, "delay") /\ Leave(r)
  /\ Kill(preview[request[r].doc])
  /\ preview' = [preview EXCEPT ![request[r].doc] = 0]
  /\ UNCHANGED asked

\* The client hangs up: the request is dropped at its await.
HangUp(r) ==
  /\ request[r].pc \in {"install", "poll", "delay"} /\ Leave(r)
  /\ Kill(request[r].child) /\ UNCHANGED <<preview, asked>>

-----------------------------------------------------------------------------
(* officecli *)

\* The child listens, unless its port was taken after all: then it gives up.
Bind(i) ==
  /\ child[i].state = "up"
  /\ child' = [child EXCEPT ![i].state = IF Served(child[i].port) THEN "gone" ELSE "serves"]
  /\ UNCHANGED <<preview, request, asked>>

Exit(i) == Lives(i) /\ Kill(i) /\ UNCHANGED <<preview, request, asked>>

WatchNext ==
  \/ \E r \in Requests :
       \/ \E d \in Documents : Ask(r, d)
       \/ Found(r) \/ Missing(r) \/ Discard(r) \/ Spawn(r) \/ SpawnFails(r) \/ Install(r)
       \/ Insert(r) \/ TimeOut(r) \/ StopNow(r) \/ HangUp(r)
  \/ \E i \in 1 .. Len(child) : Bind(i) \/ Exit(i)

WatchSpec == WatchInit /\ [][WatchNext]_watchVars

-----------------------------------------------------------------------------
(* Properties *)

\* Who can still kill a child: the session that has it, the start it is for.
Owners(i) ==
  {d \in Documents : preview[d] = i} \cup {r \in Requests : At(r, "poll") /\ request[r].child = i}

\* However starts, stops, time-outs and clients that hang up cross each other,
\* a process that runs belongs to exactly one session or start under way: none
\* is left behind, and none is killed for another document's sake.
WatchersAreOwned == \A i \in 1 .. Len(child) : Lives(i) => \E o \in Owners(i) : Owners(i) = {o}
=============================================================================
