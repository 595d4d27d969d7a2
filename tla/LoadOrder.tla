------------------------------ MODULE LoadOrder ------------------------------
(***************************************************************************)
(* The order in which extensions are loaded and activated.                 *)
(*                                                                         *)
(* aionui-extension: dependency.rs, registry_helpers.rs.  Extensions are   *)
(* numbered as their names are sorted.  What the manifests declare is      *)
(* chosen at the start and stays; a step is a turn of one of the loops, so *)
(* that the call stack of the search is the path with, for each extension  *)
(* on it, the neighbours it has still to follow.                           *)
(***************************************************************************)
EXTENDS Naturals, Sequences, FiniteSets

CONSTANT
  Many             \* bound: the extensions that are loaded are 1 .. Many

VARIABLES
  needs,           \* by extension: the dependencies its manifest declares
  degree,          \* by extension: in_degree, how many of them it waits for
  queue,           \* those that wait for none
  order,           \* the order of loading
  visited,         \* those the search has entered
  path,            \* those it is in; also on_stack
  rest,            \* by extension on the path: neighbours not followed yet
  cycles,          \* the cycles found
  done             \* whether the order is complete

sortVars == <<degree, queue, order>>
searchVars == <<visited, path, rest>>
vars == <<needs, sortVars, searchVars, cycles, done>>

OrderAssumption == Many \in Nat

Loaded == 1 .. Many
NotThere == Many + 1           \* a dependency that is not installed

\* The sequence of the members of S, by name.
ByName(S) == [k \in 1 .. Cardinality(S) |-> CHOOSE e \in S : Cardinality({d \in S : d <= e}) = k]
First(S) == {e \in S : \A d \in S : e <= d}

Members(s) == {s[k] : k \in 1 .. Len(s)}
Top == path[Len(path)]

Dependents(e) == {d \in Loaded : e \in needs[d]}

\* Mutant of InDegree: a dependency that is not installed is waited for.
InDegreeAll(e) == Cardinality(needs[e])

\* Only what is loaded counts.
InDegree(e) == Cardinality(needs[e] \cap Loaded)

Init ==
  /\ needs \in [Loaded -> SUBSET (Loaded \cup {NotThere})]
  /\ degree = [e \in Loaded |-> InDegree(e)]
  /\ queue = ByName({e \in Loaded : InDegree(e) = 0})
  /\ order = <<>> /\ cycles = <<>> /\ done = FALSE
  /\ visited = {} /\ path = <<>> /\ rest = [e \in Loaded |-> {}]

-----------------------------------------------------------------------------
(* compute_topological_order: Kahn's algorithm *)

\* The next of the queue is emitted; who waited for nothing else joins it.
Emit ==
  /\ ~done /\ queue # <<>>
  /\ LET node == Head(queue)
         left == [e \in Loaded |-> degree[e] - (IF e \in Dependents(node) THEN 1 ELSE 0)]
     IN /\ order' = Append(order, node) /\ degree' = left
        /\ queue' = Tail(queue) \o ByName({e \in Dependents(node) : left[e] = 0})
  /\ UNCHANGED <<needs, searchVars, cycles, done>>

\* "Part of cycles", or in need of somebody who is.
Remaining == Loaded \ Members(order)
Neighbours(e) == needs[e] \cap Remaining

-----------------------------------------------------------------------------
(* find_cycles, dfs_find_cycles: a depth-first search of what remains *)

Searching == ~done /\ queue = <<>>

\* The search goes into an extension, with what others have still to follow.
Enter(node, left) ==
  /\ visited' = visited \cup {node} /\ path' = Append(path, node)
  /\ rest' = [left EXCEPT ![node] = Neighbours(node)]
  /\ UNCHANGED <<needs, sortVars, cycles, done>>

\* The next extension by name that was not visited from another.
Root ==
  /\ Searching /\ path = <<>>
  /\ \E node \in First(Remaining \ visited) : Enter(node, rest)

\* The next neighbour, by name, of the extension the search is in.
Follows(next) == Searching /\ path # <<>> /\ next \in First(rest[Top])
Without(next) == [rest EXCEPT ![Top] = @ \ {next}]

Descend ==
  \E next \in Loaded \ visited : Follows(next) /\ Enter(next, Without(next))

\* A neighbour that is on the path closes a cycle, from its place to the end.
Close ==
  /\ \E start \in 1 .. Len(path) : LET next == path[start] IN
       /\ Follows(next) /\ next \in visited
       /\ cycles' = Append(cycles, Append(SubSeq(path, start, Len(path)), next))
       /\ rest' = Without(next)
  /\ UNCHANGED <<needs, sortVars, visited, path, done>>

\* One that was left is not searched again.
Pass ==
  /\ \E next \in visited \ Members(path) : Follows(next) /\ rest' = Without(next)
  /\ UNCHANGED <<needs, sortVars, visited, path, cycles, done>>

Leave ==
  /\ Searching /\ path # <<>> /\ rest[Top] = {}
  /\ path' = SubSeq(path, 1, Len(path) - 1)
  /\ UNCHANGED <<needs, sortVars, visited, rest, cycles, done>>

\* What was not emitted comes last, by name; sort_by_load_order adds nothing.
Finish ==
  /\ Searching /\ path = <<>> /\ Remaining \subseteq visited
  /\ order' = order \o ByName(Remaining) /\ done' = TRUE
  /\ UNCHANGED <<needs, degree, queue, searchVars, cycles>>

Next == Emit \/ Root \/ Descend \/ Close \/ Pass \/ Leave \/ Finish
Spec == Init /\ [][Next]_vars

\* validate_dependencies, the versions aside.
Valid == cycles = <<>> /\ \A e \in Loaded : needs[e] \subseteq Loaded

-----------------------------------------------------------------------------
(* Properties *)

\* Every variable has its type.
TypeOK ==
  /\ needs \in [Loaded -> SUBSET (Loaded \cup {NotThere})]
  /\ degree \in [Loaded -> Nat]
  /\ queue \in Seq(Loaded) /\ order \in Seq(Loaded) /\ path \in Seq(Loaded)
  /\ visited \subseteq Loaded /\ rest \in [Loaded -> SUBSET Loaded]
  /\ cycles \in Seq(Seq(Loaded)) /\ done \in BOOLEAN

\* What an extension requires, of itself or through others, is in every set
\* that has its dependencies and with each extension those of that one.
Closed(S) == \A e \in S : needs[e] \cap Loaded \subseteq S
Requires ==
  [e \in Loaded |-> {d \in Loaded : \A S \in SUBSET Loaded :
                      needs[e] \cap Loaded \subseteq S /\ Closed(S) => d \in S}]

\* Extensions that require themselves, and who has to do with one.
Knotted == {e \in Loaded : e \in Requires[e]}
Meets(e) == \E d \in Knotted : d = e \/ d \in Requires[e]

Before(d, e) == \E k \in 1 .. Len(order) : order[k] = e /\ \E j \in 1 .. k - 1 : order[j] = d
Within(cycle, e) == \A d \in Members(cycle) : d \in Requires[e] /\ e \in Requires[d]

\* dependency.rs: every extension is loaded, once; after what it needs and is
\* installed, unless it needs a cycle; what is reported as a cycle is one, every
\* knot of extensions that need each other has one reported, and the manifests
\* are called valid when nothing is missing and nothing needs itself.
DependenciesLoadFirst == done =>
  /\ Len(order) = Many /\ Members(order) = Loaded
  /\ \A e \in Loaded : Meets(e) \/ \A d \in needs[e] \cap Loaded : Before(d, e)
  /\ \A cycle \in Members(cycles) :
       /\ Len(cycle) > 1 /\ cycle[1] = cycle[Len(cycle)]
       /\ \A k \in 1 .. Len(cycle) - 1 : cycle[k + 1] \in needs[cycle[k]]
  /\ \A e \in Knotted : \E cycle \in Members(cycles) : Within(cycle, e)
  /\ Valid <=> Knotted = {} /\ \A e \in Loaded : NotThere \notin needs[e]
=============================================================================
