---------------------------- MODULE CreationOrder ----------------------------
(***************************************************************************)
(* The order in which the compiler creates the types and tables of a model   *)
(* and its SQL units: the graph of what needs what at the time of creation,  *)
(* the sort with its list of ready nodes, and the cycles it names and breaks *)
(* so as to find the rest.  A behaviour takes one model and sorts it.        *)
(*                                                                         *)
(* The references of a unit are those its parse tree gives; a name stands    *)
(* for a name in one of the name spaces of Postgres (rel, proc, type).       *)
(***************************************************************************)
EXTENDS Integers, FiniteSets, Sequences, SequencesExt

CONSTANTS
  Models,      \* the inputs: for each label of a model its node
  Names, Schemas,
  Spellings,   \* how a statement names an object: TYPE or DOMAIN, with or without arguments
  SearchPaths  \* the orders of schemas Postgres may look a bare name up in

\* No schema: of a unit that has none, of a reference that does not write one.
Bare == 0
Classes == {"enumType", "table", "object", "extension", "grant", "revoke", "defaultPrivileges"}
\* TYPE_ORDER.
TypeOrder(class) == CASE class = "enumType" -> 0 [] class = "table" -> 1 [] OTHER -> 2

Node(L) == [class : Classes, schema : Schemas \cup {Bare}, key : Nat,
            names : SUBSET Names,                                     \* pgNamespaceKeys
            refs : SUBSET [schema : Schemas \cup {Bare}, name : Names],  \* of its parse tree
            requires : SUBSET L,                                      \* of a generated unit
            targets : SUBSET [object : L, spelt : Spellings],  \* of GRANT and REVOKE
            within : SUBSET Schemas]    \* IN SCHEMA of default privileges

ASSUME CreationAssumption ==
  /\ Schemas \subseteq Nat \ {Bare}
  /\ \A g \in Models :
       /\ g \in [DOMAIN g -> Node(DOMAIN g)] /\ DOMAIN g \subseteq Nat /\ IsFiniteSet(DOMAIN g)
       /\ \A a, b \in DOMAIN g : a # b => g[a].key # g[b].key
       /\ \A a \in DOMAIN g : g[a].class = "extension" =>
            g[a].refs = {} /\ g[a].requires = {}
       /\ \A a \in DOMAIN g : g[a].class \in {"extension", "grant", "revoke", "defaultPrivileges"} =>
            g[a].names = {}

VARIABLES
  graph,    \* Graph.nodes, Graph.deps of the model
  phase,    \* "new", "sorting", then "model" or "refused"
  order,    \* the nodes emitted
  pending,  \* how many dependencies of a node are not emitted
  ready,    \* the sorted list of nodes that wait for nothing
  cycles    \* sql.dependency-cycle: the cycles named

vars == <<graph, phase, order, pending, ready, cycles>>

node == graph.nodes
deps == graph.deps
Labels == DOMAIN node
emitted == ToSet(order)

-----------------------------------------------------------------------------
\* The graph of the nodes g.

\* Mutant: a bare name reaches one of the objects of that name.
ResolveOne(g, ref) ==
  LET all == {n \in DOMAIN g : ref.name \in g[n].names /\ ref.schema \in {Bare, g[n].schema}} IN
  {n \in all : \A o \in all : n <= o}
\* resolve: a bare name reaches every object of that name.
Resolve(g, ref) ==
  {n \in DOMAIN g : ref.name \in g[n].names /\ ref.schema \in {Bare, g[n].schema}}

\* The objects a GRANT or a REVOKE names.
Objects(g, n) == {x.object : x \in g[n].targets}
\* Mutant: a grant does not wait for the revocations of its target.
RevokesNone(g, n) == {}
\* collectRevokes: a grant follows every REVOKE with a target of the same text, the
\* type of the object as it is written and its name.
Revokes(g, n) ==
  {r \in DOMAIN g : g[n].class = "grant" /\ g[r].class = "revoke" /\ g[n].targets \cap g[r].targets # {}}

\* defaultPrivilegeEdges: default privileges precede what they are for.
Defaults(g, n) ==
  {a \in DOMAIN g : /\ g[a].class = "defaultPrivileges"
                    /\ g[n].class \notin {"defaultPrivileges", "extension"}
                    /\ g[a].within = {} \/ g[n].schema \in g[a].within}

\* Mutant: a node that names itself depends on itself.
DepsOfItself(g, n) ==
  (UNION {Resolve(g, ref) : ref \in g[n].refs}) \cup Objects(g, n) \cup Revokes(g, n)
  \cup g[n].requires \cup Defaults(g, n)
\* The constructor: references, targets of grants, revocations, requires, defaults.
Deps(g, n) ==
  ((UNION {Resolve(g, ref) : ref \in g[n].refs}) \cup Objects(g, n) \cup Revokes(g, n)
   \cup g[n].requires \cup Defaults(g, n)) \ {n}

\* compareNodes.
Before(a, b) ==
  LET type(n) == TypeOrder(node[n].class) IN
  \/ type(a) < type(b)
  \/ type(a) = type(b) /\ node[a].schema < node[b].schema
  \/ type(a) = type(b) /\ node[a].schema = node[b].schema /\ node[a].key < node[b].key

Least(S) == CHOOSE n \in S : \A o \in S \ {n} : Before(n, o)
\* all.sort(compareNodes): the node at a place has as many before it.
Sorted(S) ==
  [i \in 1 .. Cardinality(S) |-> CHOOSE n \in S : Cardinality({o \in S : Before(o, n)}) = i - 1]

Extensions == {n \in Labels : node[n].class = "extension"}
Rest == Labels \ Extensions

-----------------------------------------------------------------------------
Init ==
  /\ \E g \in Models : graph = [nodes |-> g, deps |-> [n \in DOMAIN g |-> Deps(g, n)]]
  /\ phase = "new" /\ order = <<>> /\ ready = <<>> /\ cycles = <<>>
  /\ pending = [n \in Rest |-> 0]

\* What a node waits for once the extensions are emitted.
WaitsFor(n) == Cardinality(deps[n] \ Extensions)

\* sort, its beginning: extensions first, the counts, the nodes that are ready.
Start ==
  /\ phase = "new" /\ phase' = "sorting"
  /\ order' = Sorted(Extensions)
  /\ pending' = [n \in Rest |-> WaitsFor(n)]
  /\ ready' = Sorted({n \in Rest : WaitsFor(n) = 0})
  /\ UNCHANGED <<graph, cycles>>

\* Mutant: a node that becomes ready goes to the end of the list.
InsertLast(list, n) == Append(list, n)
\* insertSorted: binary search for the place of n.
InsertSorted(list, n) ==
  LET search[w \in (0 .. Len(list)) \X (0 .. Len(list))] ==
        LET middle == (w[1] + w[2]) \div 2 IN
        IF w[1] >= w[2] THEN w[1]
        ELSE IF Before(list[middle + 1], n) THEN search[<<middle + 1, w[2]>>]
        ELSE search[<<w[1], middle>>]
  IN InsertAt(list, search[<<0, Len(list)>>] + 1, n)

\* Mutant: a node broken out of a cycle becomes ready once more.
FreedAny(n) == {d \in Rest : n \in deps[d] /\ pending[d] = 1}
\* The dependents of n that wait for nothing else.
Freed(n) == {d \in Rest \ (emitted \cup {n}) : n \in deps[d] /\ pending[d] = 1}

\* emit(n), with the list of ready nodes as it is then.
Emit(n, list) ==
  /\ order' = Append(order, n)
  /\ pending' = [d \in Rest |-> IF n \in deps[d] THEN pending[d] - 1 ELSE pending[d]]
  /\ ready' = FoldLeft(InsertSorted, list, Sorted(Freed(n)))

\* The loop takes the first ready node.
Shift ==
  /\ phase = "sorting" /\ ready # <<>>
  /\ IF Head(ready) \in emitted
     THEN ready' = Tail(ready) /\ UNCHANGED <<order, pending>>
     ELSE Emit(Head(ready), Tail(ready))
  /\ UNCHANGED <<graph, phase, cycles>>

\* findCycle, the walk: from a node to the least dependency that is not emitted.
Walk(start) ==
  LET path[i \in 0 .. Cardinality(Labels)] ==
        IF i = 0 THEN start ELSE Least(deps[path[i - 1]] \ emitted)
  IN path

\* Mutant: the nodes that led to the cycle are named with it.
LoopWithTail(path) ==
  LET closes == CHOOSE j \in DOMAIN path : /\ \E i \in 0 .. j - 1 : path[i] = path[j]
                                           /\ \A k \in 0 .. j - 1, i \in 0 .. j - 1 : i < k => path[i] # path[k] IN
  [i \in 1 .. closes |-> path[i - 1]]
\* The part of the walk that closes.
Loop(path) ==
  LET closes == CHOOSE j \in DOMAIN path : /\ \E i \in 0 .. j - 1 : path[i] = path[j]
                                           /\ \A k \in 0 .. j - 1, i \in 0 .. j - 1 : i < k => path[i] # path[k]
      from == CHOOSE i \in 0 .. closes - 1 : path[i] = path[closes] IN
  [i \in 1 .. closes - from |-> path[from + i - 1]]

\* The cycle from its first unit, or from where the walk entered it.
FindCycle(start) ==
  LET loop == Loop(Walk(start))
      units == {n \in ToSet(loop) : TypeOrder(node[n].class) = 2}
      first == IF units = {} THEN 1 ELSE CHOOSE i \in DOMAIN loop : loop[i] = Least(units) IN
  SubSeq(loop, first, Len(loop)) \o SubSeq(loop, 1, first - 1)

\* Nothing is ready: the cycle is named, and broken at its first node.
Break ==
  /\ phase = "sorting" /\ ready = <<>> /\ emitted # Labels
  /\ LET cycle == FindCycle(Least(Rest \ emitted)) IN
     cycles' = Append(cycles, cycle) /\ Emit(Head(cycle), ready)
  /\ UNCHANGED <<graph, phase>>

\* A cycle refuses the model.
Finish ==
  /\ phase = "sorting" /\ emitted = Labels
  /\ phase' = IF cycles = <<>> THEN "model" ELSE "refused"
  /\ UNCHANGED <<graph, order, pending, ready, cycles>>

Next == Start \/ Shift \/ Break \/ Finish
Spec == Init /\ [][Next]_vars

-----------------------------------------------------------------------------
\* The counters and the list say what they stand for, through every cycle that is
\* broken: a node waits for exactly its dependencies that are not emitted, the list
\* is in order and holds exactly the nodes that wait for nothing, none of them twice.
ListIsExact ==
  /\ order \in Seq(Labels) /\ ready \in Seq(Rest) /\ pending \in [Rest -> Nat]
  /\ phase = "sorting" =>
       /\ IsInjective(order) /\ Extensions \subseteq emitted
       /\ \A n \in Rest : pending[n] = Cardinality(deps[n] \ emitted)
       /\ ToSet(ready) = {n \in Rest \ emitted : deps[n] \subseteq emitted}
       /\ \A i, j \in DOMAIN ready : i < j => Before(ready[i], ready[j])

\* A dependency is missing when a node is created only where a cycle was named: the
\* node is the first of a cycle the sort has broken, that cycle is one of the graph,
\* and no node of it had been broken out before.
CyclesAreNamed ==
  /\ \A j \in DOMAIN order : LET n == order[j] IN
       n \in Rest /\ ~(deps[n] \subseteq {order[i] : i \in 1 .. j - 1}) => \E c \in DOMAIN cycles : cycles[c][1] = n
  /\ \A c \in DOMAIN cycles : LET cycle == cycles[c] IN
       /\ IsInjective(cycle)
       /\ \A i \in DOMAIN cycle : cycle[(i % Len(cycle)) + 1] \in deps[cycle[i]]
       /\ \A b \in 1 .. c - 1 : cycles[b][1] \notin ToSet(cycle)

\* A model is refused exactly when it has a cycle: some set of nodes of which each
\* needs another of the set.
RefusedIffCyclic ==
  LET cyclic == \E S \in SUBSET Rest : S # {} /\ \A n \in S : deps[n] \cap (S \ {n}) # {} IN
  /\ phase = "model" => ~cyclic /\ emitted = Labels
  /\ phase = "refused" => cyclic

\* The order depends on the model alone: of all the orders in which every node
\* follows its dependencies it is the first, node by node.
LeastOrder ==
  phase = "model" =>
    \A p \in SetToSeqs(Rest) :
      LET mine == SubSeq(order, Cardinality(Extensions) + 1, Len(order)) IN
      \/ \E j \in DOMAIN p : ~(deps[p[j]] \ Extensions \subseteq {p[i] : i \in 1 .. j - 1})
      \/ p = mine
      \/ \E j \in DOMAIN p : Before(mine[j], p[j]) /\ \A i \in 1 .. j - 1 : mine[i] = p[i]

-----------------------------------------------------------------------------
\* Postgres runs the order.

\* The object a reference reaches among the objects S, by a search path.
Found(path, ref, S) ==
  LET named == {n \in S : ref.name \in node[n].names}
      hits == {i \in DOMAIN path : \E n \in named : node[n].schema = path[i]} IN
  IF ref.schema # Bare THEN {n \in named : node[n].schema = ref.schema}
  ELSE {n \in named : \E i \in hits : node[n].schema = path[i] /\ \A j \in hits : i <= j}

\* Whatever the search path, a name reaches at the creation of a node the object it
\* reaches in the whole model without the node itself: nothing is missing and no other
\* schema stands in.
NamesMeanTheSame ==
  phase = "model" =>
    \A j \in DOMAIN order : LET n == order[j] IN
      \A ref \in node[n].refs, path \in SearchPaths :
        Found(path, ref, {order[i] : i \in 1 .. j - 1}) = Found(path, ref, Labels \ {n})

\* The privileges after the nodes of an order: a REVOKE takes what was granted on its
\* objects, default privileges reach the objects created after them.
Granted(held, n) ==
  CASE node[n].class = "grant"  -> held \cup ({n} \X Objects(node, n))
    [] node[n].class = "revoke" -> {h \in held : h[2] \notin Objects(node, n)}
    [] OTHER -> held

InForce == FoldLeft(Granted, {}, order)
Grants  == {n \in Labels : node[n].class = "grant"}
\* No REVOKE of the model names the object of x in another way.
SpeltAlike(x) ==
  \A r \in Labels : node[r].class = "revoke" =>
    \A y \in node[r].targets : y.object = x.object => y = x

\* A grant is in force at the end where each REVOKE on its object spells it as the
\* grant does, and every object has the default privileges of its schema.
PrivilegesAsWritten ==
  phase = "model" =>
    /\ \A n \in Grants : \A x \in node[n].targets : SpeltAlike(x) => <<n, x.object>> \in InForce
    /\ \A i, j \in DOMAIN order :
         /\ node[order[i]].class = "defaultPrivileges" /\ node[order[j]].names # {}
         /\ node[order[i]].within = {} \/ node[order[j]].schema \in node[order[i]].within
         => i < j

\* Every grant of the model is in force at the end, however its object is spelt: a
\* grant that ran before a REVOKE on the same target would be lost.
GrantsStay ==
  phase = "model" => \A n \in Grants : \A x \in Objects(node, n) : <<n, x>> \in InForce
=============================================================================
