------------------------- MODULE CreationOrder_proofs -------------------------
(***************************************************************************)
(* The sort of the compiler is right for any models, names and schemas: the *)
(* list of ready nodes is exact through every cycle that is broken, a model *)
(* is refused exactly when it has a cycle, and the order is the least of    *)
(* those in which every node follows its dependencies.  The recursive       *)
(* functions of the model (the binary search, the folds, the walk) are      *)
(* shown to exist first: a CHOOSE of a function that does not would say     *)
(* nothing of what it computes.                                            *)
(***************************************************************************)
EXTENDS CreationOrder, FiniteSetTheorems, SequenceTheorems, WellFoundedInduction, TLAPS

(* Numbers *)

\* The order of the naturals, as a relation.
LEMMA NatOrder == \E R : IsWellFoundedOn(R, Nat) /\ \A i, j \in Nat : <<i, j>> \in R <=> i < j
<1>1. \A i, j \in Nat : <<i, j>> \in OpToRel(<, Nat) <=> i < j
    BY DEF OpToRel
<1> QED
    BY <1>1, NatLessThanWellFounded

\* A set of naturals that is not empty has a least member.
LEMMA LeastMember ==
  ASSUME NEW S, S \subseteq Nat, S # {}
  PROVE  \E i \in S : \A j \in S : i <= j
<1>1. PICK R : IsWellFoundedOn(R, Nat) /\ \A i, j \in Nat : <<i, j>> \in R <=> i < j
    BY NatOrder
<1>2. \E i \in S : \A j \in S : ~(<<j, i>> \in R)
  <2>1. IsWellFoundedOn(R, Nat)
      BY <1>1
  <2> QED
      BY <2>1, WFMin, Zenon
<1>3. PICK i \in S : \A j \in S : ~(<<j, i>> \in R)
    BY <1>2
<1>4. ASSUME NEW j \in S PROVE i <= j
  <2>1. i \in Nat /\ j \in Nat
      OBVIOUS
  <2>2. ~(j < i)
      BY <1>1, <1>3, <2>1, Zenon
  <2> QED
      BY <2>1, <2>2
<1> QED
    BY <1>4

\* Induction, said of a set of naturals.
LEMMA AllNaturals ==
  ASSUME NEW S \in SUBSET Nat, 0 \in S, \A k \in S : k + 1 \in S
  PROVE  S = Nat
<1> SUFFICES ASSUME Nat \ S # {} PROVE FALSE
    OBVIOUS
<1>1. PICK k \in Nat \ S : \A j \in Nat \ S : k <= j
    BY LeastMember
<1>2. k # 0 /\ k - 1 \in Nat
    OBVIOUS
<1>3. k - 1 \in S
    BY <1>1, <1>2
<1> QED
    BY <1>1, <1>2, <1>3

\* The equation of a recursive function: at w the function is base[w] where the
\* measure m is 0, elsewhere it asks for its value at p[w].
Recursion(f, W, m, p, base, G) ==
  \A w \in W : /\ m[w] = 0 => f[w] = base[w]
               /\ m[w] # 0 => f[w] = G[<<w, f[p[w]]>>]

\* A function that each of its values asks for at most one other value of, at an
\* argument of a smaller measure, exists.
LEMMA RecursionExists ==
  ASSUME NEW W, NEW V, NEW m \in [W -> Nat], NEW p \in [W -> W], NEW base \in [W -> V],
         NEW G \in [W \X V -> V], \A w \in W : m[w] # 0 => m[p[w]] < m[w],
         NEW bound \in Nat, \A w \in W : m[w] < bound
  PROVE  \E f \in [W -> V] : Recursion(f, W, m, p, base, G)
<1> DEFINE Value(f, w) == IF m[w] = 0 THEN base[w] ELSE G[<<w, f[p[w]]>>]
           K == {k \in Nat : \E f \in [W -> V] : \A w \in W : m[w] < k => f[w] = Value(f, w)}
<1>1. 0 \in K
    OBVIOUS
<1>2. \A k \in K : k + 1 \in K
  <2> TAKE k \in K
  <2>1. PICK f \in [W -> V] : \A w \in W : m[w] < k => f[w] = Value(f, w)
      OBVIOUS
  <2> DEFINE g == [w \in W |-> Value(f, w)]
  <2>2. g \in [W -> V]
      OBVIOUS
  <2>3. \A w \in W : m[w] < k + 1 => g[w] = Value(g, w)
    <3> TAKE w \in W
    <3> SUFFICES ASSUME m[w] < k + 1, m[w] # 0 PROVE g[p[w]] = f[p[w]]
        OBVIOUS
    <3>1. p[w] \in W /\ m[p[w]] < m[w] /\ m[w] \in Nat /\ m[p[w]] \in Nat
        OBVIOUS
    <3>2. m[p[w]] < k
        BY <3>1
    <3> QED
        BY <2>1, <3>1, <3>2
  <2> HIDE DEF g
  <2> QED
      BY <2>2, <2>3
<1>3. bound \in K
  <2>1. K = Nat
    <3> HIDE DEF K
    <3>1. K \in SUBSET Nat
        BY DEF K
    <3> QED
        BY <1>1, <1>2, <3>1, AllNaturals
  <2> QED
      BY <2>1
<1>4. PICK f \in [W -> V] : \A w \in W : m[w] < bound => f[w] = Value(f, w)
    BY <1>3
<1>5. Recursion(f, W, m, p, base, G)
    BY <1>4 DEF Recursion
<1> QED
    BY <1>5

-----------------------------------------------------------------------------
(* The order of the nodes *)

\* The model being sorted, with the dependencies the constructor has given it.
GraphOk ==
  /\ graph.nodes \in Models
  /\ graph.deps = [n \in DOMAIN graph.nodes |-> Deps(graph.nodes, n)]

\* What the assumption says of it.
LEMMA GraphIs ==
  ASSUME GraphOk
  PROVE  /\ Labels \subseteq Nat /\ IsFiniteSet(Labels) /\ node \in [Labels -> Node(Labels)]
         /\ \A a, b \in Labels : a # b => node[a].key # node[b].key
         /\ deps \in [Labels -> SUBSET Labels] /\ \A n \in Labels : n \notin deps[n]
         /\ \A n \in Labels : deps[n] = Deps(node, n)
         /\ Extensions \subseteq Labels /\ Rest \subseteq Labels /\ Rest \cap Extensions = {}
         /\ Rest \cup Extensions = Labels
<1>1. /\ node \in [Labels -> Node(Labels)] /\ Labels \subseteq Nat /\ IsFiniteSet(Labels)
      /\ \A a, b \in Labels : a # b => node[a].key # node[b].key
    BY CreationAssumption DEF GraphOk, node, Labels
<1>2. deps = [n \in Labels |-> Deps(node, n)]
    BY DEF GraphOk, node, Labels, deps
<1>3. ASSUME NEW n \in Labels PROVE Deps(node, n) \subseteq Labels /\ n \notin Deps(node, n)
  <2>1. Objects(node, n) \subseteq Labels /\ node[n].requires \subseteq Labels
    <3>1. node[n].targets \subseteq [object : Labels, spelt : Spellings] /\ node[n].requires \subseteq Labels
        BY <1>1 DEF Node
    <3>2. \A x \in node[n].targets : x.object \in Labels
        BY <3>1
    <3> QED
        BY <3>1, <3>2 DEF Objects
  <2>2. Revokes(node, n) \subseteq Labels /\ Defaults(node, n) \subseteq Labels
      BY DEF Revokes, Defaults, Labels
  <2>3. \A ref : Resolve(node, ref) \subseteq Labels
      BY DEF Resolve, Labels
  <2> QED
      BY <2>1, <2>2, <2>3 DEF Deps
<1> QED
    BY <1>1, <1>2, <1>3 DEF Extensions, Rest

\* compareNodes is a strict total order.
LEMMA BeforeIsOrder ==
  ASSUME GraphOk
  PROVE  /\ \A a \in Labels : ~Before(a, a)
         /\ \A a, b \in Labels : a = b \/ Before(a, b) \/ Before(b, a)
         /\ \A a, b, c \in Labels : Before(a, b) /\ Before(b, c) => Before(a, c)
<1>1. \A n \in Labels : /\ TypeOrder(node[n].class) \in Nat /\ node[n].schema \in Nat
                        /\ node[n].key \in Nat
  <2> TAKE n \in Labels
  <2>1. node[n].schema \in Schemas \cup {Bare} /\ node[n].key \in Nat
      BY GraphIs DEF Node
  <2>2. Schemas \cup {Bare} \subseteq Nat
      BY CreationAssumption DEF Bare
  <2> QED
      BY <2>1, <2>2 DEF TypeOrder
<1>2. \A a, b \in Labels : a # b => node[a].key # node[b].key
    BY GraphIs
<1>3. \A a \in Labels : ~Before(a, a)
    BY <1>1 DEF Before
<1>4. \A a, b \in Labels : a = b \/ Before(a, b) \/ Before(b, a)
    BY <1>1, <1>2 DEF Before
<1>5. \A a, b, c \in Labels : Before(a, b) /\ Before(b, c) => Before(a, c)
    BY <1>1 DEF Before
<1> QED
    BY <1>3, <1>4, <1>5

\* How many nodes of a set are before one.
Rank(S, n) == Cardinality({o \in S : Before(o, n)})

\* The rank grows with the order, and is smaller than the set.
LEMMA RankGrows ==
  ASSUME GraphOk, NEW S \in SUBSET Labels
  PROVE  /\ IsFiniteSet(S) /\ Cardinality(S) \in Nat
         /\ \A n \in S : Rank(S, n) \in 0 .. Cardinality(S) - 1
         /\ \A a, b \in S : Before(a, b) => Rank(S, a) < Rank(S, b)
<1>1. IsFiniteSet(S) /\ Cardinality(S) \in Nat
    BY GraphIs, FS_Subset, FS_CardinalityType
<1>2. ASSUME NEW T \in SUBSET S PROVE IsFiniteSet(T) /\ Cardinality(T) \in 0 .. Cardinality(S)
    BY <1>1, FS_Subset, FS_CardinalityType
<1>3. ASSUME NEW T \in SUBSET S, NEW U \in SUBSET T, U # T PROVE Cardinality(U) < Cardinality(T)
  <2>1. /\ IsFiniteSet(T) /\ Cardinality(T) \in Nat
        /\ IsFiniteSet(U) /\ Cardinality(U) \in Nat
      BY <1>2
  <2> QED
      BY <1>3, <2>1, FS_Subset
<1>4. ASSUME NEW n \in S PROVE Rank(S, n) \in 0 .. Cardinality(S) - 1
  <2>1. {o \in S : Before(o, n)} \in SUBSET S /\ {o \in S : Before(o, n)} # S
      BY BeforeIsOrder
  <2>2. S \in SUBSET S
      OBVIOUS
  <2>3. Rank(S, n) \in Nat /\ Rank(S, n) < Cardinality(S)
      BY <1>2, <1>3, <2>1, <2>2 DEF Rank
  <2> QED
      BY <1>1, <2>3
<1>5. ASSUME NEW a \in S, NEW b \in S, Before(a, b) PROVE Rank(S, a) < Rank(S, b)
  <2>1. PICK A, B : A = {o \in S : Before(o, a)} /\ B = {o \in S : Before(o, b)}
      OBVIOUS
  <2>2. \A o \in S : Before(o, a) => Before(o, b)
      BY <1>5, BeforeIsOrder
  <2>3. B \in SUBSET S /\ A \in SUBSET B /\ a \in B /\ a \notin A
      BY <1>5, <2>1, <2>2, BeforeIsOrder
  <2> QED
      BY <1>3, <2>1, <2>3 DEF Rank
<1> QED
    BY <1>1, <1>4, <1>5

\* A set of nodes that is not empty has a first one.
LEMMA LeastIs ==
  ASSUME GraphOk, NEW S \in SUBSET Labels, S # {}
  PROVE  Least(S) \in S /\ \A o \in S \ {Least(S)} : Before(Least(S), o)
<1>1. PICK R : R = {Rank(S, n) : n \in S}
    OBVIOUS
<1>2. R \subseteq Nat /\ R # {}
  <2>1. Cardinality(S) \in Nat /\ \A n \in S : Rank(S, n) \in 0 .. Cardinality(S) - 1
      BY RankGrows
  <2>2. \A n \in S : Rank(S, n) \in Nat
      BY <2>1
  <2> QED
      BY <1>1, <2>2
<1>3. PICK r \in R : \A q \in R : r <= q
    BY <1>2, LeastMember
<1>4. PICK n \in S : r = Rank(S, n)
    BY <1>1
<1>5. \A o \in S \ {n} : Before(n, o)
  <2> TAKE o \in S \ {n}
  <2>1. Rank(S, o) \in Nat /\ Rank(S, n) <= Rank(S, o)
      BY <1>1, <1>2, <1>3, <1>4
  <2>2. Rank(S, n) \in Nat
      BY <1>2, <1>4
  <2>3. ~Before(o, n)
      BY <2>1, <2>2, RankGrows
  <2> QED
      BY <2>3, BeforeIsOrder
<1> QED
    BY <1>5 DEF Least

\* A list in order.
Ascending(list) == \A i, j \in DOMAIN list : i < j => Before(list[i], list[j])

\* Sorted puts each node of the set in its place.
LEMMA SortedIs ==
  ASSUME GraphOk, NEW S \in SUBSET Labels
  PROVE  /\ Sorted(S) \in Seq(S) /\ Len(Sorted(S)) = Cardinality(S) /\ ToSet(Sorted(S)) = S
         /\ Ascending(Sorted(S))
<1>1. PICK k \in Nat : k = Cardinality(S)
    BY RankGrows
<1>2. \A n \in S : Rank(S, n) \in 0 .. k - 1
  <2>1. \A n \in S : Rank(S, n) \in 0 .. Cardinality(S) - 1
      BY RankGrows
  <2> QED
      BY <1>1, <2>1
<1>3. \A a, b \in S : Rank(S, a) = Rank(S, b) => a = b
  <2> SUFFICES ASSUME NEW a \in S, NEW b \in S, Rank(S, a) = Rank(S, b), a # b PROVE FALSE
      OBVIOUS
  <2>1. Before(a, b) \/ Before(b, a)
      BY BeforeIsOrder
  <2>2. Rank(S, a) < Rank(S, b) \/ Rank(S, b) < Rank(S, a)
      BY <2>1, RankGrows
  <2>3. Rank(S, a) \in Nat
      BY <1>2
  <2> QED
      BY <2>2, <2>3
<1>4. \A i \in 1 .. k : \E n \in S : Rank(S, n) = i - 1
  <2>1. PICK f : f = [n \in S |-> Rank(S, n)]
      OBVIOUS
  <2>2. f \in Injection(S, 0 .. k - 1)
      BY <1>2, <1>3, <2>1 DEF Injection, IsInjective
  <2>3. IsFiniteSet(0 .. k - 1) /\ Cardinality(0 .. k - 1) = k
      BY FS_Interval
  <2>4. f \in Surjection(S, 0 .. k - 1)
      BY <1>1, <2>2, <2>3, FS_Injection
  <2> QED
      BY <2>1, <2>4 DEF Surjection
<1>5. PICK s : s = Sorted(S)
    OBVIOUS
<1>6. DOMAIN s = 1 .. k /\ \A i \in 1 .. k : s[i] = CHOOSE n \in S : Rank(S, n) = i - 1
    BY <1>1, <1>5 DEF Sorted, Rank
<1>7. \A i \in 1 .. k : s[i] \in S /\ Rank(S, s[i]) = i - 1
    BY <1>4, <1>6
<1>8. s \in Seq(S) /\ Len(s) = k
  <2>1. s \in [1 .. k -> S]
    <3>1. s = [i \in 1 .. k |-> CHOOSE n \in S : Rank(S, n) = i - 1]
        BY <1>1, <1>5 DEF Sorted, Rank
    <3> QED
        BY <1>6, <1>7, <3>1, Zenon
  <2> QED
      BY <2>1
<1>9. ToSet(s) = S
  <2>1. \A n \in S : n = s[Rank(S, n) + 1] /\ Rank(S, n) + 1 \in 1 .. k
      BY <1>2, <1>3, <1>7
  <2> QED
      BY <1>6, <1>7, <2>1 DEF ToSet
<1>10. Ascending(s)
  <2> SUFFICES ASSUME NEW i \in 1 .. k, NEW j \in 1 .. k, i < j PROVE Before(s[i], s[j])
      BY <1>6 DEF Ascending
  <2>1. s[i] # s[j] /\ ~Before(s[j], s[i])
      BY <1>7, RankGrows
  <2> QED
      BY <1>7, <2>1, BeforeIsOrder
<1> QED
    BY <1>1, <1>5, <1>8, <1>9, <1>10

-----------------------------------------------------------------------------
(* Lists *)

\* What InsertAt does to a sequence.
LEMMA InsertAtIs ==
  ASSUME NEW V, NEW list \in Seq(V), NEW q \in 1 .. Len(list) + 1, NEW n \in V
  PROVE  /\ InsertAt(list, q, n) \in Seq(V) /\ Len(InsertAt(list, q, n)) = Len(list) + 1
         /\ \A k \in 1 .. q - 1 : InsertAt(list, q, n)[k] = list[k]
         /\ InsertAt(list, q, n)[q] = n
         /\ \A k \in q + 1 .. Len(list) + 1 : InsertAt(list, q, n)[k] = list[k - 1]
<1>1. PICK front, back : front = SubSeq(list, 1, q - 1) /\ back = SubSeq(list, q, Len(list))
    OBVIOUS
<1>2. /\ front \in Seq(V) /\ Len(front) = q - 1 /\ \A k \in 1 .. q - 1 : front[k] = list[k]
      /\ back \in Seq(V) /\ Len(back) = Len(list) - q + 1
      /\ \A k \in 1 .. Len(list) - q + 1 : back[k] = list[q + k - 1]
    BY <1>1, SubSeqProperties
<1>3. PICK s : s = InsertAt(list, q, n) /\ s = (front \o <<n>>) \o back
    BY <1>1 DEF InsertAt
<1>4. PICK head : head = front \o <<n>>
    OBVIOUS
<1>5. /\ head \in Seq(V) /\ Len(head) = q /\ head[q] = n
      /\ \A k \in 1 .. q - 1 : head[k] = list[k]
  <2>1. <<n>> \in Seq(V) /\ Len(<<n>>) = 1 /\ <<n>>[1] = n
      OBVIOUS
  <2>2. PICK one \in Seq(V) : one = <<n>> /\ Len(one) = 1 /\ one[1] = n
      BY <2>1
  <2>3. /\ front \o one \in Seq(V) /\ Len(front \o one) = Len(front) + Len(one)
        /\ \A k \in 1 .. Len(front) + Len(one) :
             (front \o one)[k] = IF k <= Len(front) THEN front[k] ELSE one[k - Len(front)]
      BY <1>2, <2>2, ConcatProperties
  <2>4. head = front \o one
      BY <1>4, <2>2
  <2>5. Len(front) = q - 1 /\ q - 1 + 1 = q /\ q \in 1 .. q - 1 + 1 /\ ~(q <= q - 1) /\ q - (q - 1) = 1
      BY <1>2
  <2>6. head \in Seq(V) /\ Len(head) = q
      BY <2>2, <2>3, <2>4, <2>5
  <2>7. head[q] = n
      BY <2>2, <2>3, <2>4, <2>5
  <2>8. ASSUME NEW k \in 1 .. q - 1 PROVE head[k] = list[k]
    <3>1. k \in 1 .. q - 1 + 1 /\ k <= q - 1
        BY <2>5
    <3> QED
        BY <1>2, <2>2, <2>3, <2>4, <2>5, <3>1
  <2> QED
      BY <2>6, <2>7, <2>8
<1>6. /\ s \in Seq(V) /\ Len(s) = Len(list) + 1
      /\ \A k \in 1 .. Len(list) + 1 : s[k] = IF k <= q THEN head[k] ELSE back[k - q]
  <2>1. /\ head \o back \in Seq(V) /\ Len(head \o back) = Len(head) + Len(back)
        /\ \A k \in 1 .. Len(head) + Len(back) :
             (head \o back)[k] = IF k <= Len(head) THEN head[k] ELSE back[k - Len(head)]
      BY <1>2, <1>5, ConcatProperties
  <2>2. Len(head) + Len(back) = Len(list) + 1
      BY <1>2, <1>5
  <2>3. s = head \o back
      BY <1>3, <1>4
  <2> QED
      BY <1>5, <2>1, <2>2, <2>3
<1>7. \A k \in 1 .. q - 1 : s[k] = list[k]
    BY <1>5, <1>6
<1>8. s[q] = n
    BY <1>5, <1>6
<1>9. ASSUME NEW k \in q + 1 .. Len(list) + 1 PROVE s[k] = list[k - 1]
  <2>1. k - q \in 1 .. Len(list) - q + 1 /\ q + (k - q) - 1 = k - 1
      OBVIOUS
  <2>2. s[k] = back[k - q]
      BY <1>6
  <2> QED
      BY <1>2, <2>1, <2>2
<1> QED
    BY <1>3, <1>6, <1>7, <1>8, <1>9

\* Where the search looks next.
Middle(w) == (w[1] + w[2]) \div 2

\* The middle of an interval that is not empty.
LEMMA MiddleIs ==
  ASSUME NEW L \in Nat, NEW w \in (0 .. L) \X (0 .. L), w[1] < w[2]
  PROVE  /\ Middle(w) \in 0 .. L /\ Middle(w) + 1 \in 1 .. L
         /\ w[1] <= Middle(w) /\ Middle(w) < w[2]
BY DEF Middle

\* The equation of the search.
SearchFrom(f, list, n, L) ==
  [w \in (0 .. L) \X (0 .. L) |->
     IF w[1] >= w[2] THEN w[1]
     ELSE IF Before(list[Middle(w) + 1], n) THEN f[<<Middle(w) + 1, w[2]>>]
     ELSE f[<<w[1], Middle(w)>>]]

\* The recursive function of the search exists.
LEMMA SearchExists ==
  ASSUME NEW L \in Nat, NEW list, NEW n
  PROVE  \E f : f = SearchFrom(f, list, n, L)
<1> DEFINE W == (0 .. L) \X (0 .. L)
           m == [w \in W |-> IF w[1] >= w[2] THEN 0 ELSE w[2] - w[1]]
           next == [w \in W |-> IF w[1] >= w[2] THEN w
                                ELSE IF Before(list[Middle(w) + 1], n) THEN <<Middle(w) + 1, w[2]>>
                                ELSE <<w[1], Middle(w)>>]
           base == [w \in W |-> w[1]]
           G == [z \in W \X (0 .. L) |-> z[2]]
<1>1. \A w \in W : w[1] \in 0 .. L /\ w[2] \in 0 .. L
    OBVIOUS
<1>2. \A w \in W : w[1] < w[2] =>
        /\ w[1] <= Middle(w) /\ Middle(w) < w[2] /\ Middle(w) \in 0 .. L
        /\ <<Middle(w) + 1, w[2]>> \in W /\ <<w[1], Middle(w)>> \in W
    BY <1>1, MiddleIs
<1>3. m \in [W -> Nat] /\ \A w \in W : m[w] < L + 1
    BY <1>1
<1>4. next \in [W -> W]
    BY <1>1, <1>2
<1>5. base \in [W -> 0 .. L] /\ G \in [W \X (0 .. L) -> 0 .. L]
    BY <1>1
<1>6. \A w \in W : m[w] # 0 => m[next[w]] < m[w]
  <2> TAKE w \in W
  <2> SUFFICES ASSUME w[1] < w[2] PROVE m[next[w]] < w[2] - w[1]
      BY <1>1
  <2>1. CASE Before(list[Middle(w) + 1], n)
    <3>1. PICK v \in W : v = <<Middle(w) + 1, w[2]>> /\ v = next[w]
      <4>1. <<Middle(w) + 1, w[2]>> \in W
          BY <1>2
      <4>2. ~(w[1] >= w[2])
          BY <1>1
      <4>3. next[w] = <<Middle(w) + 1, w[2]>>
          BY <2>1, <4>2
      <4> QED
          BY <4>1, <4>3
    <3>2. v[1] = Middle(w) + 1 /\ v[2] = w[2] /\ m[v] = IF v[1] >= v[2] THEN 0 ELSE v[2] - v[1]
        BY <3>1
    <3> QED
        BY <1>1, <1>2, <3>1, <3>2
  <2>2. CASE ~Before(list[Middle(w) + 1], n)
    <3>1. PICK v \in W : v = <<w[1], Middle(w)>> /\ v = next[w]
      <4>1. <<w[1], Middle(w)>> \in W
          BY <1>2
      <4>2. ~(w[1] >= w[2])
          BY <1>1
      <4>3. next[w] = <<w[1], Middle(w)>>
          BY <2>2, <4>2
      <4> QED
          BY <4>1, <4>3
    <3>2. v[1] = w[1] /\ v[2] = Middle(w) /\ m[v] = IF v[1] >= v[2] THEN 0 ELSE v[2] - v[1]
        BY <3>1
    <3> QED
        BY <1>1, <1>2, <3>1, <3>2
  <2> QED
      BY <2>1, <2>2
<1>7. \A w \in W : m[w] = 0 <=> w[1] >= w[2]
    BY <1>1
<1>8. PICK f \in [W -> 0 .. L] : Recursion(f, W, m, next, base, G)
  <2>1. PICK V : V = 0 .. L
      OBVIOUS
  <2>2. base \in [W -> V] /\ G \in [W \X V -> V]
      BY <1>5, <2>1
  <2>3. PICK bound \in Nat : bound = L + 1
      OBVIOUS
  <2>4. \A w \in W : m[w] < bound
      BY <1>3, <2>3
  <2> HIDE DEF m, next, base, G, W
  <2>5. \E f \in [W -> V] : Recursion(f, W, m, next, base, G)
      BY <1>3, <1>4, <1>6, <2>2, <2>4, RecursionExists
  <2> QED
      BY <2>1, <2>5
<1>9. \A w \in W : f[w] = IF w[1] >= w[2] THEN w[1] ELSE f[next[w]]
  <2> TAKE w \in W
  <2>1. next[w] \in W /\ f[next[w]] \in 0 .. L
      BY <1>4, <1>8
  <2>2. G[<<w, f[next[w]]>>] = f[next[w]] /\ base[w] = w[1]
      BY <2>1
  <2> HIDE DEF m, next, base, G, W
  <2>3. m[w] = 0 => f[w] = base[w]
      BY <1>8 DEF Recursion
  <2>4. m[w] # 0 => f[w] = G[<<w, f[next[w]]>>]
      BY <1>8 DEF Recursion
  <2> QED
      BY <1>7, <2>2, <2>3, <2>4
<1> DEFINE Value(w) == IF w[1] >= w[2] THEN w[1]
                       ELSE IF Before(list[Middle(w) + 1], n) THEN f[<<Middle(w) + 1, w[2]>>]
                       ELSE f[<<w[1], Middle(w)>>]
<1>10. \A w \in W : f[w] = Value(w)
  <2> TAKE w \in W
  <2>1. ~(w[1] >= w[2]) =>
          next[w] = IF Before(list[Middle(w) + 1], n) THEN <<Middle(w) + 1, w[2]>> ELSE <<w[1], Middle(w)>>
      OBVIOUS
  <2> QED
      BY <1>9, <2>1
<1>11. f = [w \in W |-> Value(w)]
  <2> HIDE DEF Value, W
  <2> QED
      BY <1>8, <1>10
<1>12. SearchFrom(f, list, n, L) = [w \in W |-> Value(w)]
    BY DEF SearchFrom
<1> HIDE DEF Value, W
<1> QED
    BY <1>11, <1>12

\* In a list in order, what is before a node that is before n is before n.
LEMMA PrefixBefore ==
  ASSUME GraphOk, NEW list \in Seq(Labels), Ascending(list), NEW n \in Labels,
         NEW a \in DOMAIN list, NEW b \in DOMAIN list, a <= b, Before(list[b], n)
  PROVE  Before(list[a], n)
<1>1. a \in 1 .. Len(list) /\ b \in 1 .. Len(list) /\ list[a] \in Labels /\ list[b] \in Labels
    OBVIOUS
<1>2. CASE a = b
    BY <1>2
<1>3. CASE a < b
  <2>1. Before(list[a], list[b])
      BY <1>3 DEF Ascending
  <2> QED
      BY <1>1, <2>1, BeforeIsOrder
<1> QED
    BY <1>1, <1>2, <1>3

\* The place p separates the nodes before n from the others.
Separates(list, n, p) ==
  /\ p \in 0 .. Len(list)
  /\ \A i \in 1 .. Len(list) : Before(list[i], n) <=> i <= p
\* The interval w holds the place.
Brackets(list, n, w) ==
  /\ w[1] <= w[2] /\ \A i \in 1 .. Len(list) : i <= w[1] => Before(list[i], n)
  /\ \A i \in 1 .. Len(list) : i > w[2] => ~Before(list[i], n)

\* The search ends at the place its interval holds.
LEMMA SearchRight ==
  ASSUME GraphOk, NEW list \in Seq(Labels), Ascending(list), NEW n \in Labels,
         NEW L \in Nat, L = Len(list), NEW f, f = SearchFrom(f, list, n, L)
  PROVE  Separates(list, n, f[<<0, L>>])
<1> DEFINE W == (0 .. L) \X (0 .. L)
           Wrong == {k \in Nat : \E w \in W : /\ w[2] - w[1] = k /\ Brackets(list, n, w)
                                              /\ ~Separates(list, n, f[w])}
<1>1. \A w \in W : w[1] \in 0 .. L /\ w[2] \in 0 .. L
    OBVIOUS
<1>2. DOMAIN list = 1 .. L
    OBVIOUS
<1>v. \A w \in W : f[w] = IF w[1] >= w[2] THEN w[1]
                         ELSE IF Before(list[Middle(w) + 1], n) THEN f[<<Middle(w) + 1, w[2]>>]
                         ELSE f[<<w[1], Middle(w)>>]
    BY DEF SearchFrom
<1>3. ASSUME NEW w \in W, Brackets(list, n, w), ~Separates(list, n, f[w])
      PROVE  \E v \in W : /\ v[2] - v[1] \in Nat /\ v[2] - v[1] < w[2] - w[1]
                          /\ Brackets(list, n, v) /\ ~Separates(list, n, f[v])
  <2>1. w[1] < w[2]
    <3> SUFFICES ASSUME w[1] >= w[2] PROVE FALSE
        BY <1>1
    <3>1. f[w] = w[1]
        BY <1>v
    <3>2. w[1] = w[2]
        BY <1>1, <1>3 DEF Brackets
    <3> QED
        BY <1>1, <1>3, <3>1, <3>2 DEF Brackets, Separates
  <2>2. PICK mid \in 0 .. L : mid = Middle(w) /\ mid + 1 \in 1 .. L /\ w[1] <= mid /\ mid < w[2]
      BY <2>1, MiddleIs
  <2>3. CASE Before(list[mid + 1], n)
    <3>1. PICK v : v = <<mid + 1, w[2]>>
        OBVIOUS
    <3>2. v \in W /\ v[1] = mid + 1 /\ v[2] = w[2]
        BY <1>1, <2>2, <3>1
    <3>3. f[w] = f[v]
      <4>1. ~(w[1] >= w[2])
          BY <1>1, <2>1
      <4>2. f[w] = f[<<Middle(w) + 1, w[2]>>]
          BY <1>v, <2>2, <2>3, <4>1
      <4> QED
          BY <2>2, <3>1, <4>2
    <3>4. \A i \in 1 .. L : i <= mid + 1 => Before(list[i], n)
        BY <1>2, <2>2, <2>3, PrefixBefore
    <3>5. Brackets(list, n, v)
        BY <1>1, <1>3, <2>2, <3>2, <3>4 DEF Brackets
    <3>6. v[2] - v[1] \in Nat /\ v[2] - v[1] < w[2] - w[1]
        BY <1>1, <2>2, <3>2
    <3> QED
        BY <1>3, <3>2, <3>3, <3>5, <3>6
  <2>4. CASE ~Before(list[mid + 1], n)
    <3>1. PICK v : v = <<w[1], mid>>
        OBVIOUS
    <3>2. v \in W /\ v[1] = w[1] /\ v[2] = mid
        BY <1>1, <2>2, <3>1
    <3>3. f[w] = f[v]
      <4>1. ~(w[1] >= w[2])
          BY <1>1, <2>1
      <4>2. f[w] = f[<<w[1], Middle(w)>>]
          BY <1>v, <2>2, <2>4, <4>1
      <4> QED
          BY <2>2, <3>1, <4>2
    <3>4. \A i \in 1 .. L : i > mid => ~Before(list[i], n)
      <4> SUFFICES ASSUME NEW i \in 1 .. L, i > mid, Before(list[i], n) PROVE FALSE
          OBVIOUS
      <4>1. mid + 1 <= i
          OBVIOUS
      <4> QED
          BY <1>2, <2>2, <2>4, <4>1, PrefixBefore
    <3>5. Brackets(list, n, v)
        BY <1>1, <1>3, <2>2, <3>2, <3>4 DEF Brackets
    <3>6. v[2] - v[1] \in Nat /\ v[2] - v[1] < w[2] - w[1]
        BY <1>1, <2>2, <3>2
    <3> QED
        BY <1>3, <3>2, <3>3, <3>5, <3>6
  <2> QED
      BY <2>3, <2>4
<1>4. Wrong = {}
  <2> SUFFICES ASSUME Wrong # {} PROVE FALSE
      OBVIOUS
  <2>1. PICK k \in Wrong : \A j \in Wrong : k <= j
    <3>1. Wrong \subseteq Nat
        OBVIOUS
    <3> HIDE DEF Wrong
    <3> QED
        BY <3>1, LeastMember
  <2>2. PICK w \in W : w[2] - w[1] = k /\ Brackets(list, n, w) /\ ~Separates(list, n, f[w])
      OBVIOUS
  <2> HIDE DEF W
  <2>3. PICK v \in W : /\ v[2] - v[1] \in Nat /\ v[2] - v[1] < k
                       /\ Brackets(list, n, v) /\ ~Separates(list, n, f[v])
      BY <1>3, <2>2
  <2>4. v[2] - v[1] \in Wrong
      BY <2>3
  <2>5. k \in Nat
      OBVIOUS
  <2> HIDE DEF Wrong
  <2> QED
      BY <2>1, <2>3, <2>4, <2>5
<1>5. PICK w : w = <<0, L>>
    OBVIOUS
<1>6. w \in W /\ w[1] = 0 /\ w[2] = L
    BY <1>5
<1>7. Brackets(list, n, w)
    BY <1>6 DEF Brackets
<1>8. w[2] - w[1] \in Nat /\ w[2] - w[1] \notin Wrong
    BY <1>4, <1>6
<1> HIDE DEF W
<1> QED
    BY <1>5, <1>6, <1>7, <1>8

\* The binary search of insertSorted finds the place of n in a list in order.
LEMMA SearchFinds ==
  ASSUME GraphOk, NEW list \in Seq(Labels), Ascending(list), NEW n \in Labels,
         n \notin ToSet(list)
  PROVE  \E p \in 0 .. Len(list) :
           /\ InsertSorted(list, n) = InsertAt(list, p + 1, n)
           /\ \A i \in 1 .. Len(list) : IF i <= p THEN Before(list[i], n) ELSE Before(n, list[i])
<1>1. PICK L \in Nat : L = Len(list) /\ DOMAIN list = 1 .. L
    OBVIOUS
<1>2. PICK f : /\ f = SearchFrom(f, list, n, L)
               /\ InsertSorted(list, n) = InsertAt(list, f[<<0, L>>] + 1, n)
  <2>1. PICK f : /\ f = CHOOSE g : g = SearchFrom(g, list, n, L)
                 /\ InsertSorted(list, n) = InsertAt(list, f[<<0, L>>] + 1, n)
      BY <1>1 DEF InsertSorted, Middle, SearchFrom
  <2>2. \E g : g = SearchFrom(g, list, n, L)
      BY SearchExists
  <2> QED
      BY <2>1, <2>2
<1>4. Separates(list, n, f[<<0, L>>])
    BY <1>1, <1>2, SearchRight
<1>5. PICK p : p = f[<<0, L>>]
    OBVIOUS
<1>6. /\ p \in 0 .. L /\ InsertSorted(list, n) = InsertAt(list, p + 1, n)
      /\ \A i \in 1 .. L : Before(list[i], n) <=> i <= p
    BY <1>1, <1>2, <1>4, <1>5 DEF Separates
<1>7. \A i \in 1 .. L : ~Before(list[i], n) => Before(n, list[i])
  <2> TAKE i \in 1 .. L
  <2>1. list[i] \in Labels /\ list[i] # n
      BY <1>1 DEF ToSet
  <2> QED
      BY <2>1, BeforeIsOrder
<1> QED
    BY <1>1, <1>6, <1>7

\* insertSorted keeps a list in order and adds the node to it.
LEMMA InsertSortedIs ==
  ASSUME GraphOk, NEW list \in Seq(Labels), Ascending(list), NEW n \in Labels,
         n \notin ToSet(list), NEW s, s = InsertSorted(list, n)
  PROVE  s \in Seq(Labels) /\ Ascending(s) /\ ToSet(s) = ToSet(list) \cup {n}
<1>1. PICK p \in 0 .. Len(list) :
        /\ s = InsertAt(list, p + 1, n)
        /\ \A i \in 1 .. Len(list) : IF i <= p THEN Before(list[i], n) ELSE Before(n, list[i])
    BY SearchFinds
<1>2. PICK L \in Nat : L = Len(list) /\ DOMAIN list = 1 .. L
    OBVIOUS
<1>3. /\ s \in Seq(Labels) /\ Len(s) = L + 1 /\ DOMAIN s = 1 .. L + 1
      /\ \A k \in 1 .. p : s[k] = list[k]
      /\ s[p + 1] = n
      /\ \A k \in p + 2 .. L + 1 : s[k] = list[k - 1]
  <2>1. PICK q \in 1 .. Len(list) + 1 : q = p + 1 /\ s = InsertAt(list, q, n)
      BY <1>1
  <2>2. /\ s \in Seq(Labels) /\ Len(s) = Len(list) + 1
        /\ \A k \in 1 .. q - 1 : s[k] = list[k]
        /\ s[q] = n
        /\ \A k \in q + 1 .. Len(list) + 1 : s[k] = list[k - 1]
    <3>1. /\ InsertAt(list, q, n) \in Seq(Labels) /\ Len(InsertAt(list, q, n)) = Len(list) + 1
          /\ \A k \in 1 .. q - 1 : InsertAt(list, q, n)[k] = list[k]
          /\ InsertAt(list, q, n)[q] = n
          /\ \A k \in q + 1 .. Len(list) + 1 : InsertAt(list, q, n)[k] = list[k - 1]
        BY InsertAtIs
    <3> QED
        BY <2>1, <3>1
  <2>3. DOMAIN s = 1 .. Len(s)
      BY <2>2
  <2> QED
      BY <1>2, <2>1, <2>2, <2>3
<1>4. Ascending(s)
  <2> SUFFICES ASSUME NEW i \in 1 .. L + 1, NEW j \in 1 .. L + 1, i < j PROVE Before(s[i], s[j])
      BY <1>3 DEF Ascending
  <2>1. CASE j <= p \/ (i <= p /\ j > p + 1) \/ i > p + 1
    <3>1. PICK a \in 1 .. L, b \in 1 .. L : a < b /\ s[i] = list[a] /\ s[j] = list[b]
      <4>1. CASE j <= p
          BY <1>2, <1>3, <4>1
      <4>2. CASE i <= p /\ j > p + 1
          BY <1>2, <1>3, <4>2
      <4>3. CASE i > p + 1
        <5>1. /\ i - 1 \in 1 .. L /\ j - 1 \in 1 .. L /\ i - 1 < j - 1
              /\ s[i] = list[i - 1] /\ s[j] = list[j - 1]
            BY <1>2, <1>3, <4>3
        <5> QED
            BY <5>1
      <4> QED
          BY <2>1, <4>1, <4>2, <4>3
    <3> QED
        BY <1>2, <3>1 DEF Ascending
  <2>2. CASE i <= p /\ j = p + 1
      BY <1>1, <1>2, <1>3, <2>2
  <2>3. CASE i = p + 1 /\ j > p + 1
      BY <1>1, <1>2, <1>3, <2>3
  <2> QED
      BY <2>1, <2>2, <2>3
<1>5. ToSet(s) = ToSet(list) \cup {n}
  <2>1. \A k \in 1 .. L + 1 : s[k] = n \/ \E i \in 1 .. L : s[k] = list[i]
      BY <1>2, <1>3
  <2>2. \A i \in 1 .. L : \E k \in 1 .. L + 1 : s[k] = list[i]
    <3> TAKE i \in 1 .. L
    <3>1. CASE i <= p
        BY <1>3, <3>1
    <3>2. CASE i > p
      <4>1. i + 1 \in 1 .. L + 1 /\ s[i + 1] = list[i]
          BY <1>3, <3>2
      <4> QED
          BY <4>1
    <3> QED
        BY <3>1, <3>2
  <2>3. p + 1 \in 1 .. L + 1 /\ s[p + 1] = n
      BY <1>2, <1>3
  <2>4. ToSet(s) = {s[k] : k \in 1 .. L + 1} /\ ToSet(list) = {list[i] : i \in 1 .. L}
      BY <1>2, <1>3 DEF ToSet
  <2> QED
      BY <2>1, <2>2, <2>3, <2>4
<1> QED
    BY <1>3, <1>4, <1>5

-----------------------------------------------------------------------------
(* Folds *)

\* The greatest of some positions of a sequence.
LEMMA MaxIs ==
  ASSUME NEW k \in Nat, NEW t \in SUBSET (1 .. k), t # {}
  PROVE  Max(t) \in t /\ \A j \in t : j <= Max(t)
<1>1. PICK S : S = {k - i : i \in t}
    OBVIOUS
<1>2. S \subseteq Nat /\ S # {}
  <2>1. \A i \in t : i \in 1 .. k
      OBVIOUS
  <2>2. \A i \in t : k - i \in Nat
      BY <2>1
  <2>3. \E i \in t : TRUE
      OBVIOUS
  <2> QED
      BY <1>1, <2>2, <2>3
<1>3. PICK d \in S : \A e \in S : d <= e
    BY <1>2, LeastMember
<1>4. PICK i \in t : d = k - i
    BY <1>1, <1>3
<1>5. \A j \in t : i >= j
  <2> TAKE j \in t
  <2>1. k - i <= k - j
      BY <1>1, <1>3, <1>4
  <2> QED
      BY <2>1
<1>6. Max(t) \in t /\ \A j \in t : Max(t) >= j
    BY <1>5 DEF Max
<1> QED
    BY <1>6

\* Positions without the greatest.
LEMMA WithoutMax ==
  ASSUME NEW k \in Nat, NEW t \in SUBSET (1 .. k)
  PROVE  /\ IsFiniteSet(t) /\ Cardinality(t) \in 0 .. k /\ (Cardinality(t) = 0 <=> t = {})
         /\ t \ {Max(t)} \in SUBSET (1 .. k)
         /\ t # {} => Cardinality(t \ {Max(t)}) = Cardinality(t) - 1
<1>1. IsFiniteSet(1 .. k) /\ Cardinality(1 .. k) = k
    BY FS_Interval
<1>2. IsFiniteSet(t) /\ Cardinality(t) <= k /\ Cardinality(t) \in Nat
    BY <1>1, FS_Subset, FS_CardinalityType
<1>3. Cardinality(t) = 0 <=> t = {}
    BY <1>2, FS_EmptySet
<1>4. t # {} => Cardinality(t \ {Max(t)}) = Cardinality(t) - 1
    BY <1>2, MaxIs, FS_RemoveElement
<1>5. t \ {Max(t)} \in SUBSET (1 .. k)
    OBVIOUS
<1>6. Cardinality(t) \in 0 .. k
    BY <1>2
<1> QED
    BY <1>2, <1>3, <1>4, <1>5, <1>6

\* The fold of insertSorted over s, at the positions t.
Inserting(f, list, s) ==
  [t \in SUBSET (DOMAIN s) |->
     IF t = {} THEN list ELSE InsertSorted(f[t \ {Max(t)}], s[Max(t)])]
\* Its equation, where an insertion gives a list.
Inserts(f, list, s) ==
  /\ f[{}] = list
  /\ \A t \in SUBSET (DOMAIN s) :
       t # {} /\ InsertSorted(f[t \ {Max(t)}], s[Max(t)]) \in Seq(Labels) =>
         f[t] = InsertSorted(f[t \ {Max(t)}], s[Max(t)])
\* The nodes at the positions t.
At(s, t) == {s[i] : i \in t}
\* What the fold has come to at t.
Inserted(v, list, s, t) ==
  v \in Seq(Labels) /\ Ascending(v) /\ ToSet(v) = ToSet(list) \cup At(s, t)

\* Whatever satisfies that equation inserts.
LEMMA InsertsRight ==
  ASSUME GraphOk, NEW list \in Seq(Labels), Ascending(list), NEW s \in Seq(Labels),
         IsInjective(s), ToSet(s) \cap ToSet(list) = {}, NEW f, Inserts(f, list, s)
  PROVE  \A t \in SUBSET (DOMAIN s) : Inserted(f[t], list, s, t)
<1>1. PICK k \in Nat : k = Len(s) /\ DOMAIN s = 1 .. k
    OBVIOUS
<1>2. ASSUME NEW t \in SUBSET (1 .. k), ~Inserted(f[t], list, s, t)
      PROVE  /\ t # {} /\ t \ {Max(t)} \in SUBSET (1 .. k)
             /\ ~Inserted(f[t \ {Max(t)}], list, s, t \ {Max(t)})
  <2>1. t # {}
    <3> SUFFICES ASSUME t = {} PROVE FALSE
        OBVIOUS
    <3>1. f[t] = list /\ At(s, t) = {}
        BY DEF Inserts, At
    <3> QED
        BY <1>2, <3>1 DEF Inserted
  <2>2. PICK x : x = Max(t)
      OBVIOUS
  <2>3. x \in t /\ t \ {x} \in SUBSET (1 .. k)
      BY <2>1, <2>2, MaxIs
  <2>4. ASSUME Inserted(f[t \ {x}], list, s, t \ {x}) PROVE FALSE
    <3>1. s[x] \in Labels /\ s[x] \notin ToSet(list) /\ s[x] \notin At(s, t \ {x})
      <4>1. s[x] \in Labels /\ s[x] \in ToSet(s)
          BY <1>1, <2>3 DEF ToSet
      <4>2. \A i \in t \ {x} : s[i] # s[x]
          BY <1>1, <2>3 DEF IsInjective
      <4> QED
          BY <4>1, <4>2 DEF At
    <3>2. PICK u, v : u = f[t \ {x}] /\ v = InsertSorted(u, s[x])
        OBVIOUS
    <3>3. u \in Seq(Labels) /\ Ascending(u) /\ ToSet(u) = ToSet(list) \cup At(s, t \ {x})
        BY <2>4, <3>2 DEF Inserted
    <3>4. v \in Seq(Labels) /\ Ascending(v) /\ ToSet(v) = ToSet(u) \cup {s[x]}
        BY <3>1, <3>2, <3>3, InsertSortedIs
    <3>5. f[t] = v
        BY <1>1, <2>1, <2>2, <3>2, <3>4 DEF Inserts
    <3>6. At(s, t) = At(s, t \ {x}) \cup {s[x]}
        BY <2>3 DEF At
    <3> QED
        BY <1>2, <3>3, <3>4, <3>5, <3>6 DEF Inserted
  <2> QED
      BY <2>1, <2>2, <2>3, <2>4
<1> DEFINE Wrong == {c \in Nat : \E t \in SUBSET (1 .. k) : Cardinality(t) = c /\ ~Inserted(f[t], list, s, t)}
<1>3. Wrong = {}
  <2> SUFFICES ASSUME Wrong # {} PROVE FALSE
      OBVIOUS
  <2>1. PICK c \in Wrong : \A d \in Wrong : c <= d
    <3>1. Wrong \subseteq Nat
        OBVIOUS
    <3> HIDE DEF Wrong
    <3> QED
        BY <3>1, LeastMember
  <2>2. PICK t \in SUBSET (1 .. k) : Cardinality(t) = c /\ ~Inserted(f[t], list, s, t)
      OBVIOUS
  <2>3. PICK u : u = t \ {Max(t)}
      OBVIOUS
  <2>4. t # {} /\ u \in SUBSET (1 .. k) /\ ~Inserted(f[u], list, s, u)
      BY <1>2, <2>2, <2>3
  <2>5. c \in Nat /\ Cardinality(u) \in Nat /\ Cardinality(u) = c - 1
    <3>1. u \in SUBSET (1 .. k) /\ t \in SUBSET (1 .. k)
        BY <2>4
    <3>2. Cardinality(u) \in 0 .. k /\ Cardinality(t) \in 0 .. k
        BY <3>1, WithoutMax
    <3>3. Cardinality(t \ {Max(t)}) = Cardinality(t) - 1
        BY <2>4, WithoutMax
    <3> QED
        BY <2>2, <2>3, <3>2, <3>3
  <2>6. Cardinality(u) \in Wrong
      BY <2>4, <2>5
  <2> HIDE DEF Wrong
  <2> QED
      BY <2>1, <2>5, <2>6
<1>4. ASSUME NEW t \in SUBSET (1 .. k) PROVE Inserted(f[t], list, s, t)
  <2>1. Cardinality(t) \in 0 .. k
      BY WithoutMax
  <2>2. Cardinality(t) \in Nat
      BY <2>1
  <2> QED
      BY <1>3, <2>2
<1> QED
    BY <1>1, <1>4

\* The fold exists.
LEMMA InsertingExists ==
  ASSUME GraphOk, NEW list \in Seq(Labels), Ascending(list), NEW s \in Seq(Labels),
         IsInjective(s), ToSet(s) \cap ToSet(list) = {}
  PROVE  \E f : f = Inserting(f, list, s)
<1>1. PICK k \in Nat : k = Len(s) /\ DOMAIN s = 1 .. k
    OBVIOUS
<1>2. PICK V : V = Seq(Labels)
    OBVIOUS
<1> DEFINE W == SUBSET (1 .. k)
           m == [t \in W |-> Cardinality(t)]
           next == [t \in W |-> t \ {Max(t)}]
           base == [t \in W |-> list]
           After(t, v) == InsertSorted(v, s[Max(t)])
           G == [z \in W \X V |-> IF After(z[1], z[2]) \in V THEN After(z[1], z[2]) ELSE list]
<1>3. m \in [W -> Nat] /\ \A t \in W : m[t] < k + 1
  <2>1. \A t \in W : Cardinality(t) \in 0 .. k
      BY WithoutMax
  <2> QED
      BY <2>1
<1>4. next \in [W -> W]
    OBVIOUS
<1>5. base \in [W -> V] /\ G \in [W \X V -> V]
  <2> HIDE DEF W, After
  <2> QED
      BY <1>2
<1>6. \A t \in W : m[t] # 0 => m[next[t]] < m[t]
  <2> TAKE t \in W
  <2>0. t \ {Max(t)} \in W /\ Cardinality(t) \in 0 .. k
      BY WithoutMax
  <2>1. t \ {Max(t)} \in W /\ Cardinality(t) \in Nat
      BY <2>0
  <2>2. Cardinality(t) # 0 => Cardinality(t \ {Max(t)}) = Cardinality(t) - 1
      BY WithoutMax
  <2>3. m[next[t]] = Cardinality(t \ {Max(t)})
      BY <2>1
  <2> HIDE DEF W
  <2> QED
      BY <2>1, <2>2, <2>3
<1>7. PICK f \in [W -> V] : Recursion(f, W, m, next, base, G)
  <2>1. PICK bound \in Nat : bound = k + 1
      OBVIOUS
  <2>2. \A t \in W : m[t] < bound
      BY <1>3, <2>1
  <2> HIDE DEF m, next, base, G, W
  <2> QED
      BY <1>3, <1>4, <1>5, <1>6, <2>2, RecursionExists
<1>8. \A t \in W : m[t] = 0 <=> t = {}
  <2>1. \A t \in W : Cardinality(t) = 0 <=> t = {}
      BY WithoutMax
  <2> HIDE DEF W
  <2> QED
      BY <2>1
<1>9. ASSUME NEW t \in W
      PROVE  /\ t = {} => f[t] = list
             /\ t # {} /\ After(t, f[t \ {Max(t)}]) \in V => f[t] = After(t, f[t \ {Max(t)}])
  <2>1. t \ {Max(t)} \in W /\ f[t \ {Max(t)}] \in V
      BY <1>7
  <2> HIDE DEF After, W
  <2>2. next[t] = t \ {Max(t)} /\ base[t] = list
      BY <2>1
  <2>3. m[t] = 0 => f[t] = base[t]
    <3> HIDE DEF m, next, base, G
    <3> QED
        BY <1>7 DEF Recursion
  <2>4. m[t] # 0 => f[t] = G[<<t, f[next[t]]>>]
    <3> HIDE DEF m, next, base, G
    <3> QED
        BY <1>7 DEF Recursion
  <2>5. \A v \in V : After(t, v) \in V => G[<<t, v>>] = After(t, v)
      OBVIOUS
  <2> HIDE DEF m, next, base, G
  <2> QED
      BY <1>8, <2>1, <2>2, <2>3, <2>4, <2>5
<1>10. Inserts(f, list, s)
  <2>1. {} \in W
      OBVIOUS
  <2> HIDE DEF W
  <2>2. f[{}] = list
      BY <1>9, <2>1
  <2>3. \A t \in W : t # {} /\ After(t, f[t \ {Max(t)}]) \in V => f[t] = After(t, f[t \ {Max(t)}])
      BY <1>9
  <2> QED
      BY <1>1, <1>2, <2>2, <2>3 DEF Inserts, W
<1>11. \A t \in W : Inserted(f[t], list, s, t)
    BY <1>1, <1>10, InsertsRight
<1>12. ASSUME NEW t \in W, t # {} PROVE f[t] = After(t, f[t \ {Max(t)}])
  <2>1. PICK x : x = Max(t)
      OBVIOUS
  <2>2. x \in t /\ t \ {x} \in W
      BY <1>12, <2>1, MaxIs
  <2>3. PICK u : u = f[t \ {x}]
      OBVIOUS
  <2>4. u \in Seq(Labels) /\ Ascending(u) /\ ToSet(u) = ToSet(list) \cup At(s, t \ {x})
      BY <1>11, <2>2, <2>3 DEF Inserted
  <2>5. s[x] \in Labels /\ s[x] \notin ToSet(u)
    <3>1. s[x] \in Labels /\ s[x] \in ToSet(s)
        BY <1>1, <2>2 DEF ToSet
    <3>2. \A i \in t \ {x} : s[i] # s[x]
        BY <1>1, <2>2 DEF IsInjective
    <3> QED
        BY <2>4, <3>1, <3>2 DEF At
  <2>6. InsertSorted(u, s[x]) \in Seq(Labels)
      BY <2>4, <2>5, InsertSortedIs
  <2>7. After(t, f[t \ {Max(t)}]) \in V
      BY <1>2, <2>1, <2>3, <2>6
  <2> HIDE DEF W, After
  <2> QED
      BY <1>9, <1>12, <2>7
<1> DEFINE Value(t) == IF t = {} THEN list ELSE InsertSorted(f[t \ {Max(t)}], s[Max(t)])
<1>13. \A t \in W : f[t] = Value(t)
    BY <1>9, <1>12
<1>14. f = [t \in W |-> Value(t)]
  <2> HIDE DEF W, Value
  <2> QED
      BY <1>7, <1>13
<1>15. Inserting(f, list, s) = [t \in W |-> Value(t)]
    BY <1>1 DEF Inserting
<1> HIDE DEF W, Value
<1> QED
    BY <1>14, <1>15

\* The fold of insertSorted merges s into the list.
LEMMA FoldInserts ==
  ASSUME GraphOk, NEW list \in Seq(Labels), Ascending(list), NEW s \in Seq(Labels),
         IsInjective(s), ToSet(s) \cap ToSet(list) = {}
  PROVE  /\ FoldLeft(InsertSorted, list, s) \in Seq(Labels)
         /\ Ascending(FoldLeft(InsertSorted, list, s))
         /\ ToSet(FoldLeft(InsertSorted, list, s)) = ToSet(list) \cup ToSet(s)
<1>1. PICK f : /\ f = CHOOSE g : g = Inserting(g, list, s)
               /\ FoldLeft(InsertSorted, list, s) = f[DOMAIN s]
    BY DEF FoldLeft, MapThenFoldSet, Inserting
<1>2. f = Inserting(f, list, s)
    BY <1>1, InsertingExists
<1>3. \A t \in SUBSET (DOMAIN s) :
        f[t] = IF t = {} THEN list ELSE InsertSorted(f[t \ {Max(t)}], s[Max(t)])
    BY <1>2 DEF Inserting
<1>4. Inserts(f, list, s)
  <2>1. f[{}] = list
      BY <1>3
  <2>2. \A t \in SUBSET (DOMAIN s) : t # {} => f[t] = InsertSorted(f[t \ {Max(t)}], s[Max(t)])
      BY <1>3
  <2> QED
      BY <2>1, <2>2 DEF Inserts
<1>5. DOMAIN s \in SUBSET (DOMAIN s)
    OBVIOUS
<1>6. Inserted(f[DOMAIN s], list, s, DOMAIN s)
    BY <1>4, <1>5, InsertsRight
<1>7. At(s, DOMAIN s) = ToSet(s)
    BY DEF At, ToSet
<1> QED
    BY <1>1, <1>6, <1>7 DEF Inserted

-----------------------------------------------------------------------------
(* The invariant *)

\* The nodes before a place of a list.
Earlier(list, j) == {list[i] : i \in 1 .. j - 1}

\* The variables, and where a behaviour begins.
Shape ==
  /\ phase \in {"new", "sorting", "model", "refused"}
  /\ order \in Seq(Labels) /\ ready \in Seq(Rest) /\ pending \in [Rest -> Nat]
  /\ phase = "new" => order = <<>> /\ ready = <<>> /\ cycles = <<>>

\* Every node is emitted at most once, and the extensions are before all others.
OrderExact ==
  /\ IsInjective(order) /\ Cardinality(Extensions) <= Len(order)
  /\ \A j \in DOMAIN order : order[j] \in Extensions <=> j <= Cardinality(Extensions)

\* The counters and the list say what they stand for.
ListExact ==
  /\ Extensions \subseteq emitted
  /\ \A n \in Rest : pending[n] = Cardinality(deps[n] \ emitted)
  /\ ToSet(ready) = {n \in Rest \ emitted : deps[n] \subseteq emitted}
  /\ Ascending(ready)

\* What was emitted came before everything else that waited for nothing then.
Greedy ==
  \A j \in DOMAIN order : \A n \in Rest \ Earlier(order, j) :
    j > Cardinality(Extensions) /\ deps[n] \subseteq Earlier(order, j) =>
      n = order[j] \/ Before(order[j], n)

\* A node precedes a dependency only as the first of a cycle that was named.
Excused ==
  \A j \in DOMAIN order : order[j] \in Rest /\ ~(deps[order[j]] \subseteq Earlier(order, j)) =>
    \E c \in DOMAIN cycles : cycles[c][1] = order[j]

\* A list of nodes, each of which needs the next and the last the first.
Cycle(list) ==
  /\ list \in Seq(Rest) /\ list # <<>> /\ IsInjective(list)
  /\ \A i \in DOMAIN list : list[(i % Len(list)) + 1] \in deps[list[i]]

\* The cycles named are cycles, broken at their first nodes one after the other.
CyclesOk ==
  /\ cycles \in Seq(Seq(Rest))
  /\ \A c \in DOMAIN cycles :
       /\ Cycle(cycles[c]) /\ cycles[c][1] \in emitted
       /\ \A b \in 1 .. c - 1 : cycles[b][1] \notin ToSet(cycles[c])

\* How a behaviour ends.
Ended ==
  /\ phase = "model" => cycles = <<>> /\ emitted = Labels
  /\ phase = "refused" => cycles # <<>>

SortInv ==
  /\ GraphOk /\ Shape
  /\ phase # "new" => OrderExact /\ ListExact
  /\ Greedy /\ Excused /\ CyclesOk /\ Ended

-----------------------------------------------------------------------------
(* The cycle *)

\* Each node of R still needs nodes, all of them of R.
Stuck(R) ==
  R \subseteq Rest /\ \A n \in R : deps[n] \ emitted # {} /\ deps[n] \ emitted \subseteq R

\* The equation of the walk of k steps.
WalkFrom(f, s, k) ==
  [i \in 0 .. k |-> IF i = 0 THEN s ELSE Least(deps[f[i - 1]] \ emitted)]

\* The recursive function of the walk exists.
LEMMA WalkExists ==
  ASSUME GraphOk, NEW R, Stuck(R), NEW s \in R, NEW k \in Nat
  PROVE  \E f : f = WalkFrom(f, s, k)
<1> DEFINE W == 0 .. k
           m == [i \in W |-> i]
           next == [i \in W |-> IF i = 0 THEN 0 ELSE i - 1]
           base == [i \in W |-> s]
           Needs(v) == Least(deps[v] \ emitted)
           G == [z \in W \X R |-> Needs(z[2])]
<1>1. \A v \in R : Needs(v) \in R
  <2> TAKE v \in R
  <2>1. deps[v] \ emitted # {} /\ deps[v] \ emitted \subseteq R /\ R \subseteq Labels
      BY GraphIs DEF Stuck
  <2>2. deps[v] \ emitted \in SUBSET Labels
      BY <2>1
  <2>3. Least(deps[v] \ emitted) \in deps[v] \ emitted
      BY <2>1, <2>2, LeastIs
  <2> QED
      BY <2>1, <2>3
<1>2. m \in [W -> Nat] /\ \A i \in W : m[i] < k + 1
    OBVIOUS
<1>3. next \in [W -> W] /\ base \in [W -> R]
    OBVIOUS
<1>4. G \in [W \X R -> R]
  <2> HIDE DEF W, Needs
  <2> QED
      BY <1>1
<1>5. \A i \in W : m[i] # 0 => m[next[i]] < m[i]
    OBVIOUS
<1>6. PICK f \in [W -> R] : Recursion(f, W, m, next, base, G)
  <2>1. PICK bound \in Nat : bound = k + 1
      OBVIOUS
  <2>2. \A i \in W : m[i] < bound
      BY <1>2, <2>1
  <2> HIDE DEF m, next, base, G, W
  <2> QED
      BY <1>2, <1>3, <1>4, <1>5, <2>2, RecursionExists
<1> DEFINE Value(i) == IF i = 0 THEN s ELSE Needs(f[i - 1])
<1>7. ASSUME NEW i \in W PROVE f[i] = Value(i)
  <2>1. m[i] = i /\ base[i] = s /\ next[i] \in W /\ (i # 0 => next[i] = i - 1)
      OBVIOUS
  <2>2. (m[i] = 0 => f[i] = base[i]) /\ (m[i] # 0 => f[i] = G[<<i, f[next[i]]>>])
    <3> HIDE DEF m, next, base, G, W
    <3> QED
        BY <1>6 DEF Recursion
  <2>3. G[<<i, f[next[i]]>>] = Needs(f[next[i]])
    <3> HIDE DEF W, m, next, base, Needs
    <3> QED
        BY <1>6, <2>1
  <2> HIDE DEF m, next, base, G, W, Needs
  <2> QED
      BY <2>1, <2>2, <2>3
<1>8. f = [i \in W |-> Value(i)]
  <2> HIDE DEF Value, W
  <2> QED
      BY <1>6, <1>7
<1>9. WalkFrom(f, s, k) = [i \in W |-> Value(i)]
    BY DEF WalkFrom
<1> HIDE DEF Value, W
<1> QED
    BY <1>8, <1>9

\* The walk stays in R and goes along the dependencies.
LEMMA WalkIs ==
  ASSUME GraphOk, NEW R, Stuck(R), NEW s \in R, NEW k \in Nat, k = Cardinality(Labels)
  PROVE  /\ Walk(s) \in [0 .. k -> R]
         /\ \A i \in 1 .. k : Walk(s)[i] \in deps[Walk(s)[i - 1]]
<1>1. PICK f : f = Walk(s) /\ f = WalkFrom(f, s, k)
  <2>1. Walk(s) = CHOOSE f : f = WalkFrom(f, s, k)
      BY DEF Walk, WalkFrom
  <2> QED
      BY <2>1, WalkExists
<1>2. /\ DOMAIN f = 0 .. k /\ f[0] = s
      /\ \A i \in 1 .. k : f[i] = Least(deps[f[i - 1]] \ emitted)
      /\ f = [i \in 0 .. k |-> f[i]]
  <2>1. f = [i \in 0 .. k |-> IF i = 0 THEN s ELSE Least(deps[f[i - 1]] \ emitted)]
      BY <1>1 DEF WalkFrom
  <2>2. DOMAIN f = 0 .. k
      BY <2>1
  <2>3. 0 \in 0 .. k /\ f[0] = s
      BY <2>1
  <2>4. ASSUME NEW i \in 1 .. k PROVE f[i] = Least(deps[f[i - 1]] \ emitted)
    <3>1. i \in 0 .. k /\ i # 0
        OBVIOUS
    <3> QED
        BY <2>1, <3>1
  <2>5. f = [i \in 0 .. k |-> f[i]]
      BY <2>1, <2>2
  <2> QED
      BY <2>2, <2>3, <2>4, <2>5
<1>3. ASSUME NEW i \in 1 .. k, f[i - 1] \in R PROVE f[i] \in R /\ f[i] \in deps[f[i - 1]]
  <2>1. PICK D : D = deps[f[i - 1]] \ emitted
      OBVIOUS
  <2>2. D # {} /\ D \subseteq R /\ D \in SUBSET Labels
      BY <1>3, <2>1, GraphIs DEF Stuck
  <2>3. Least(D) \in D
      BY <2>2, LeastIs
  <2> QED
      BY <1>2, <2>1, <2>2, <2>3
<1>4. PICK S : S = {i \in 0 .. k : f[i] \notin R}
    OBVIOUS
<1>5. S = {}
  <2> SUFFICES ASSUME S # {} PROVE FALSE
      OBVIOUS
  <2>1. S \subseteq Nat
      BY <1>4
  <2>2. PICK i \in S : \A j \in S : i <= j
      BY <2>1, LeastMember
  <2>3. i \in 1 .. k /\ i - 1 \in 0 .. k /\ i - 1 < i
      BY <1>2, <1>4, <2>2
  <2>4. f[i - 1] \in R
      BY <1>4, <2>2, <2>3
  <2> QED
      BY <1>3, <1>4, <2>2, <2>3, <2>4
<1>6. \A i \in 0 .. k : f[i] \in R
    BY <1>4, <1>5
<1>7. f \in [0 .. k -> R]
    BY <1>2, <1>6, Zenon
<1>8. \A i \in 1 .. k : f[i] \in deps[f[i - 1]]
  <2> TAKE i \in 1 .. k
  <2>1. i - 1 \in 0 .. k
      OBVIOUS
  <2> QED
      BY <1>3, <1>6, <2>1
<1> QED
    BY <1>1, <1>7, <1>8

\* A walk that closes at j for the first time, where it was at i.
Closes(path, i, j) ==
  /\ i \in 0 .. j - 1 /\ path[i] = path[j]
  /\ \A a, b \in 0 .. j - 1 : path[a] = path[b] => a = b

\* A walk of more steps than there are nodes closes.
LEMMA LoopIs ==
  ASSUME NEW k \in Nat, NEW R, IsFiniteSet(R), Cardinality(R) <= k, NEW path \in [0 .. k -> R]
  PROVE  \E i, j \in 0 .. k : /\ Closes(path, i, j)
                              /\ Loop(path) = [n \in 1 .. j - i |-> path[i + n - 1]]
<1> DEFINE Again(j) == \E i \in 0 .. j - 1 : path[i] = path[j]
           First(j) == /\ Again(j)
                       /\ \A b \in 0 .. j - 1, a \in 0 .. j - 1 : a < b => path[a] # path[b]
<1>1. \E j \in 0 .. k : Again(j)
  <2>1. IsFiniteSet(0 .. k) /\ Cardinality(0 .. k) = k + 1
      BY FS_Interval
  <2>2. Cardinality(R) \in Nat
      BY FS_CardinalityType
  <2>3. \E x, y \in 0 .. k : x # y /\ path[x] = path[y]
      BY <2>1, <2>2, FS_PigeonHole
  <2> QED
      BY <2>3
<1>2. PICK J : J = {j \in 0 .. k : Again(j)}
    OBVIOUS
<1>3. PICK j \in J : \A l \in J : j <= l
  <2>1. J \subseteq Nat /\ J # {}
      BY <1>1, <1>2
  <2> QED
      BY <2>1, LeastMember
<1>4. First(j) /\ j \in 0 .. k
  <2>1. j \in 0 .. k /\ Again(j)
      BY <1>2, <1>3
  <2>2. ASSUME NEW b \in 0 .. j - 1, NEW a \in 0 .. j - 1, a < b, path[a] = path[b] PROVE FALSE
    <3>1. b \in 0 .. k /\ a \in 0 .. b - 1 /\ b < j
        BY <2>1, <2>2
    <3>2. b \in J
        BY <1>2, <2>2, <3>1
    <3> QED
        BY <1>3, <2>1, <3>1, <3>2
  <2> QED
      BY <2>1, <2>2
<1>5. PICK c : c = CHOOSE l \in DOMAIN path : First(l)
    OBVIOUS
<1>6. c \in 0 .. k /\ First(c)
  <2>1. j \in DOMAIN path
      BY <1>4
  <2> HIDE DEF First
  <2>2. c \in DOMAIN path /\ First(c)
      BY <1>4, <1>5, <2>1
  <2> QED
      BY <2>2
<1>7. PICK i : i = CHOOSE l \in 0 .. c - 1 : path[l] = path[c]
    OBVIOUS
<1>8. i \in 0 .. c - 1 /\ path[i] = path[c]
    BY <1>6, <1>7
<1>9. Loop(path) = [n \in 1 .. c - i |-> path[i + n - 1]]
    BY <1>5, <1>7 DEF Loop
<1>10. Closes(path, i, c)
  <2>1. ASSUME NEW a \in 0 .. c - 1, NEW b \in 0 .. c - 1, path[a] = path[b] PROVE a = b
    <3>1. ~(a < b) /\ ~(b < a)
        BY <1>6, <2>1
    <3> QED
        BY <1>6, <3>1
  <2> QED
      BY <1>8, <2>1 DEF Closes
<1>11. i \in 0 .. k
    BY <1>6, <1>8
<1> QED
    BY <1>6, <1>9, <1>10, <1>11

\* A list of L nodes of R, each of which needs the next and the last the first.
Ring(list, L, R) ==
  /\ list \in Seq(R) /\ Len(list) = L /\ L \in Nat \ {0}
  /\ \A i, j \in 1 .. L : list[i] = list[j] => i = j
  /\ \A i \in 1 .. L - 1 : list[i + 1] \in deps[list[i]]
  /\ list[1] \in deps[list[L]]

\* The part of the walk that closes is a ring.
LEMMA LoopRing ==
  ASSUME NEW k \in Nat, NEW R, IsFiniteSet(R), Cardinality(R) <= k, NEW path \in [0 .. k -> R],
         \A i \in 1 .. k : path[i] \in deps[path[i - 1]]
  PROVE  \E L : Ring(Loop(path), L, R)
<1>1. PICK a \in 0 .. k, c \in 0 .. k :
        Closes(path, a, c) /\ Loop(path) = [n \in 1 .. c - a |-> path[a + n - 1]]
    BY LoopIs
<1>2. PICK L : L = c - a
    OBVIOUS
<1>3. /\ a \in 0 .. c - 1 /\ path[a] = path[c] /\ L \in Nat \ {0} /\ L = c - a /\ a + L = c
      /\ a \in Nat /\ c \in Nat /\ c <= k
    BY <1>1, <1>2 DEF Closes
<1>4. PICK loop : loop = Loop(path) /\ loop = [n \in 1 .. L |-> path[a + n - 1]]
    BY <1>1, <1>2
<1>5. ASSUME NEW n \in 1 .. L
      PROVE  /\ a + n - 1 \in 0 .. c - 1 /\ a + n - 1 \in 0 .. k /\ loop[n] = path[a + n - 1]
             /\ loop[n] \in R
  <2>1. a + n - 1 \in 0 .. c - 1 /\ a + n - 1 \in 0 .. k
      BY <1>3
  <2> QED
      BY <1>4, <2>1
<1>6. loop \in Seq(R) /\ Len(loop) = L
  <2>1. \A n \in 1 .. L : path[a + n - 1] \in R
      BY <1>5
  <2>2. loop \in [1 .. L -> R]
      BY <1>4, <2>1
  <2> QED
      BY <1>3, <2>2
<1>7. ASSUME NEW i \in 1 .. L, NEW j \in 1 .. L, loop[i] = loop[j] PROVE i = j
  <2>1. a + i - 1 = a + j - 1
      BY <1>1, <1>5, <1>7 DEF Closes
  <2> QED
      BY <1>3, <2>1
<1>8. ASSUME NEW i \in 1 .. L - 1 PROVE loop[i + 1] \in deps[loop[i]]
  <2>1. i \in 1 .. L /\ i + 1 \in 1 .. L
      BY <1>3
  <2>2. a + i \in 1 .. k /\ a + (i + 1) - 1 = a + i
      BY <1>3, <1>5, <2>1
  <2>3. loop[i + 1] = path[a + i] /\ loop[i] = path[(a + i) - 1]
    <3>1. loop[i + 1] = path[a + (i + 1) - 1] /\ loop[i] = path[a + i - 1]
        BY <1>5, <2>1
    <3>2. a + i - 1 = (a + i) - 1
        BY <1>3
    <3> QED
        BY <2>2, <3>1, <3>2
  <2> QED
      BY <2>2, <2>3
<1>9. loop[1] \in deps[loop[L]]
  <2>1. 1 \in 1 .. L /\ L \in 1 .. L /\ a + 1 - 1 = a /\ a + L - 1 = c - 1
      BY <1>3
  <2>2. loop[1] = path[a] /\ loop[L] = path[c - 1]
      BY <1>5, <2>1
  <2>3. c \in 1 .. k
      BY <1>3
  <2> QED
      BY <1>3, <2>2, <2>3
<1>10. Ring(loop, L, R)
    BY <1>3, <1>6, <1>7, <1>8, <1>9 DEF Ring
<1> QED
    BY <1>4, <1>10

\* A ring is a cycle.
LEMMA RingCycle ==
  ASSUME NEW list, NEW L, Ring(list, L, Rest)
  PROVE  Cycle(list)
<1>1. /\ list \in Seq(Rest) /\ Len(list) = L /\ L \in Nat \ {0} /\ DOMAIN list = 1 .. L
      /\ \A i \in 1 .. L - 1 : list[i + 1] \in deps[list[i]]
      /\ list[1] \in deps[list[L]]
    BY DEF Ring
<1>2. list # <<>>
    BY <1>1
<1>3. IsInjective(list)
    BY <1>1 DEF IsInjective, Ring
<1>4. ASSUME NEW i \in 1 .. L PROVE list[(i % L) + 1] \in deps[list[i]]
  <2>1. CASE i = L
    <3>1. L % L = 0
        BY <1>1
    <3> QED
        BY <1>1, <2>1, <3>1
  <2>2. CASE i # L
    <3>1. i \in 1 .. L - 1 /\ i % L = i
        BY <1>1, <2>2
    <3> QED
        BY <1>1, <3>1
  <2> QED
      BY <2>1, <2>2
<1> QED
    BY <1>1, <1>2, <1>3, <1>4 DEF Cycle

\* A ring from one of its places is a ring.
LEMMA RingTurned ==
  ASSUME NEW R, NEW list, NEW L, Ring(list, L, R), NEW first \in 1 .. L
  PROVE  Ring(SubSeq(list, first, Len(list)) \o SubSeq(list, 1, first - 1), L, R)
<1>1. /\ list \in Seq(R) /\ Len(list) = L /\ L \in Nat \ {0}
      /\ \A i, j \in 1 .. L : list[i] = list[j] => i = j
      /\ \A i \in 1 .. L - 1 : list[i + 1] \in deps[list[i]]
      /\ list[1] \in deps[list[L]]
    BY DEF Ring
<1>2. PICK d \in Nat : d = L - first + 1 /\ d \in 1 .. L
    BY <1>1
<1>3. PICK front, back : front = SubSeq(list, first, Len(list)) /\ back = SubSeq(list, 1, first - 1)
    OBVIOUS
<1>4. /\ front \in Seq(R) /\ Len(front) = d
      /\ \A i \in 1 .. d : front[i] = list[first + i - 1]
    BY <1>1, <1>2, <1>3
<1>5. back \in Seq(R) /\ Len(back) = L - d /\ \A i \in 1 .. L - d : back[i] = list[i]
    BY <1>1, <1>2, <1>3
<1>6. PICK turned : turned = front \o back
    OBVIOUS
<1>7. /\ turned \in Seq(R) /\ Len(turned) = L
      /\ \A i \in 1 .. L : turned[i] = IF i <= d THEN front[i] ELSE back[i - d]
  <2>1. front \in Seq(R) /\ back \in Seq(R) /\ Len(front) = d /\ d + Len(back) = L
      BY <1>1, <1>2, <1>4, <1>5
  <2>2. PICK e : e = Len(back)
      OBVIOUS
  <2>3. turned \in Seq(R) /\ Len(turned) = d + e
      BY <1>6, <2>1, <2>2, ConcatProperties
  <2>4. \A i \in 1 .. d + e : turned[i] = IF i <= d THEN front[i] ELSE back[i - d]
      BY <1>6, <2>1, <2>2, ConcatProperties
  <2> QED
      BY <2>1, <2>2, <2>3, <2>4
<1>8. \A i \in 1 .. d : turned[i] = list[first + i - 1]
  <2> TAKE i \in 1 .. d
  <2>1. i \in 1 .. L /\ i <= d
      BY <1>1, <1>2
  <2> QED
      BY <1>4, <1>7, <2>1
<1>9. \A i \in d + 1 .. L : turned[i] = list[i - d]
  <2> TAKE i \in d + 1 .. L
  <2>1. i - d \in 1 .. L - d /\ i \in 1 .. L /\ ~(i <= d)
      BY <1>1, <1>2
  <2> QED
      BY <1>5, <1>7, <2>1
<1> DEFINE At1(i) == IF i <= d THEN first + i - 1 ELSE i - d
<1>10. \A i \in 1 .. L : At1(i) \in 1 .. L /\ turned[i] = list[At1(i)]
    BY <1>1, <1>2, <1>8, <1>9
<1>11. ASSUME NEW i \in 1 .. L, NEW j \in 1 .. L, turned[i] = turned[j] PROVE i = j
  <2>1. At1(i) = At1(j)
    <3> HIDE DEF At1
    <3> QED
        BY <1>1, <1>10, <1>11
  <2> QED
      BY <1>1, <1>2, <2>1
<1>12. ASSUME NEW i \in 1 .. L - 1 PROVE turned[i + 1] \in deps[turned[i]]
  <2>1. i \in 1 .. L /\ i + 1 \in 1 .. L
      BY <1>1
  <2>2. turned[i] = list[At1(i)] /\ turned[i + 1] = list[At1(i + 1)]
    <3> HIDE DEF At1
    <3> QED
        BY <1>10, <2>1
  <2>3. CASE i = d
    <3>1. At1(i) = L /\ At1(i + 1) = 1
        BY <1>1, <1>2, <2>3
    <3> HIDE DEF At1
    <3> QED
        BY <1>1, <2>2, <3>1
  <2>4. CASE i # d
    <3>1. At1(i) \in 1 .. L - 1 /\ At1(i + 1) = At1(i) + 1
        BY <1>1, <1>2, <2>4
    <3> HIDE DEF At1
    <3> QED
        BY <1>1, <2>2, <3>1
  <2> QED
      BY <2>3, <2>4
<1>13. turned[1] \in deps[turned[L]]
  <2>1. 1 \in 1 .. L /\ L \in 1 .. L
      BY <1>1
  <2>2. turned[1] = list[At1(1)] /\ turned[L] = list[At1(L)]
    <3> HIDE DEF At1
    <3> QED
        BY <1>10, <2>1
  <2>3. CASE first = 1
    <3>1. At1(1) = 1 /\ At1(L) = L
        BY <1>1, <1>2, <2>3
    <3> HIDE DEF At1
    <3> QED
        BY <1>1, <2>2, <3>1
  <2>4. CASE first # 1
    <3>1. first - 1 \in 1 .. L - 1 /\ At1(1) = (first - 1) + 1 /\ At1(L) = first - 1
        BY <1>1, <1>2, <2>4
    <3> HIDE DEF At1
    <3> QED
        BY <1>1, <2>2, <3>1
  <2> QED
      BY <2>3, <2>4
<1>14. Ring(turned, L, R)
    BY <1>1, <1>7, <1>11, <1>12, <1>13 DEF Ring
<1> QED
    BY <1>3, <1>6, <1>14

\* findCycle finds a cycle among the nodes that are left.
LEMMA FindCycleIs ==
  ASSUME GraphOk, NEW R, Stuck(R), NEW s \in R
  PROVE  FindCycle(s) \in Seq(R) /\ Cycle(FindCycle(s))
<1>1. R \in SUBSET Labels /\ R \subseteq Rest /\ IsFiniteSet(Labels)
    BY GraphIs DEF Stuck
<1>2. PICK k \in Nat : k = Cardinality(Labels)
    BY <1>1, FS_CardinalityType
<1>3. IsFiniteSet(R) /\ Cardinality(R) <= k
    BY <1>1, <1>2, FS_Subset
<1>4. PICK path : path = Walk(s) /\ path \in [0 .. k -> R] /\ \A i \in 1 .. k : path[i] \in deps[path[i - 1]]
    BY <1>2, WalkIs
<1>5. PICK L : Ring(Loop(path), L, R)
    BY <1>3, <1>4, LoopRing
<1>6. PICK list : list = Loop(path) /\ Ring(list, L, R)
    BY <1>5
<1>7. list \in Seq(R) /\ Len(list) = L /\ L \in Nat \ {0} /\ DOMAIN list = 1 .. L
    BY <1>6 DEF Ring
<1>8. PICK units : units = {n \in ToSet(list) : TypeOrder(node[n].class) = 2}
    OBVIOUS
<1>9. PICK first : first = IF units = {} THEN 1 ELSE CHOOSE i \in DOMAIN list : list[i] = Least(units)
    OBVIOUS
<1>10. first \in 1 .. L
  <2>1. CASE units = {}
      BY <1>7, <1>9, <2>1
  <2>2. CASE units # {}
    <3>1. units \in SUBSET Labels /\ units \subseteq ToSet(list)
        BY <1>1, <1>7, <1>8 DEF ToSet
    <3>2. Least(units) \in ToSet(list)
        BY <2>2, <3>1, LeastIs
    <3>3. \E i \in DOMAIN list : list[i] = Least(units)
        BY <3>2 DEF ToSet
    <3> QED
        BY <1>7, <1>9, <2>2, <3>3
  <2> QED
      BY <2>1, <2>2
<1>11. FindCycle(s) = SubSeq(list, first, Len(list)) \o SubSeq(list, 1, first - 1)
    BY <1>4, <1>6, <1>8, <1>9 DEF FindCycle
<1>12. Ring(FindCycle(s), L, R)
    BY <1>6, <1>10, <1>11, RingTurned
<1>13. Ring(FindCycle(s), L, Rest) /\ FindCycle(s) \in Seq(R)
    BY <1>1, <1>12 DEF Ring
<1> QED
    BY <1>13, RingCycle

-----------------------------------------------------------------------------
(* The steps *)

\* A step leaves the model as it is, and all that depends on it alone.
LEMMA Fixed ==
  ASSUME graph' = graph
  PROVE  /\ node' = node /\ deps' = deps /\ Labels' = Labels /\ Extensions' = Extensions
         /\ Rest' = Rest /\ \A a, b : Before(a, b)' <=> Before(a, b)
         /\ GraphOk => GraphOk'
<1>1. node' = node /\ deps' = deps
    BY DEF node, deps
<1>2. Labels' = Labels
    BY <1>1 DEF Labels
<1>3. Extensions' = Extensions
    BY <1>1, <1>2 DEF Extensions
<1>4. Rest' = Rest
    BY <1>2, <1>3 DEF Rest
<1>5. \A a, b : Before(a, b)' <=> Before(a, b)
    BY <1>1 DEF Before
<1>6. GraphOk => GraphOk'
    BY DEF GraphOk
<1> QED
    BY <1>1, <1>2, <1>3, <1>4, <1>5, <1>6

\* A list in order names no node twice.
LEMMA AscendingOnce ==
  ASSUME GraphOk, NEW list \in Seq(Labels), Ascending(list)
  PROVE  IsInjective(list)
<1> SUFFICES ASSUME NEW i \in DOMAIN list, NEW j \in DOMAIN list, list[i] = list[j], i # j
             PROVE  FALSE
    BY DEF IsInjective
<1>1. i \in Nat /\ j \in Nat /\ list[i] \in Labels
    OBVIOUS
<1>2. Before(list[i], list[j]) \/ Before(list[j], list[i])
    BY <1>1 DEF Ascending
<1> QED
    BY <1>1, <1>2, BeforeIsOrder

\* What is emitted comes last in the order.
LEMMA Appended ==
  ASSUME NEW V, order \in Seq(V), NEW n \in V, order' = Append(order, n)
  PROVE  /\ order' \in Seq(V) /\ Len(order') = Len(order) + 1
         /\ DOMAIN order = 1 .. Len(order) /\ DOMAIN order' = 1 .. Len(order) + 1
         /\ \A j \in 1 .. Len(order) : order'[j] = order[j]
         /\ order'[Len(order) + 1] = n /\ emitted' = emitted \cup {n}
         /\ \A j \in 1 .. Len(order) : Earlier(order', j) = Earlier(order, j)
         /\ Earlier(order', Len(order) + 1) = emitted
<1>1. PICK k \in Nat : k = Len(order)
    OBVIOUS
<1>2. /\ order' \in Seq(V) /\ Len(order') = k + 1 /\ DOMAIN order = 1 .. k
      /\ DOMAIN order' = 1 .. k + 1
    BY <1>1
<1>3. \A j \in 1 .. k : order'[j] = order[j]
    BY <1>1
<1>4. order'[k + 1] = n
    BY <1>1
<1>5. \A j \in 1 .. k + 1 : j = k + 1 \/ j \in 1 .. k
    BY <1>1
<1>6. emitted' = emitted \cup {n}
  <2>1. k + 1 \in 1 .. k + 1 /\ \A j \in 1 .. k : j \in 1 .. k + 1
      BY <1>1
  <2> QED
      BY <1>2, <1>3, <1>4, <1>5, <2>1 DEF emitted, ToSet
<1>7. ASSUME NEW j \in 1 .. k PROVE Earlier(order', j) = Earlier(order, j)
  <2>1. \A i \in 1 .. j - 1 : i \in 1 .. k
      BY <1>1
  <2>2. \A i \in 1 .. j - 1 : order'[i] = order[i]
      BY <1>3, <2>1
  <2> QED
      BY <2>2 DEF Earlier
<1>8. Earlier(order', k + 1) = emitted
  <2>1. (k + 1) - 1 = k
      BY <1>1
  <2>2. Earlier(order', k + 1) = {order'[i] : i \in 1 .. k}
      BY <2>1 DEF Earlier
  <2> QED
      BY <1>2, <1>3, <2>2 DEF emitted, ToSet
<1> QED
    BY <1>1, <1>2, <1>3, <1>4, <1>6, <1>7, <1>8

\* The order after emit.
LEMMA EmitOrder ==
  ASSUME GraphOk, OrderExact, Greedy, Excused, order \in Seq(Labels),
         graph' = graph, NEW n \in Rest \ emitted, order' = Append(order, n),
         \A m \in Rest \ emitted : deps[m] \subseteq emitted => m = n \/ Before(n, m),
         deps[n] \subseteq emitted \/ \E c \in DOMAIN cycles' : cycles'[c][1] = n,
         \A c \in DOMAIN cycles : c \in DOMAIN cycles' /\ cycles'[c] = cycles[c]
  PROVE  OrderExact' /\ Greedy' /\ Excused'
<1>1. PICK k \in Nat : k = Len(order)
    OBVIOUS
<1>2. n \in Labels /\ n \notin Extensions /\ n \notin emitted /\ n \in Rest
    BY GraphIs
<1>3. /\ Len(order') = k + 1 /\ DOMAIN order = 1 .. k /\ DOMAIN order' = 1 .. k + 1
      /\ \A j \in 1 .. k : order'[j] = order[j]
      /\ order'[k + 1] = n
      /\ \A j \in 1 .. k : Earlier(order', j) = Earlier(order, j)
      /\ Earlier(order', k + 1) = emitted
    BY <1>1, <1>2, Appended
<1>4. \A j \in 1 .. k + 1 : j = k + 1 \/ j \in 1 .. k
    OBVIOUS
<1>5. PICK K : K = Cardinality(Extensions) /\ K \in Nat
  <2>1. Extensions \in SUBSET Labels
      BY GraphIs
  <2> QED
      BY <2>1, RankGrows
<1>6. Cardinality(Extensions)' = K /\ Extensions' = Extensions /\ Rest' = Rest /\ deps' = deps
    BY <1>5, Fixed
<1>7. OrderExact'
  <2>1. IsInjective(order')
    <3>1. \A j \in 1 .. k : order[j] # n
        BY <1>2, <1>3 DEF emitted, ToSet
    <3> QED
        BY <1>3, <1>4, <3>1 DEF OrderExact, IsInjective
  <2>2. K <= k + 1 /\ ~(k + 1 <= K)
      BY <1>1, <1>5 DEF OrderExact
  <2>3. \A j \in 1 .. k + 1 : order'[j] \in Extensions <=> j <= K
      BY <1>2, <1>3, <1>4, <1>5, <2>2 DEF OrderExact
  <2> QED
      BY <1>3, <1>6, <2>1, <2>2, <2>3 DEF OrderExact
<1>8. Greedy'
  <2> SUFFICES ASSUME NEW j \in 1 .. k + 1, NEW m \in Rest, m \notin Earlier(order', j), j > K,
                      deps[m] \subseteq Earlier(order', j)
               PROVE  m = order'[j] \/ Before(order[j], m)'
      BY <1>3, <1>6 DEF Greedy
  <2>1. Before(order[j], m)' <=> Before(order'[j], m)
      BY Fixed DEF Before
  <2>2. CASE j = k + 1
    <3>1. m \notin emitted /\ deps[m] \subseteq emitted
        BY <1>3, <2>2
    <3> QED
        BY <1>3, <2>1, <2>2, <3>1
  <2>3. CASE j \in 1 .. k
    <3>1. m \in Rest \ Earlier(order, j) /\ deps[m] \subseteq Earlier(order, j) /\ order'[j] = order[j]
        BY <1>3, <2>3
    <3> QED
        BY <1>3, <1>5, <2>1, <2>3, <3>1 DEF Greedy
  <2> QED
      BY <1>4, <2>2, <2>3
<1>9. Excused'
  <2> SUFFICES ASSUME NEW j \in 1 .. k + 1, order'[j] \in Rest,
                      ~(deps[order'[j]] \subseteq Earlier(order', j))
               PROVE  \E c \in DOMAIN cycles' : cycles'[c][1] = order'[j]
      BY <1>3, <1>6 DEF Excused
  <2>1. CASE j = k + 1
      BY <1>3, <2>1
  <2>2. CASE j \in 1 .. k
    <3>1. order[j] \in Rest /\ ~(deps[order[j]] \subseteq Earlier(order, j)) /\ order'[j] = order[j]
        BY <1>3, <2>2
    <3>2. PICK c \in DOMAIN cycles : cycles[c][1] = order[j]
        BY <1>3, <2>2, <3>1 DEF Excused
    <3> QED
        BY <3>1, <3>2
  <2> QED
      BY <1>4, <2>1, <2>2
<1> QED
    BY <1>7, <1>8, <1>9

\* A list in order is in order after a step.
LEMMA StaysAscending ==
  ASSUME graph' = graph, NEW list, Ascending(list), ready' = list
  PROVE  Ascending(ready)'
<1>1. node' = node
    BY Fixed
<1>2. \A i, j \in DOMAIN list : i < j => Before(list[i], list[j])
    BY DEF Ascending
<1>3. \A i, j \in DOMAIN list : Before(list[i], list[j]) => Before(ready[i], ready[j])'
    BY <1>1 DEF Before
<1> QED
    BY <1>2, <1>3 DEF Ascending

\* The counters and the list after emit.
LEMMA EmitList ==
  ASSUME GraphOk, Shape, ListExact, graph' = graph, NEW n \in Rest \ emitted,
         NEW list \in Seq(Rest), Ascending(list), Emit(n, list),
         ToSet(list) = {m \in Rest \ (emitted \cup {n}) : deps[m] \subseteq emitted}
  PROVE  /\ order' \in Seq(Labels') /\ ready' \in Seq(Rest') /\ pending' \in [Rest' -> Nat]
         /\ order' = Append(order, n) /\ ListExact'
<1>1. /\ order' = Append(order, n)
      /\ pending' = [d \in Rest |-> IF n \in deps[d] THEN pending[d] - 1 ELSE pending[d]]
      /\ ready' = FoldLeft(InsertSorted, list, Sorted(Freed(n)))
    BY DEF Emit
<1>2. /\ Rest \subseteq Labels /\ IsFiniteSet(Labels) /\ \A d \in Rest : deps[d] \subseteq Labels
      /\ Labels' = Labels /\ Rest' = Rest /\ deps' = deps /\ Extensions' = Extensions
    BY GraphIs, Fixed
<1>3. order' \in Seq(Labels) /\ emitted' = emitted \cup {n}
    BY <1>1, <1>2, Appended DEF Shape
<1>4. ASSUME NEW d \in Rest
      PROVE  /\ IsFiniteSet(deps[d] \ emitted) /\ Cardinality(deps[d] \ emitted) \in Nat
             /\ n \in deps[d] =>
                  Cardinality(deps[d] \ (emitted \cup {n})) = Cardinality(deps[d] \ emitted) - 1
             /\ Cardinality(deps[d] \ emitted) = 1 /\ n \in deps[d] =>
                  deps[d] \subseteq emitted \cup {n}
             /\ deps[d] \subseteq emitted \cup {n} /\ n \in deps[d] =>
                  Cardinality(deps[d] \ emitted) = 1
             /\ Cardinality(deps[d] \ (emitted \cup {n})) \in Nat
  <2>1. PICK D : D = deps[d] \ emitted
      OBVIOUS
  <2>2. IsFiniteSet(D) /\ Cardinality(D) \in Nat
    <3>1. D \subseteq Labels
        BY <1>2, <2>1
    <3>2. IsFiniteSet(D)
        BY <1>2, <3>1, FS_Subset
    <3> QED
        BY <3>2, FS_CardinalityType
  <2>3. D \ {n} = deps[d] \ (emitted \cup {n})
      BY <2>1
  <2>4. IsFiniteSet(D \ {n}) /\ Cardinality(D \ {n}) \in Nat
    <3>1. D \ {n} \subseteq D
        OBVIOUS
    <3>2. IsFiniteSet(D \ {n})
        BY <2>2, <3>1, FS_Subset
    <3> QED
        BY <3>2, FS_CardinalityType
  <2>5. n \in D => Cardinality(D \ {n}) = Cardinality(D) - 1
      BY <2>2, FS_RemoveElement
  <2>6. Cardinality(D \ {n}) = 0 <=> D \ {n} = {}
      BY <2>4, FS_EmptySet
  <2>7. n \in deps[d] <=> n \in D
      BY <2>1
  <2>8. deps[d] \subseteq emitted \cup {n} <=> D \ {n} = {}
      BY <2>1
  <2>9. ASSUME n \in D PROVE Cardinality(D) = 1 <=> D \ {n} = {}
      BY <2>2, <2>5, <2>6, <2>9
  <2>10. n \in deps[d] => Cardinality(deps[d] \ (emitted \cup {n})) = Cardinality(deps[d] \ emitted) - 1
      BY <2>1, <2>3, <2>5, <2>7
  <2> QED
      BY <2>1, <2>2, <2>3, <2>4, <2>7, <2>8, <2>9, <2>10
<1>5. \A d \in Rest : pending[d] = Cardinality(deps[d] \ emitted) /\ pending[d] \in Nat
    BY DEF ListExact, Shape
<1>6. \A d \in Rest : pending'[d] = Cardinality(deps[d] \ (emitted \cup {n}))
  <2> TAKE d \in Rest
  <2>1. CASE n \in deps[d]
      BY <1>1, <1>4, <1>5, <2>1
  <2>2. CASE n \notin deps[d]
    <3>1. deps[d] \ (emitted \cup {n}) = deps[d] \ emitted
        BY <2>2
    <3>2. pending'[d] = pending[d]
        BY <1>1, <2>2
    <3> QED
        BY <1>5, <3>1, <3>2
  <2> QED
      BY <2>1, <2>2
<1>7. pending' \in [Rest -> Nat]
  <2>1. \A d \in Rest : pending'[d] \in Nat
    <3> TAKE d \in Rest
    <3>1. Cardinality(deps[d] \ (emitted \cup {n})) \in Nat
        BY <1>4
    <3> QED
        BY <1>6, <3>1
  <2>2. pending' = [d \in Rest |-> pending'[d]]
      BY <1>1
  <2> QED
      BY <2>1, <2>2, Zenon
<1>8. PICK freed : freed = Freed(n)
    OBVIOUS
<1>9. freed = {d \in Rest \ (emitted \cup {n}) : n \in deps[d] /\ deps[d] \subseteq emitted \cup {n}}
  <2>1. freed = {d \in Rest \ (emitted \cup {n}) : n \in deps[d] /\ pending[d] = 1}
      BY <1>8 DEF Freed
  <2>2. \A d \in Rest : n \in deps[d] => (pending[d] = 1 <=> deps[d] \subseteq emitted \cup {n})
      BY <1>4, <1>5
  <2> QED
      BY <2>1, <2>2
<1>10. PICK s : s = Sorted(freed)
    OBVIOUS
<1>11. s \in Seq(Labels) /\ Ascending(s) /\ ToSet(s) = freed /\ IsInjective(s)
  <2>1. freed \in SUBSET Labels
      BY <1>2, <1>9
  <2>2. s \in Seq(freed) /\ ToSet(s) = freed /\ Ascending(s)
      BY <1>10, <2>1, SortedIs
  <2>3. s \in Seq(Labels)
      BY <2>1, <2>2
  <2> QED
      BY <2>2, <2>3, AscendingOnce
<1>12. list \in Seq(Labels)
    BY <1>2
<1>13. freed \cap ToSet(list) = {}
    BY <1>9
<1>14. PICK r : r = FoldLeft(InsertSorted, list, s)
    OBVIOUS
<1>15. r \in Seq(Labels) /\ Ascending(r) /\ ToSet(r) = ToSet(list) \cup freed
    BY <1>11, <1>12, <1>13, <1>14, FoldInserts
<1>16. ready' = r
    BY <1>1, <1>8, <1>10, <1>14
<1>17. ToSet(r) = {m \in Rest \ (emitted \cup {n}) : deps[m] \subseteq emitted \cup {n}}
    BY <1>9, <1>15
<1>18. r \in Seq(Rest)
  <2>1. \A i \in 1 .. Len(r) : r[i] \in Rest
      BY <1>15, <1>17 DEF ToSet
  <2> QED
      BY <1>15, <2>1
<1>19. ListExact'
  <2>1. Extensions \subseteq emitted \cup {n}
      BY DEF ListExact
  <2>2. Ascending(ready)'
      BY <1>15, <1>16, StaysAscending
  <2>3. ToSet(ready') = {m \in Rest \ (emitted \cup {n}) : deps[m] \subseteq emitted \cup {n}}
      BY <1>16, <1>17
  <2> QED
      BY <1>2, <1>3, <1>6, <2>1, <2>2, <2>3 DEF ListExact
<1> QED
    BY <1>1, <1>2, <1>3, <1>7, <1>16, <1>18, <1>19

\* The invariant holds after emit, if what it says of the cycles does.
LEMMA EmitKeeps ==
  ASSUME SortInv, phase = "sorting", phase' = phase, graph' = graph, NEW n \in Rest \ emitted,
         NEW list \in Seq(Rest), Ascending(list), Emit(n, list),
         ToSet(list) = {m \in Rest \ (emitted \cup {n}) : deps[m] \subseteq emitted},
         \A m \in Rest \ emitted : deps[m] \subseteq emitted => m = n \/ Before(n, m),
         deps[n] \subseteq emitted \/ \E c \in DOMAIN cycles' : cycles'[c][1] = n,
         \A c \in DOMAIN cycles : c \in DOMAIN cycles' /\ cycles'[c] = cycles[c], CyclesOk'
  PROVE  SortInv'
<1>1. GraphOk /\ Shape /\ OrderExact /\ ListExact /\ Greedy /\ Excused
    BY DEF SortInv
<1>2. /\ order' \in Seq(Labels') /\ ready' \in Seq(Rest') /\ pending' \in [Rest' -> Nat]
      /\ order' = Append(order, n) /\ ListExact'
    BY <1>1, EmitList
<1>3. order \in Seq(Labels)
    BY <1>1 DEF Shape
<1>4. OrderExact' /\ Greedy' /\ Excused'
    BY <1>1, <1>2, <1>3, EmitOrder
<1>5. GraphOk'
    BY <1>1, Fixed
<1>6. Shape'
    BY <1>2 DEF Shape
<1>7. Ended'
    BY DEF Ended
<1> QED
    BY <1>2, <1>4, <1>5, <1>6, <1>7 DEF SortInv

\* The initial states.
LEMMA SortInit == Init => SortInv
<1> SUFFICES ASSUME Init PROVE SortInv
    OBVIOUS
<1>1. GraphOk
    BY DEF Init, GraphOk
<1>2. Shape
  <2>1. pending \in [Rest -> Nat]
      BY DEF Init
  <2> QED
      BY <2>1 DEF Init, Shape
<1>3. Greedy /\ Excused
    BY DEF Init, Greedy, Excused
<1>4. CyclesOk
    BY DEF Init, CyclesOk
<1>5. Ended /\ phase = "new"
    BY DEF Init, Ended
<1> QED
    BY <1>1, <1>2, <1>3, <1>4, <1>5 DEF SortInv

\* The beginning of sort.
LEMMA StartKeeps ==
  ASSUME SortInv, Start
  PROVE  SortInv'
<1>1. GraphOk /\ Shape /\ cycles = <<>> /\ graph' = graph /\ cycles' = <<>> /\ phase' = "sorting"
    BY DEF SortInv, Start, Shape
<1>2. /\ GraphOk' /\ Labels' = Labels /\ Rest' = Rest /\ deps' = deps /\ Extensions' = Extensions
      /\ Extensions \in SUBSET Labels /\ Rest \in SUBSET Labels /\ Rest \cap Extensions = {}
      /\ IsFiniteSet(Labels) /\ \A n \in Rest : deps[n] \subseteq Labels
    BY <1>1, Fixed, GraphIs
<1>3. PICK o, K : o = Sorted(Extensions) /\ K = Cardinality(Extensions)
    OBVIOUS
<1>4. o \in Seq(Extensions) /\ Len(o) = K /\ ToSet(o) = Extensions /\ Ascending(o) /\ K \in Nat
    BY <1>1, <1>2, <1>3, SortedIs, RankGrows
<1>5. order' = o /\ o \in Seq(Labels) /\ DOMAIN o = 1 .. K /\ IsInjective(o)
  <2>1. o \in Seq(Labels) /\ DOMAIN o = 1 .. K
      BY <1>2, <1>4
  <2> QED
      BY <1>1, <1>3, <1>4, <2>1, AscendingOnce DEF Start
<1>6. \A j \in 1 .. K : o[j] \in Extensions /\ o[j] \notin Rest
    BY <1>2, <1>4
<1>7. OrderExact'
    BY <1>2, <1>3, <1>4, <1>5, <1>6 DEF OrderExact
<1>8. Greedy'
    BY <1>2, <1>3, <1>4, <1>5 DEF Greedy
<1>9. Excused'
    BY <1>2, <1>5, <1>6 DEF Excused
<1>10. ASSUME NEW n \in Rest
       PROVE  WaitsFor(n) \in Nat /\ (WaitsFor(n) = 0 <=> deps[n] \subseteq Extensions)
  <2>1. IsFiniteSet(deps[n] \ Extensions)
      BY <1>2, FS_Subset
  <2> QED
      BY <2>1, FS_CardinalityType, FS_EmptySet DEF WaitsFor
<1>11. PICK S : S = {n \in Rest : WaitsFor(n) = 0}
    OBVIOUS
<1>12. PICK r : r = Sorted(S)
    OBVIOUS
<1>13. /\ ready' = r /\ r \in Seq(Rest) /\ ToSet(r) = S /\ Ascending(r)
  <2>1. S \in SUBSET Labels /\ S \subseteq Rest
      BY <1>2, <1>11
  <2>2. r \in Seq(S) /\ ToSet(r) = S /\ Ascending(r)
      BY <1>1, <1>12, <2>1, SortedIs
  <2>3. r \in Seq(Rest)
      BY <2>1, <2>2
  <2> QED
      BY <1>11, <1>12, <2>2, <2>3 DEF Start
<1>14. emitted' = Extensions
    BY <1>4, <1>5 DEF emitted
<1>15. pending' \in [Rest -> Nat] /\ \A n \in Rest : pending'[n] = Cardinality(deps[n] \ Extensions)
  <2>1. pending' = [n \in Rest |-> WaitsFor(n)]
      BY DEF Start
  <2>2. pending' \in [Rest -> Nat]
      BY <1>10, <2>1
  <2> QED
      BY <2>1, <2>2 DEF WaitsFor
<1>16. ListExact'
  <2>1. Ascending(ready)'
      BY <1>1, <1>13, StaysAscending
  <2>2. ToSet(ready') = {n \in Rest \ Extensions : deps[n] \subseteq Extensions}
      BY <1>2, <1>10, <1>11, <1>13
  <2> QED
      BY <1>2, <1>14, <1>15, <2>1, <2>2 DEF ListExact
<1>17. Shape'
    BY <1>1, <1>2, <1>5, <1>13, <1>15 DEF Shape
<1>18. CyclesOk'
    BY <1>1 DEF CyclesOk
<1>19. Ended'
    BY <1>1 DEF Ended
<1> QED
    BY <1>2, <1>7, <1>8, <1>9, <1>16, <1>17, <1>18, <1>19 DEF SortInv

\* The cycles named stay what they are while nodes are emitted.
LEMMA CyclesStay ==
  ASSUME GraphOk, CyclesOk, graph' = graph, cycles' = cycles, emitted \subseteq emitted'
  PROVE  CyclesOk'
<1>1. deps' = deps /\ Rest' = Rest
    BY Fixed
<1>2. ASSUME NEW c \in DOMAIN cycles PROVE Cycle(cycles[c])'
  <2>1. Cycle(cycles[c])
      BY DEF CyclesOk
  <2> QED
      BY <1>1, <2>1 DEF Cycle
<1> QED
    BY <1>1, <1>2 DEF CyclesOk

\* The loop.
LEMMA ShiftKeeps ==
  ASSUME SortInv, Shift
  PROVE  SortInv'
<1>1. /\ phase = "sorting" /\ ready # <<>> /\ graph' = graph /\ phase' = phase /\ cycles' = cycles
      /\ GraphOk /\ Shape /\ ListExact /\ OrderExact /\ CyclesOk
    BY DEF SortInv, Shift
<1>2. PICK n, list : n = Head(ready) /\ list = Tail(ready)
    OBVIOUS
<1>3. PICK k \in Nat : k = Len(ready) /\ DOMAIN ready = 1 .. k /\ k > 0
    BY <1>1 DEF Shape
<1>4. /\ n = ready[1] /\ list \in Seq(Rest) /\ Len(list) = k - 1 /\ DOMAIN list = 1 .. k - 1
      /\ \A i \in 1 .. k - 1 : list[i] = ready[i + 1]
    BY <1>1, <1>2, <1>3 DEF Shape
<1>5. /\ \A i \in 1 .. k : ready[i] \in Rest \ emitted /\ deps[ready[i]] \subseteq emitted
      /\ \A m \in Rest \ emitted : deps[m] \subseteq emitted => \E i \in 1 .. k : m = ready[i]
      /\ \A i, j \in 1 .. k : i < j => Before(ready[i], ready[j])
    BY <1>1, <1>3 DEF ListExact, ToSet, Ascending
<1>6. n \in Rest \ emitted /\ deps[n] \subseteq emitted
    BY <1>3, <1>4, <1>5
<1>7. Emit(n, list)
    BY <1>2, <1>6 DEF Shift
<1>8. \A i \in 2 .. k : Before(n, ready[i]) /\ ready[i] # n
  <2> TAKE i \in 2 .. k
  <2>1. Before(n, ready[i])
      BY <1>3, <1>4, <1>5
  <2>2. ~Before(n, n)
      BY <1>1, <1>6, GraphIs, BeforeIsOrder
  <2> QED
      BY <2>1, <2>2
<1>9. \A m \in Rest \ emitted : deps[m] \subseteq emitted => m = n \/ Before(n, m)
  <2> SUFFICES ASSUME NEW m \in Rest \ emitted, deps[m] \subseteq emitted
               PROVE  m = n \/ Before(n, m)
      OBVIOUS
  <2>1. PICK i \in 1 .. k : m = ready[i]
      BY <1>5
  <2>2. i = 1 \/ i \in 2 .. k
      OBVIOUS
  <2> QED
      BY <1>4, <1>8, <2>1, <2>2
<1>10. Ascending(list)
  <2> SUFFICES ASSUME NEW i \in 1 .. k - 1, NEW j \in 1 .. k - 1, i < j
               PROVE  Before(list[i], list[j])
      BY <1>4 DEF Ascending
  <2>1. i + 1 \in 1 .. k /\ j + 1 \in 1 .. k /\ i + 1 < j + 1
      BY <1>3
  <2> QED
      BY <1>4, <1>5, <2>1
<1>11. ToSet(list) = {m \in Rest \ (emitted \cup {n}) : deps[m] \subseteq emitted}
  <2>1. ASSUME NEW i \in 1 .. k - 1
        PROVE  list[i] \in Rest \ (emitted \cup {n}) /\ deps[list[i]] \subseteq emitted
    <3>1. i + 1 \in 1 .. k /\ i + 1 \in 2 .. k
        BY <1>3
    <3> QED
        BY <1>4, <1>5, <1>8, <3>1
  <2>2. ASSUME NEW m \in Rest \ (emitted \cup {n}), deps[m] \subseteq emitted
        PROVE  \E i \in 1 .. k - 1 : m = list[i]
    <3>1. PICK i \in 1 .. k : m = ready[i]
        BY <1>5, <2>2
    <3>2. i # 1
        BY <1>4, <2>2, <3>1
    <3>3. i - 1 \in 1 .. k - 1 /\ (i - 1) + 1 = i
        BY <1>3, <3>2
    <3> QED
        BY <1>4, <3>1, <3>3
  <2>3. ToSet(list) = {list[i] : i \in 1 .. k - 1}
      BY <1>4 DEF ToSet
  <2>4. ToSet(list) \subseteq {m \in Rest \ (emitted \cup {n}) : deps[m] \subseteq emitted}
      BY <2>1, <2>3
  <2>5. {m \in Rest \ (emitted \cup {n}) : deps[m] \subseteq emitted} \subseteq ToSet(list)
      BY <2>2, <2>3
  <2> QED
      BY <2>4, <2>5
<1>12. \A c \in DOMAIN cycles : c \in DOMAIN cycles' /\ cycles'[c] = cycles[c]
    BY <1>1
<1>13. CyclesOk'
  <2>1. order' = Append(order, n) /\ order \in Seq(Labels) /\ n \in Labels
      BY <1>1, <1>6, <1>7, GraphIs DEF Emit, Shape
  <2>2. emitted \subseteq emitted'
      BY <2>1, Appended
  <2> QED
      BY <1>1, <2>2, CyclesStay
<1> QED
    BY <1>1, <1>4, <1>6, <1>7, <1>9, <1>10, <1>11, <1>12, <1>13, EmitKeeps

\* A cycle is named and broken.
LEMMA BreakKeeps ==
  ASSUME SortInv, Break
  PROVE  SortInv'
<1>1. /\ phase = "sorting" /\ ready = <<>> /\ emitted # Labels /\ graph' = graph /\ phase' = phase
      /\ GraphOk /\ Shape /\ ListExact /\ CyclesOk
    BY DEF SortInv, Break
<1>2. /\ deps' = deps /\ Rest' = Rest /\ Rest \subseteq Labels /\ Extensions \subseteq emitted
      /\ Rest \cup Extensions = Labels /\ \A m \in Rest : deps[m] \subseteq Labels
    BY <1>1, Fixed, GraphIs DEF ListExact
<1>3. PICK R : R = Rest \ emitted
    OBVIOUS
<1>4. R # {} /\ R \in SUBSET Labels
  <2>1. emitted \subseteq Labels
      BY <1>1 DEF Shape, emitted, ToSet
  <2> QED
      BY <1>1, <1>2, <1>3, <2>1
<1>5. \A m \in R : ~(deps[m] \subseteq emitted)
  <2>1. ToSet(ready) = {}
      BY <1>1 DEF ToSet
  <2> QED
      BY <1>3, <2>1 DEF ListExact, SortInv, Break
<1>6. Stuck(R)
    BY <1>2, <1>3, <1>5 DEF Stuck
<1>7. PICK cycle : cycle = FindCycle(Least(R))
    OBVIOUS
<1>8. cycle \in Seq(R) /\ Cycle(cycle)
  <2>1. Least(R) \in R
      BY <1>1, <1>4, LeastIs
  <2> QED
      BY <1>1, <1>6, <1>7, <2>1, FindCycleIs
<1>9. PICK n : n = cycle[1]
    OBVIOUS
<1>10. n = Head(cycle) /\ n \in R /\ cycle \in Seq(Rest) /\ \A m \in ToSet(cycle) : m \in R
  <2>1. cycle # <<>>
      BY <1>8 DEF Cycle
  <2> QED
      BY <1>8, <1>9, <2>1 DEF Cycle, ToSet
<1>11. cycles' = Append(cycles, cycle) /\ Emit(n, ready)
    BY <1>3, <1>7, <1>10 DEF Break
<1>12. PICK k \in Nat : k = Len(cycles) /\ DOMAIN cycles = 1 .. k
    BY <1>1 DEF CyclesOk
<1>13. /\ cycles' \in Seq(Seq(Rest)) /\ DOMAIN cycles' = 1 .. k + 1 /\ cycles'[k + 1] = cycle
       /\ \A c \in 1 .. k : cycles'[c] = cycles[c]
    BY <1>1, <1>10, <1>11, <1>12 DEF CyclesOk
<1>14. emitted' = emitted \cup {n}
  <2>1. order' = Append(order, n) /\ order \in Seq(Labels) /\ n \in Labels
      BY <1>1, <1>4, <1>10, <1>11 DEF Emit, Shape
  <2> QED
      BY <2>1, Appended
<1>15. CyclesOk'
  <2> SUFFICES ASSUME NEW c \in 1 .. k + 1
               PROVE  /\ Cycle(cycles[c])' /\ (cycles[c][1] \in emitted)'
                      /\ \A b \in 1 .. c - 1 : cycles'[b][1] \notin ToSet(cycles'[c])
      BY <1>2, <1>13 DEF CyclesOk
  <2>1. ASSUME NEW b \in 1 .. k PROVE cycles'[b] = cycles[b] /\ cycles[b][1] \in emitted
      BY <1>1, <1>12, <1>13 DEF CyclesOk
  <2>2. CASE c \in 1 .. k
    <3>1. Cycle(cycles[c])
        BY <1>1, <1>12, <2>2 DEF CyclesOk
    <3>2. Cycle(cycles[c])'
        BY <1>2, <1>13, <2>2, <3>1 DEF Cycle
    <3>3. ASSUME NEW b \in 1 .. c - 1 PROVE cycles'[b][1] \notin ToSet(cycles'[c])
      <4>1. b \in 1 .. k
          BY <2>2
      <4>2. cycles[b][1] \notin ToSet(cycles[c])
          BY <1>1, <1>12, <2>2 DEF CyclesOk
      <4> QED
          BY <1>13, <2>2, <4>1, <4>2
    <3> QED
        BY <1>14, <2>1, <2>2, <3>2, <3>3
  <2>3. CASE c = k + 1
    <3>1. Cycle(cycles[c])'
        BY <1>2, <1>8, <1>13, <2>3 DEF Cycle
    <3>2. (cycles[c][1] \in emitted)'
        BY <1>9, <1>13, <1>14, <2>3
    <3>3. ASSUME NEW b \in 1 .. c - 1 PROVE cycles'[b][1] \notin ToSet(cycles'[c])
      <4>1. b \in 1 .. k
          BY <2>3
      <4>2. cycles'[b][1] \in emitted
          BY <2>1, <4>1
      <4> QED
          BY <1>3, <1>10, <1>13, <2>3, <4>2
    <3> QED
        BY <3>1, <3>2, <3>3
  <2>4. c \in 1 .. k \/ c = k + 1
      OBVIOUS
  <2> QED
      BY <2>2, <2>3, <2>4
<1>16. \A c \in DOMAIN cycles : c \in DOMAIN cycles' /\ cycles'[c] = cycles[c]
    BY <1>12, <1>13
<1>17. deps[n] \subseteq emitted \/ \E c \in DOMAIN cycles' : cycles'[c][1] = n
  <2>1. k + 1 \in DOMAIN cycles'
      BY <1>13
  <2> QED
      BY <1>9, <1>13, <2>1
<1>18. ready \in Seq(Rest) /\ Ascending(ready)
    BY <1>1 DEF Ascending
<1>19. ToSet(ready) = {m \in Rest \ (emitted \cup {n}) : deps[m] \subseteq emitted}
    BY <1>1, <1>3, <1>5 DEF ToSet
<1>20. \A m \in Rest \ emitted : deps[m] \subseteq emitted => m = n \/ Before(n, m)
    BY <1>3, <1>5
<1> QED
    BY <1>1, <1>3, <1>10, <1>11, <1>15, <1>16, <1>17, <1>18, <1>19, <1>20, EmitKeeps

\* The end: everything is emitted.
LEMMA FinishKeeps ==
  ASSUME SortInv, Finish
  PROVE  SortInv'
<1>1. /\ graph' = graph /\ order' = order /\ ready' = ready /\ pending' = pending /\ cycles' = cycles
      /\ emitted = Labels /\ phase = "sorting"
      /\ phase' = IF cycles = <<>> THEN "model" ELSE "refused"
      /\ GraphOk /\ Shape /\ ListExact /\ OrderExact /\ Greedy /\ Excused /\ CyclesOk
    BY DEF SortInv, Finish
<1>2. /\ GraphOk' /\ Labels' = Labels /\ Rest' = Rest /\ deps' = deps /\ Extensions' = Extensions
      /\ node' = node /\ emitted' = emitted
    BY <1>1, Fixed DEF emitted
<1>3. Shape' /\ OrderExact'
    BY <1>1, <1>2 DEF Shape, OrderExact
<1>4. ListExact'
  <2>1. Ascending(ready)'
      BY <1>1, StaysAscending DEF ListExact
  <2> QED
      BY <1>1, <1>2, <2>1 DEF ListExact
<1>5. Greedy'
    BY <1>1, <1>2 DEF Greedy, Before
<1>6. Excused'
    BY <1>1, <1>2 DEF Excused
<1>7. CyclesOk'
    BY <1>1, <1>2, CyclesStay
<1>8. Ended'
    BY <1>1, <1>2 DEF Ended
<1> QED
    BY <1>2, <1>3, <1>4, <1>5, <1>6, <1>7, <1>8 DEF SortInv

\* Nothing happens.
LEMMA StutterKeeps ==
  ASSUME SortInv, UNCHANGED vars
  PROVE  SortInv'
<1>1. /\ graph' = graph /\ order' = order /\ ready' = ready /\ pending' = pending /\ cycles' = cycles
      /\ phase' = phase
    BY DEF vars
<1>2. /\ (GraphOk => GraphOk') /\ Labels' = Labels /\ Rest' = Rest /\ deps' = deps
      /\ Extensions' = Extensions /\ node' = node /\ emitted' = emitted
    BY <1>1, Fixed DEF emitted
<1>3. (Shape => Shape') /\ (OrderExact => OrderExact')
    BY <1>1, <1>2 DEF Shape, OrderExact
<1>4. ListExact => ListExact'
  <2>1. Ascending(ready) => Ascending(ready)'
      BY <1>1, StaysAscending
  <2> QED
      BY <1>1, <1>2, <2>1 DEF ListExact
<1>5. Greedy => Greedy'
    BY <1>1, <1>2 DEF Greedy, Before
<1>6. Excused => Excused'
    BY <1>1, <1>2 DEF Excused
<1>7. GraphOk /\ CyclesOk => CyclesOk'
    BY <1>1, <1>2, CyclesStay
<1>8. Ended => Ended'
    BY <1>1, <1>2 DEF Ended
<1> QED
    BY <1>1, <1>2, <1>3, <1>4, <1>5, <1>6, <1>7, <1>8 DEF SortInv

\* The invariant of the sort: of Graph.sort with its counts, its list, its cycles.
THEOREM SortHolds == Spec => []SortInv
<1>1. SortInv /\ [Next]_vars => SortInv'
    BY StartKeeps, ShiftKeeps, BreakKeeps, FinishKeeps, StutterKeeps DEF Next
<1> QED
    BY SortInit, <1>1, PTL DEF Spec

-----------------------------------------------------------------------------
(* The properties *)

\* The counters and the list of ready nodes say what they stand for.
THEOREM ListStaysExact == Spec => []ListIsExact
<1>1. SortInv => ListIsExact
  <2> SUFFICES ASSUME SortInv PROVE ListIsExact
      OBVIOUS
  <2>1. Shape /\ (phase = "sorting" => OrderExact /\ ListExact)
      BY DEF SortInv
  <2> QED
      BY <2>1 DEF ListIsExact, Shape, OrderExact, ListExact, Ascending
<1> QED
    BY SortHolds, <1>1, PTL

\* A node precedes a dependency only where a cycle of the graph was named.
THEOREM CyclesAreAlwaysNamed == Spec => []CyclesAreNamed
<1>1. SortInv => CyclesAreNamed
  <2> SUFFICES ASSUME SortInv PROVE CyclesAreNamed
      OBVIOUS
  <2>1. Excused /\ CyclesOk
      BY DEF SortInv
  <2>2. \A j \in DOMAIN order :
          order[j] \in Rest /\ ~(deps[order[j]] \subseteq {order[i] : i \in 1 .. j - 1}) =>
            \E c \in DOMAIN cycles : cycles[c][1] = order[j]
      BY <2>1 DEF Excused, Earlier
  <2>3. \A c \in DOMAIN cycles :
          /\ IsInjective(cycles[c])
          /\ \A i \in DOMAIN cycles[c] : cycles[c][(i % Len(cycles[c])) + 1] \in deps[cycles[c][i]]
          /\ \A b \in 1 .. c - 1 : cycles[b][1] \notin ToSet(cycles[c])
      BY <2>1 DEF CyclesOk, Cycle
  <2> QED
      BY <2>2, <2>3 DEF CyclesAreNamed
<1> QED
    BY SortHolds, <1>1, PTL

\* In a model that is not refused every node follows its dependencies.
LEMMA Sound ==
  ASSUME SortInv, phase = "model"
  PROVE  /\ emitted = Labels /\ order \in Seq(Labels) /\ IsInjective(order)
         /\ \A j \in DOMAIN order : order[j] \in Rest => deps[order[j]] \subseteq Earlier(order, j)
<1>1. cycles = <<>> /\ emitted = Labels /\ order \in Seq(Labels) /\ IsInjective(order) /\ Excused
    BY DEF SortInv, Ended, Shape, OrderExact
<1> QED
    BY <1>1 DEF Excused

\* A set of nodes each of which needs another of the set.
Knot(S) == S # {} /\ \A n \in S : deps[n] \cap (S \ {n}) # {}

\* A model is refused exactly when it has a cycle.
THEOREM RefusedExactly == Spec => []RefusedIffCyclic
<1>1. ASSUME SortInv, phase = "model", NEW S \in SUBSET Rest, Knot(S) PROVE FALSE
  <2>1. PICK k \in Nat : k = Len(order) /\ DOMAIN order = 1 .. k
      BY <1>1, Sound
  <2>2. S \subseteq ToSet(order) /\ S \subseteq Rest
      BY <1>1, Sound, GraphIs DEF emitted, SortInv
  <2>3. PICK J : J = {j \in 1 .. k : order[j] \in S}
      OBVIOUS
  <2>4. PICK j \in J : \A i \in J : j <= i
    <3>1. \E n \in S : TRUE
        BY <1>1 DEF Knot
    <3>2. J \subseteq Nat /\ J # {}
        BY <2>1, <2>2, <2>3, <3>1 DEF ToSet
    <3> QED
        BY <3>2, LeastMember
  <2>5. j \in 1 .. k /\ order[j] \in S /\ order[j] \in Rest
      BY <2>2, <2>3
  <2>6. PICK d \in S : d \in deps[order[j]]
      BY <1>1, <2>5 DEF Knot
  <2>7. deps[order[j]] \subseteq Earlier(order, j)
      BY <1>1, <2>1, <2>5, Sound
  <2>8. PICK i \in 1 .. j - 1 : d = order[i]
      BY <2>6, <2>7 DEF Earlier
  <2>9. i \in J /\ i < j
      BY <2>3, <2>5, <2>6, <2>8
  <2> QED
      BY <2>4, <2>5, <2>9
<1>2. ASSUME SortInv, phase = "refused" PROVE \E S \in SUBSET Rest : Knot(S)
  <2>1. 1 \in DOMAIN cycles /\ CyclesOk /\ GraphOk
      BY <1>2 DEF SortInv, Ended, CyclesOk
  <2>2. PICK cycle : cycle = cycles[1] /\ Cycle(cycle)
      BY <2>1 DEF CyclesOk
  <2>3. PICK L \in Nat : L = Len(cycle) /\ DOMAIN cycle = 1 .. L /\ L > 0
      BY <2>2 DEF Cycle
  <2>4. ToSet(cycle) \in SUBSET Rest /\ ToSet(cycle) # {}
    <3>1. cycle \in Seq(Rest) /\ 1 \in 1 .. L
        BY <2>2, <2>3 DEF Cycle
    <3>2. \A i \in 1 .. L : cycle[i] \in Rest
        BY <2>3, <3>1
    <3>3. ToSet(cycle) = {cycle[i] : i \in 1 .. L}
        BY <2>3 DEF ToSet
    <3> QED
        BY <3>1, <3>2, <3>3
  <2>5. ASSUME NEW i \in 1 .. L PROVE deps[cycle[i]] \cap (ToSet(cycle) \ {cycle[i]}) # {}
    <3>1. PICK j : j = (i % L) + 1
        OBVIOUS
    <3>2. j \in 1 .. L
        BY <2>3, <3>1
    <3>3. cycle[j] \in deps[cycle[i]] /\ cycle[i] \in Rest /\ cycle[j] \in ToSet(cycle)
      <4>1. cycle[j] \in deps[cycle[i]]
          BY <2>2, <2>3, <3>1 DEF Cycle
      <4>2. cycle \in Seq(Rest) /\ ToSet(cycle) = {cycle[l] : l \in 1 .. L}
          BY <2>2, <2>3 DEF Cycle, ToSet
      <4> QED
          BY <2>3, <3>2, <4>1, <4>2
    <3>4. cycle[i] \notin deps[cycle[i]]
        BY <2>1, <3>3, GraphIs
    <3> QED
        BY <3>3, <3>4
  <2>6. Knot(ToSet(cycle))
      BY <2>3, <2>4, <2>5 DEF Knot, ToSet
  <2> QED
      BY <2>4, <2>6
<1>3. SortInv => RefusedIffCyclic
  <2> SUFFICES ASSUME SortInv PROVE RefusedIffCyclic
      OBVIOUS
  <2>1. phase = "model" => emitted = Labels /\ ~ \E S \in SUBSET Rest : Knot(S)
      BY <1>1, Sound
  <2>2. phase = "refused" => \E S \in SUBSET Rest : Knot(S)
      BY <1>2
  <2> QED
      BY <2>1, <2>2 DEF RefusedIffCyclic, Knot
<1> QED
    BY SortHolds, <1>3, PTL

\* The object a reference of a node reaches among those created before it, and in the
\* whole model.
THEOREM NamesAlwaysMeanTheSame == Spec => []NamesMeanTheSame
<1>1. ASSUME SortInv, phase = "model", NEW j \in DOMAIN order,
             NEW ref \in node[order[j]].refs, NEW path \in SearchPaths
      PROVE  Found(path, ref, {order[i] : i \in 1 .. j - 1}) = Found(path, ref, Labels \ {order[j]})
  <2>1. PICK n : n = order[j]
      OBVIOUS
  <2>2. /\ n \in Labels /\ DOMAIN order = 1 .. Len(order) /\ GraphOk /\ order \in Seq(Labels)
        /\ \A i \in DOMAIN order : order[i] = n => i = j
      BY <1>1, <2>1, Sound DEF SortInv, IsInjective
  <2>3. n \in Rest
    <3>1. node[n].class # "extension"
        BY <1>1, <2>1, <2>2, CreationAssumption DEF GraphOk, node, Labels
    <3> QED
        BY <2>2, <3>1 DEF Rest, Extensions
  <2>4. deps[n] \subseteq Earlier(order, j)
      BY <1>1, <2>1, <2>3, Sound
  <2>5. Earlier(order, j) \subseteq Labels \ {n}
    <3> SUFFICES ASSUME NEW i \in 1 .. j - 1 PROVE order[i] \in Labels \ {n}
        BY DEF Earlier
    <3>1. i \in DOMAIN order /\ i # j
        BY <2>2
    <3> QED
        BY <2>2, <3>1
  <2>6. ASSUME NEW m \in Labels \ {n}, ref.name \in node[m].names,
               ref.schema \in {Bare, node[m].schema}
        PROVE  m \in Earlier(order, j)
    <3>1. m \in Resolve(node, ref)
        BY <2>6 DEF Resolve, Labels
    <3>2. deps[n] = Deps(node, n)
        BY <2>2, GraphIs
    <3>3. m \in deps[n]
        BY <1>1, <2>1, <2>6, <3>1, <3>2 DEF Deps
    <3> QED
        BY <2>4, <3>3
  <2>7. PICK A, B : A = Earlier(order, j) /\ B = Labels \ {n}
      OBVIOUS
  <2>8. A \subseteq B /\ \A m \in B : ref.name \in node[m].names /\ ref.schema \in {Bare, node[m].schema}
                                     => m \in A
      BY <2>5, <2>6, <2>7
  <2>9. CASE ref.schema = Bare
    <3>1. {m \in A : ref.name \in node[m].names} = {m \in B : ref.name \in node[m].names}
        BY <2>8, <2>9
    <3> QED
        BY <2>1, <2>7, <2>9, <3>1 DEF Found, Earlier
  <2>10. CASE ref.schema # Bare
    <3>1. {m \in {o \in A : ref.name \in node[o].names} : node[m].schema = ref.schema}
            = {m \in {o \in B : ref.name \in node[o].names} : node[m].schema = ref.schema}
        BY <2>8
    <3> QED
        BY <2>1, <2>7, <2>10, <3>1 DEF Found, Earlier
  <2> QED
      BY <2>9, <2>10
<1>2. SortInv => NamesMeanTheSame
    BY <1>1 DEF NamesMeanTheSame
<1> QED
    BY SortHolds, <1>2, PTL

\* The nodes of the order after the extensions.
Mine == SubSeq(order, Cardinality(Extensions) + 1, Len(order))

\* What they are.
MineOk(mine, K, r) ==
  /\ K \in Nat /\ r \in Nat /\ mine \in [1 .. r -> Rest] /\ Len(order) = K + r
  /\ K = Cardinality(Extensions) /\ r = Cardinality(Rest)
  /\ \A j \in 1 .. r : mine[j] = order[K + j]

\* A place after the extensions and before the j-th node that follows them.
LEMMA PastExtensions ==
  ASSUME NEW K \in Nat, NEW j \in Nat, NEW i \in Nat, i <= K + j - 1, ~(i <= K)
  PROVE  i - K \in 1 .. j - 1 /\ K + (i - K) = i
OBVIOUS

\* Every node of the model that is not an extension is one of them, once.
LEMMA MineIs ==
  ASSUME SortInv, phase = "model"
  PROVE  \E K, r : MineOk(Mine, K, r)
<1>0. PICK K, mine : K = Cardinality(Extensions) /\ mine = Mine
    OBVIOUS
<1>1. PICK k \in Nat : k = Len(order) /\ DOMAIN order = 1 .. k
    BY Sound
<1>2. /\ emitted = Labels /\ order \in Seq(Labels) /\ GraphOk /\ OrderExact
      /\ \A i, j \in 1 .. k : order[i] = order[j] => i = j
    BY <1>1, Sound DEF SortInv, IsInjective
<1>3. K \in Nat /\ K <= k /\ \A j \in 1 .. k : order[j] \in Extensions <=> j <= K
  <2>1. Extensions \in SUBSET Labels
      BY <1>2, GraphIs
  <2> QED
      BY <1>0, <1>1, <1>2, <2>1, RankGrows DEF OrderExact
<1>4. PICK d \in Nat : d = k - K
    BY <1>3
<1>5. mine \in Seq(Labels) /\ Len(mine) = d /\ \A j \in 1 .. d : mine[j] = order[K + j]
  <2>1. mine = SubSeq(order, K + 1, k)
      BY <1>0, <1>1 DEF Mine
  <2>2. mine \in Seq(Labels)
      BY <1>1, <1>2, <1>3, <2>1
  <2>3. K + 1 \in Nat /\ k \in Nat /\ k - (K + 1) + 1 = d
      BY <1>3, <1>4
  <2>4. Len(mine) = d
      BY <1>1, <1>2, <1>3, <1>4, <2>1, <2>3
  <2>5. \A j \in 1 .. d : mine[j] = order[K + j]
    <3> TAKE j \in 1 .. d
    <3>1. mine[j] = order[(K + 1) + j - 1] /\ (K + 1) + j - 1 = K + j
        BY <1>1, <1>2, <1>3, <1>4, <2>1, <2>3
    <3> QED
        BY <3>1
  <2> QED
      BY <2>2, <2>4, <2>5
<1>6. \A j \in 1 .. d : K + j \in 1 .. k /\ ~(K + j <= K)
    BY <1>3, <1>4
<1>7. \A j \in 1 .. d : mine[j] \in Rest
  <2> TAKE j \in 1 .. d
  <2>1. mine[j] \in Labels /\ mine[j] = order[K + j]
      BY <1>5
  <2>2. mine[j] \notin Extensions
      BY <1>3, <1>6, <2>1
  <2> QED
      BY <1>2, <2>1, <2>2, GraphIs
<1>8. mine \in [1 .. d -> Rest]
  <2>1. mine \in Seq(Labels) /\ Len(mine) = d
      BY <1>5
  <2>2. mine \in [1 .. d -> Labels]
      BY <2>1
  <2> QED
      BY <1>7, <2>2
<1>9. \A i, j \in 1 .. d : mine[i] = mine[j] => i = j
  <2> SUFFICES ASSUME NEW i \in 1 .. d, NEW j \in 1 .. d, mine[i] = mine[j] PROVE i = j
      OBVIOUS
  <2>0. mine[i] = order[K + i] /\ mine[j] = order[K + j]
      BY <1>5
  <2>1. K + i \in 1 .. k /\ K + j \in 1 .. k
      BY <1>6
  <2>2. order[K + i] = order[K + j]
      BY <2>0
  <2>3. K + i = K + j
      BY <1>2, <2>1, <2>2
  <2> QED
      BY <1>3, <2>3
<1>10. \A n \in Rest : \E j \in 1 .. d : mine[j] = n
  <2> TAKE n \in Rest
  <2>1. n \in Labels /\ n \notin Extensions
      BY <1>2, GraphIs
  <2>2. PICK i \in 1 .. k : n = order[i]
      BY <1>1, <1>2, <2>1 DEF emitted, ToSet
  <2>3. i - K \in 1 .. d /\ K + (i - K) = i
      BY <1>3, <1>4, <2>1, <2>2
  <2> QED
      BY <1>5, <2>2, <2>3
<1>11. mine \in Bijection(1 .. d, Rest)
  <2>1. DOMAIN mine = 1 .. d
      BY <1>8
  <2>2. mine \in Injection(1 .. d, Rest)
      BY <1>8, <1>9, <2>1 DEF Injection, IsInjective
  <2>3. mine \in Surjection(1 .. d, Rest)
      BY <1>8, <1>10 DEF Surjection
  <2> QED
      BY <2>2, <2>3 DEF Bijection
<1>12. Cardinality(Rest) = d
  <2>1. IsFiniteSet(1 .. d) /\ Cardinality(1 .. d) = d
      BY FS_Interval
  <2>2. ExistsBijection(1 .. d, Rest)
      BY <1>11 DEF ExistsBijection
  <2> QED
      BY <2>1, <2>2, FS_Bijection
<1>13. k = K + d
    BY <1>3, <1>4
<1>14. MineOk(mine, K, d)
    BY <1>0, <1>1, <1>3, <1>5, <1>8, <1>12, <1>13 DEF MineOk
<1> QED
    BY <1>0, <1>14

\* The order is the least of those in which every node follows its dependencies.
THEOREM OrderIsLeast == Spec => []LeastOrder
<1>1. ASSUME SortInv, phase = "model", NEW p \in SetToSeqs(Rest),
             NEW mine, mine = Mine,
             \A j \in DOMAIN p : deps[p[j]] \ Extensions \subseteq {p[i] : i \in 1 .. j - 1},
             p # mine
      PROVE  \E j \in DOMAIN p : Before(mine[j], p[j]) /\ \A i \in 1 .. j - 1 : mine[i] = p[i]
  <2>1. PICK K, r : MineOk(Mine, K, r)
      BY <1>1, MineIs
  <2>2. /\ K \in Nat /\ r \in Nat /\ mine \in [1 .. r -> Rest] /\ Len(order) = K + r
        /\ K = Cardinality(Extensions) /\ r = Cardinality(Rest)
        /\ \A j \in 1 .. r : mine[j] = order[K + j]
      BY <1>1, <2>1 DEF MineOk
  <2>3. p \in [1 .. r -> Rest] /\ \A i, j \in 1 .. r : i # j => p[i] # p[j]
      BY <2>2 DEF SetToSeqs
  <2>4. PICK J : J = {j \in 1 .. r : mine[j] # p[j]}
      OBVIOUS
  <2>5. J # {} /\ J \subseteq Nat
    <3>2. \E j \in 1 .. r : mine[j] # p[j]
      <4>1. mine = [j \in 1 .. r |-> mine[j]] /\ p = [j \in 1 .. r |-> p[j]]
          BY <2>2, <2>3
      <4> QED
          BY <1>1, <4>1
    <3> QED
        BY <2>4, <3>2
  <2>6. PICK j \in J : \A i \in J : j <= i
      BY <2>5, LeastMember
  <2>7. j \in 1 .. r /\ mine[j] # p[j] /\ p[j] \in Rest
      BY <2>3, <2>4
  <2>8. \A i \in 1 .. j - 1 : i \in 1 .. r /\ mine[i] = p[i]
    <3> TAKE i \in 1 .. j - 1
    <3>1. i \in 1 .. r /\ i < j
        BY <2>2, <2>7
    <3> QED
        BY <2>4, <2>6, <2>7, <3>1
  <2>9. /\ GraphOk /\ OrderExact /\ Greedy /\ Extensions \subseteq emitted /\ order \in Seq(Labels)
        /\ DOMAIN order = 1 .. K + r
    <3>1. GraphOk /\ OrderExact /\ Greedy /\ Extensions \subseteq emitted
        BY <1>1 DEF SortInv, ListExact
    <3>2. order \in Seq(Labels)
        BY <1>1, Sound
    <3> QED
        BY <2>2, <3>1, <3>2
  <2>10. PICK q : q = K + j /\ q \in 1 .. K + r /\ q > K /\ order[q] = mine[j]
      BY <2>2, <2>7
  <2>11. Extensions \subseteq Earlier(order, q)
    <3> SUFFICES ASSUME NEW e \in Extensions PROVE e \in Earlier(order, q)
        OBVIOUS
    <3>1. PICK i \in 1 .. K + r : e = order[i]
        BY <2>9 DEF emitted, ToSet
    <3>2. i <= K
        BY <2>2, <2>9, <3>1 DEF OrderExact
    <3>3. i \in 1 .. q - 1
        BY <2>2, <2>10, <3>2
    <3> QED
        BY <3>1, <3>3 DEF Earlier
  <2>12. \A i \in 1 .. j - 1 : p[i] \in Earlier(order, q)
    <3> TAKE i \in 1 .. j - 1
    <3>1. p[i] = order[K + i]
        BY <2>2, <2>8
    <3>2. K + i \in 1 .. q - 1
        BY <2>2, <2>7, <2>10
    <3> QED
        BY <3>1, <3>2 DEF Earlier
  <2>13. deps[p[j]] \subseteq Earlier(order, q)
    <3>1. deps[p[j]] \ Extensions \subseteq {p[i] : i \in 1 .. j - 1}
        BY <1>1, <2>3, <2>7
    <3> QED
        BY <2>11, <2>12, <3>1
  <2>14. p[j] \notin Earlier(order, q)
    <3> SUFFICES ASSUME NEW i \in 1 .. q - 1, p[j] = order[i] PROVE FALSE
        BY DEF Earlier
    <3>1. i \in 1 .. K + r /\ i \in Nat
        BY <2>2, <2>10
    <3>2. ~(i <= K)
      <4>1. p[j] \notin Extensions
          BY <2>7, <2>9, GraphIs
      <4> QED
          BY <2>2, <2>9, <3>1, <4>1 DEF OrderExact
    <3>3. i - K \in 1 .. j - 1 /\ K + (i - K) = i
      <4>1. K \in Nat /\ j \in Nat /\ i \in Nat /\ i <= K + j - 1 /\ ~(i <= K)
          BY <2>2, <2>7, <2>10, <3>1, <3>2
      <4> QED
          BY <4>1, PastExtensions
    <3>4. i - K \in 1 .. r /\ mine[i - K] = p[i - K] /\ mine[i - K] = order[i]
        BY <2>2, <2>8, <3>3
    <3>5. i - K # j
        BY <2>7, <3>3
    <3> QED
        BY <2>3, <2>7, <3>4, <3>5
  <2>15. Before(order[q], p[j])
      BY <2>2, <2>7, <2>9, <2>10, <2>13, <2>14 DEF Greedy
  <2> QED
      BY <2>3, <2>7, <2>8, <2>10, <2>15
<1>2. SortInv => LeastOrder
  <2> SUFFICES ASSUME SortInv, phase = "model", NEW p \in SetToSeqs(Rest),
                      NEW mine, mine = Mine
               PROVE  \/ \E j \in DOMAIN p : ~(deps[p[j]] \ Extensions \subseteq {p[i] : i \in 1 .. j - 1})
                      \/ p = mine
                      \/ \E j \in DOMAIN p : Before(mine[j], p[j]) /\ \A i \in 1 .. j - 1 : mine[i] = p[i]
      BY DEF LeastOrder, Mine
  <2> QED
      BY <1>1, Zenon
<1> QED
    BY SortHolds, <1>2, PTL

\* The equation of the fold of Granted over the nodes at the positions t.
Granting(f, s) ==
  [t \in SUBSET (DOMAIN s) |-> IF t = {} THEN {} ELSE Granted(f[t \ {Max(t)}], s[Max(t)])]

\* The objects a statement names are nodes, one for each of its targets.
LEMMA ObjectsIn ==
  ASSUME GraphOk, NEW n \in Labels
  PROVE  /\ Objects(node, n) \subseteq Labels
         /\ node[n].targets \subseteq [object : Labels, spelt : Spellings]
<1>1. node[n].targets \subseteq [object : Labels, spelt : Spellings]
    BY GraphIs DEF Node
<1>2. \A x \in node[n].targets : x.object \in Labels
    BY <1>1
<1> QED
    BY <1>1, <1>2 DEF Objects

\* What a node does to privileges on nodes.
LEMMA GrantedIs ==
  ASSUME GraphOk, NEW held \in SUBSET (Labels \X Labels), NEW n \in Labels
  PROVE  /\ Granted(held, n) \in SUBSET (Labels \X Labels)
         /\ node[n].class = "grant" => Granted(held, n) = held \cup ({n} \X Objects(node, n))
         /\ node[n].class = "revoke" => Granted(held, n) = {h \in held : h[2] \notin Objects(node, n)}
         /\ node[n].class \notin {"grant", "revoke"} => Granted(held, n) = held
<1>1. Objects(node, n) \subseteq Labels
    BY ObjectsIn
<1>2. node[n].class = "grant" => Granted(held, n) = held \cup ({n} \X Objects(node, n))
    BY DEF Granted
<1>3. node[n].class = "revoke" => Granted(held, n) = {h \in held : h[2] \notin Objects(node, n)}
    BY DEF Granted
<1>4. node[n].class \notin {"grant", "revoke"} => Granted(held, n) = held
    BY DEF Granted
<1>5. held \cup ({n} \X Objects(node, n)) \in SUBSET (Labels \X Labels)
    BY <1>1
<1>6. {h \in held : h[2] \notin Objects(node, n)} \in SUBSET (Labels \X Labels)
    OBVIOUS
<1> QED
    BY <1>2, <1>3, <1>4, <1>5, <1>6

\* The fold exists.
LEMMA GrantingExists ==
  ASSUME GraphOk, NEW s \in Seq(Labels)
  PROVE  \E f : f = Granting(f, s)
<1>1. PICK k \in Nat : k = Len(s) /\ DOMAIN s = 1 .. k
    OBVIOUS
<1>2. PICK V : V = SUBSET (Labels \X Labels)
    OBVIOUS
<1> DEFINE W == SUBSET (1 .. k)
           m == [t \in W |-> Cardinality(t)]
           next == [t \in W |-> t \ {Max(t)}]
           base == [t \in W |-> {}]
           After(t, v) == IF t = {} THEN {} ELSE Granted(v, s[Max(t)])
           G == [z \in W \X V |-> After(z[1], z[2])]
<1>3. m \in [W -> Nat] /\ \A t \in W : m[t] < k + 1
  <2>1. \A t \in W : Cardinality(t) \in 0 .. k
      BY WithoutMax
  <2> QED
      BY <2>1
<1>4. next \in [W -> W]
    OBVIOUS
<1>5. \A t \in W, v \in V : After(t, v) \in V
  <2> SUFFICES ASSUME NEW t \in W, t # {}, NEW v \in V PROVE Granted(v, s[Max(t)]) \in V
      BY <1>2
  <2>1. Max(t) \in t
      BY MaxIs
  <2>2. s[Max(t)] \in Labels
    <3>1. PICK x \in 1 .. k : x = Max(t)
        BY <2>1
    <3>2. s[x] \in Labels
        BY <1>1
    <3> QED
        BY <3>1, <3>2
  <2> QED
      BY <1>2, <2>2, GrantedIs
<1>6. base \in [W -> V] /\ G \in [W \X V -> V]
  <2> HIDE DEF W, After
  <2> QED
      BY <1>2, <1>5
<1>7. \A t \in W : m[t] # 0 => m[next[t]] < m[t]
  <2> TAKE t \in W
  <2>1. t \ {Max(t)} \in W /\ Cardinality(t) \in 0 .. k
      BY WithoutMax
  <2>2. Cardinality(t) # 0 => Cardinality(t \ {Max(t)}) = Cardinality(t) - 1
      BY WithoutMax
  <2>3. m[next[t]] = Cardinality(t \ {Max(t)})
      BY <2>1
  <2> HIDE DEF W
  <2> QED
      BY <2>1, <2>2, <2>3
<1>8. PICK f \in [W -> V] : Recursion(f, W, m, next, base, G)
  <2>1. PICK bound \in Nat : bound = k + 1
      OBVIOUS
  <2>2. \A t \in W : m[t] < bound
      BY <1>3, <2>1
  <2> HIDE DEF m, next, base, G, W
  <2> QED
      BY <1>3, <1>4, <1>6, <1>7, <2>2, RecursionExists
<1> DEFINE Value(t) == After(t, f[t \ {Max(t)}])
<1>9. ASSUME NEW t \in W PROVE f[t] = Value(t)
  <2>1. t \ {Max(t)} \in W /\ f[t \ {Max(t)}] \in V
      BY <1>8
  <2>2. Cardinality(t) = 0 <=> t = {}
      BY WithoutMax
  <2>3. m[t] = Cardinality(t) /\ base[t] = {} /\ next[t] = t \ {Max(t)}
      BY <2>1
  <2>4. (m[t] = 0 => f[t] = base[t]) /\ (m[t] # 0 => f[t] = G[<<t, f[next[t]]>>])
    <3> HIDE DEF m, next, base, G, W
    <3> QED
        BY <1>8 DEF Recursion
  <2>5. G[<<t, f[next[t]]>>] = After(t, f[next[t]])
    <3> HIDE DEF W, m, next, base, After
    <3> QED
        BY <2>1, <2>3
  <2>6. t = {} => After(t, f[t \ {Max(t)}]) = {}
      OBVIOUS
  <2> HIDE DEF m, next, base, G, W, After
  <2> QED
      BY <2>2, <2>3, <2>4, <2>5, <2>6
<1>10. f = [t \in W |-> Value(t)]
  <2> HIDE DEF Value, W
  <2> QED
      BY <1>8, <1>9
<1>11. Granting(f, s) = [t \in W |-> Value(t)]
    BY <1>1 DEF Granting
<1> HIDE DEF W, Value
<1> QED
    BY <1>10, <1>11

\* What the grants among the first j nodes of an order grant, where no REVOKE spells the
\* object in another way.
Given(s, j) ==
  {h \in Labels \X Labels :
     \E i \in 1 .. j : /\ node[s[i]].class = "grant" /\ h[1] = s[i]
                       /\ \E x \in node[s[i]].targets : h[2] = x.object /\ SpeltAlike(x)}

\* An order of every node in which each follows its dependencies.
Sequenced(s, k) ==
  /\ s \in Seq(Labels) /\ k = Len(s) /\ \A i, j \in 1 .. k : s[i] = s[j] => i = j
  /\ \A n \in Labels : \E i \in 1 .. k : s[i] = n
  /\ \A j \in 1 .. k : node[s[j]].class # "extension" =>
       \A d \in deps[s[j]] : \E i \in 1 .. j - 1 : s[i] = d

\* A REVOKE that spells an object as a grant does comes before the grant.
LEMMA RevokeFirst ==
  ASSUME GraphOk, NEW s, NEW k \in Nat, Sequenced(s, k),
         NEW i \in 1 .. k, node[s[i]].class = "grant", NEW j \in 1 .. k, node[s[j]].class = "revoke",
         i < j
  PROVE  node[s[i]].targets \cap node[s[j]].targets = {}
<1> SUFFICES ASSUME node[s[i]].targets \cap node[s[j]].targets # {} PROVE FALSE
    OBVIOUS
<1>1. s[i] \in Labels /\ s[j] \in Labels /\ s[i] # s[j]
    BY DEF Sequenced
<1>2. s[j] \in Revokes(node, s[i])
    BY <1>1 DEF Revokes, Labels
<1>3. s[j] \in deps[s[i]]
  <2>1. deps[s[i]] = Deps(node, s[i])
      BY <1>1, GraphIs
  <2> QED
      BY <1>1, <1>2, <2>1 DEF Deps
<1>4. PICK l \in 1 .. i - 1 : s[l] = s[j]
  <2>1. \A d \in deps[s[i]] : \E l \in 1 .. i - 1 : s[l] = d
      BY DEF Sequenced
  <2> QED
      BY <1>3, <2>1
<1>5. l \in 1 .. k /\ l < j
    OBVIOUS
<1> QED
    BY <1>4, <1>5 DEF Sequenced

\* So it names no object that was granted before it and that all spell alike.
LEMMA RevokeSpares ==
  ASSUME GraphOk, NEW s, NEW k \in Nat, Sequenced(s, k), NEW j \in 1 .. k, node[s[j]].class = "revoke",
         NEW h \in Given(s, j - 1)
  PROVE  h[2] \notin Objects(node, s[j])
<1> SUFFICES ASSUME h[2] \in Objects(node, s[j]) PROVE FALSE
    OBVIOUS
<1>1. PICK i \in 1 .. j - 1 : /\ node[s[i]].class = "grant"
                              /\ \E x \in node[s[i]].targets : h[2] = x.object /\ SpeltAlike(x)
    BY DEF Given
<1>2. PICK x \in node[s[i]].targets : h[2] = x.object /\ SpeltAlike(x)
    BY <1>1
<1>3. PICK y \in node[s[j]].targets : y.object = h[2]
    BY DEF Objects
<1>4. s[j] \in Labels
    BY DEF Sequenced
<1>5. y = x
    BY <1>2, <1>3, <1>4 DEF SpeltAlike
<1>6. i \in 1 .. k /\ i < j
    OBVIOUS
<1>7. node[s[i]].targets \cap node[s[j]].targets = {}
    BY <1>1, <1>6, RevokeFirst
<1> QED
    BY <1>2, <1>3, <1>5, <1>7

\* The fold keeps what these grants give: no REVOKE takes any of it.
LEMMA GrantingKeeps ==
  ASSUME GraphOk, NEW s, NEW k \in Nat, Sequenced(s, k), NEW f, f = Granting(f, s)
  PROVE  Given(s, k) \subseteq f[1 .. k]
<1> DEFINE Keeps(j) == f[1 .. j] \in SUBSET (Labels \X Labels) /\ Given(s, j) \subseteq f[1 .. j]
<1>1. s \in Seq(Labels) /\ DOMAIN s = 1 .. k
    BY DEF Sequenced
<1>2. /\ f[{}] = {}
      /\ \A t \in SUBSET (1 .. k) : t # {} => f[t] = Granted(f[t \ {Max(t)}], s[Max(t)])
    BY <1>1 DEF Granting
<1>3. ASSUME NEW j \in 1 .. k, Keeps(j - 1) PROVE Keeps(j)
  <2>1. 1 .. j \in SUBSET (1 .. k) /\ j \in 1 .. j
      OBVIOUS
  <2>2. Max(1 .. j) = j
    <3>1. PICK t \in SUBSET (1 .. k) : t = 1 .. j
        BY <2>1
    <3>2. Max(t) \in t /\ \A i \in t : i <= Max(t)
        BY <2>1, <3>1, MaxIs
    <3> QED
        BY <2>1, <3>1, <3>2
  <2>3. (1 .. j) \ {j} = 1 .. j - 1
      OBVIOUS
  <2>4. PICK held : held = f[1 .. j - 1]
      OBVIOUS
  <2>5. f[1 .. j] = Granted(held, s[j])
      BY <1>2, <2>1, <2>2, <2>3, <2>4
  <2>6. held \in SUBSET (Labels \X Labels) /\ Given(s, j - 1) \subseteq held /\ s[j] \in Labels
      BY <1>1, <1>3, <2>4
  <2>7. f[1 .. j] \in SUBSET (Labels \X Labels)
      BY <2>5, <2>6, GrantedIs
  <2>8. ASSUME NEW h \in Given(s, j) PROVE h \in f[1 .. j]
    <3>1. PICK i \in 1 .. j : /\ node[s[i]].class = "grant" /\ h[1] = s[i]
                              /\ \E x \in node[s[i]].targets : h[2] = x.object /\ SpeltAlike(x)
        BY <2>8 DEF Given
    <3>2. h \in Labels \X Labels
        BY <2>8 DEF Given
    <3>3. CASE i = j
      <4>1. h[2] \in Objects(node, s[j])
          BY <3>1, <3>3 DEF Objects
      <4>2. h \in {s[j]} \X Objects(node, s[j])
          BY <3>1, <3>2, <3>3, <4>1
      <4>3. f[1 .. j] = held \cup ({s[j]} \X Objects(node, s[j]))
          BY <2>5, <2>6, <3>1, <3>3, GrantedIs
      <4> QED
          BY <4>2, <4>3
    <3>4. CASE i # j
      <4>1. h \in Given(s, j - 1)
        <5>1. i \in 1 .. j - 1
            BY <3>4
        <5> QED
            BY <3>1, <3>2, <5>1 DEF Given
      <4>2. h \in held
          BY <2>6, <4>1
      <4>3. node[s[j]].class = "revoke" => h[2] \notin Objects(node, s[j])
          BY <4>1, RevokeSpares
      <4>4. \/ node[s[j]].class = "grant" /\ f[1 .. j] = held \cup ({s[j]} \X Objects(node, s[j]))
            \/ node[s[j]].class = "revoke" /\ f[1 .. j] = {g \in held : g[2] \notin Objects(node, s[j])}
            \/ f[1 .. j] = held
          BY <2>5, <2>6, GrantedIs
      <4> QED
          BY <4>2, <4>3, <4>4
    <3> QED
        BY <3>3, <3>4
  <2> QED
      BY <2>7, <2>8
<1>4. PICK S : S = {j \in 0 .. k : ~Keeps(j)}
    OBVIOUS
<1>5. S = {}
  <2> SUFFICES ASSUME S # {} PROVE FALSE
      OBVIOUS
  <2>1. S \subseteq Nat
      BY <1>4
  <2>2. PICK j \in S : \A i \in S : j <= i
      BY <2>1, LeastMember
  <2>3. Keeps(0)
    <3>1. 1 .. 0 = {} /\ Given(s, 0) = {}
        BY DEF Given
    <3> QED
        BY <1>2, <3>1
  <2> HIDE DEF Keeps
  <2>4. j # 0
      BY <1>4, <2>2, <2>3
  <2>5. j \in 1 .. k /\ j - 1 \in 0 .. k /\ j - 1 < j
      BY <1>4, <2>2, <2>4
  <2>6. Keeps(j - 1)
      BY <1>4, <2>2, <2>5
  <2> QED
      BY <1>3, <1>4, <2>2, <2>5, <2>6
<1>6. Keeps(k)
  <2> HIDE DEF Keeps
  <2> QED
      BY <1>4, <1>5
<1> QED
    BY <1>6

\* A grant is in force at the end where each REVOKE on its object spells it alike.
THEOREM PrivilegesStayAsWritten == Spec => []PrivilegesAsWritten
<1>1. ASSUME SortInv, phase = "model"
      PROVE  /\ GraphOk /\ order \in Seq(Labels) /\ DOMAIN order = 1 .. Len(order)
             /\ Len(order) \in Nat /\ Sequenced(order, Len(order))
  <2>1. GraphOk /\ order \in Seq(Labels) /\ emitted = Labels /\ IsInjective(order)
      BY <1>1, Sound DEF SortInv
  <2>2. PICK k \in Nat : k = Len(order) /\ DOMAIN order = 1 .. k
      BY <2>1
  <2>3. \A i, j \in 1 .. k : order[i] = order[j] => i = j
      BY <2>1, <2>2 DEF IsInjective
  <2>4. \A n \in Labels : \E i \in 1 .. k : order[i] = n
      BY <2>1, <2>2 DEF emitted, ToSet
  <2>5. ASSUME NEW j \in 1 .. k, node[order[j]].class # "extension", NEW d \in deps[order[j]]
        PROVE  \E i \in 1 .. j - 1 : order[i] = d
    <3>1. order[j] \in Labels
        BY <2>1, <2>2
    <3>2. order[j] \in Rest
        BY <2>5, <3>1 DEF Rest, Extensions
    <3>3. deps[order[j]] \subseteq Earlier(order, j)
        BY <1>1, <2>2, <3>2, Sound
    <3> QED
        BY <2>5, <3>3 DEF Earlier
  <2>6. Sequenced(order, k)
      BY <2>1, <2>2, <2>3, <2>4, <2>5 DEF Sequenced
  <2> QED
      BY <2>1, <2>2, <2>6
<1>2. ASSUME SortInv, phase = "model", NEW n \in Grants, NEW x \in node[n].targets, SpeltAlike(x)
      PROVE  <<n, x.object>> \in InForce
  <2>1. PICK s, k : s = order /\ k = Len(order)
      OBVIOUS
  <2>2. GraphOk /\ s \in Seq(Labels) /\ DOMAIN s = 1 .. k /\ k \in Nat /\ Sequenced(s, k)
      BY <1>1, <1>2, <2>1
  <2>3. PICK f : /\ f = CHOOSE g : g = Granting(g, s)
                 /\ FoldLeft(Granted, {}, s) = f[DOMAIN s]
      BY DEF FoldLeft, MapThenFoldSet, Granting
  <2>4. f = Granting(f, s)
      BY <2>2, <2>3, GrantingExists
  <2>5. InForce = f[1 .. k]
      BY <2>1, <2>2, <2>3 DEF InForce
  <2>6. Given(s, k) \subseteq InForce
      BY <2>2, <2>4, <2>5, GrantingKeeps
  <2>7. n \in Labels /\ node[n].class = "grant" /\ x.object \in Labels
    <3>1. n \in Labels /\ node[n].class = "grant"
        BY DEF Grants
    <3>2. x \in [object : Labels, spelt : Spellings]
        BY <2>2, <3>1, ObjectsIn
    <3> QED
        BY <3>1, <3>2
  <2>8. PICK i \in 1 .. k : s[i] = n
      BY <2>2, <2>7 DEF Sequenced
  <2>9. PICK h : h = <<n, x.object>>
      OBVIOUS
  <2>10. h \in Labels \X Labels /\ h[1] = n /\ h[2] = x.object
      BY <2>7, <2>9
  <2>11. h \in Given(s, k)
      BY <1>2, <2>7, <2>8, <2>10 DEF Given
  <2> QED
      BY <2>6, <2>9, <2>11
<1>3. ASSUME SortInv, phase = "model", NEW i \in DOMAIN order, NEW j \in DOMAIN order,
             node[order[i]].class = "defaultPrivileges", node[order[j]].names # {},
             node[order[i]].within = {} \/ node[order[j]].schema \in node[order[i]].within
      PROVE  i < j
  <2>1. PICK s, k : s = order /\ k = Len(order)
      OBVIOUS
  <2>2. GraphOk /\ s \in Seq(Labels) /\ DOMAIN s = 1 .. k /\ k \in Nat /\ Sequenced(s, k)
      BY <1>1, <1>3, <2>1
  <2>3. s[i] \in Labels /\ s[j] \in Labels /\ i \in 1 .. k /\ j \in 1 .. k
      BY <1>3, <2>1, <2>2
  <2>4. node[s[j]].class \notin {"extension", "grant", "revoke", "defaultPrivileges"}
      BY <1>3, <2>1, <2>2, <2>3, CreationAssumption DEF GraphOk, node, Labels
  <2>5. s[i] \in Defaults(node, s[j])
      BY <1>3, <2>1, <2>3, <2>4 DEF Defaults, Labels
  <2>6. s[i] \in deps[s[j]]
    <3>1. deps[s[j]] = Deps(node, s[j])
        BY <2>2, <2>3, GraphIs
    <3>2. s[i] # s[j]
        BY <1>3, <2>1, <2>4
    <3> QED
        BY <2>5, <3>1, <3>2 DEF Deps
  <2>7. PICK l \in 1 .. j - 1 : s[l] = s[i]
      BY <2>2, <2>3, <2>4, <2>6 DEF Sequenced
  <2>8. l \in 1 .. k
      BY <2>2, <2>3
  <2>9. l = i
      BY <2>2, <2>3, <2>7, <2>8 DEF Sequenced
  <2> QED
      BY <2>3, <2>9
<1>4. SortInv => PrivilegesAsWritten
    BY <1>2, <1>3 DEF PrivilegesAsWritten
<1> QED
    BY SortHolds, <1>4, PTL
=============================================================================
