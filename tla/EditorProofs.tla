---------------------------- MODULE EditorProofs ----------------------------
(***************************************************************************)
(* Proofs about WorkflowEditor, for any names, examples and drafts: in     *)
(* whatever order things are done on the graph and in the dialog, a        *)
(* definition keeps a start and the references it had, and no gesture on   *)
(* the graph closes a cycle.                                               *)
(*                                                                         *)
(* EditorInv says of the definition that it is well formed and that its    *)
(* start is defined, and of an open dialog that its draft is a node of some*)
(* kind, opened from one that is still there and leading only where the    *)
(* definition has, or had, nodes: a draft is saved many steps after it was *)
(* opened.  That no cycle is closed rests on what Reach computes (ReachIs):*)
(* the least set that holds a node and what its nodes lead to, so that an  *)
(* edge to a node from which its source is not reached closes none         *)
(* (EdgeAdded).                                                            *)
(***************************************************************************)
EXTENDS EditorProperties, WorkflowProofs

(* What findTerminal returns is an open end.                               *)
LEMMA TerminalFound ==
  ASSUME NEW w, NEW newId
  PROVE  findTerminal(w, newId) = NoNode \/ IsTerminal(w, newId, findTerminal(w, newId))
PROOF
<1> DEFINE ids  == Visited(w, newId)
           ends == {k \in 1..Len(ids) : IsTerminal(w, newId, ids[k])}
<1> HIDE DEF ids
<1> SUFFICES ASSUME ends # {} PROVE IsTerminal(w, newId, ids[Min(ends)])
  BY DEF findTerminal, ids
<1>1. ends \subseteq Nat
  OBVIOUS
<1>2. PICK x \in ends : \A y \in ends : x <= y
  BY <1>1, LeastNatural
<1>3. Min(ends) \in ends
  <2> HIDE DEF ends
  <2> QED BY <1>2 DEF Min
<1> QED BY <1>3

(* Position is that of the first node with the id.                         *)
LEMMA PositionIs ==
  ASSUME NEW w, NEW N, w.nodes \in Seq(N), NEW id, Defined(w, id)
  PROVE  /\ Position(w, id) \in 1..Len(w.nodes)
         /\ w.nodes[Position(w, id)].id = id
         /\ \A k \in 1..Len(w.nodes) : w.nodes[k].id = id => Position(w, id) <= k
PROOF
<1> DEFINE At == {k \in 1..Len(w.nodes) : w.nodes[k].id = id}
<1>1. At \subseteq Nat /\ At # {}
  BY DEF Defined, NodeIDs, NodesOf
<1>2. PICK x \in At : \A y \in At : x <= y
  BY <1>1, LeastNatural
<1>3. Min(At) \in At /\ \A y \in At : Min(At) <= y
  <2> HIDE DEF At
  <2> QED BY <1>2 DEF Min
<1>4. Position(w, id) = Min(At)
  BY <1>1 DEF Position, SelectInSeq
<1> QED BY <1>3, <1>4

(* Reach is the least set that holds id and all that its members lead to:  *)
(* a level that adds nothing is reached within as many levels as nodes.    *)
LEMMA ReachIs ==
  ASSUME NEW w, NEW N, w.nodes \in Seq(N), NEW id
  PROVE  /\ id \in Reach(w, id)
         /\ \A x \in Reach(w, id) : Onward(w, x) \subseteq Reach(w, id)
         /\ \A C : id \in C /\ (\A x \in C : Onward(w, x) \subseteq C) => Reach(w, id) \subseteq C
PROOF
<1> DEFINE n == Len(w.nodes)
           T == {id} \cup UNION {Onward(w, x) : x \in NodeIDs(w)}
           next == [x \in T |-> Onward(w, x)]
           Is(f) == f = [k \in 0..n |-> IF k = 0 THEN {id} ELSE f[k - 1] \cup UNION {Onward(w, x) : x \in f[k - 1]}]
<1>1. n \in Nat
  OBVIOUS
<1>2. /\ next \in [T -> SUBSET T] /\ {id} \in SUBSET T
      /\ \A x : x \notin NodeIDs(w) => Onward(w, x) = {}
  BY DEF Onward, Defined
<1> HIDE DEF n
<1>3. PICK f : f \in [0..n -> SUBSET T] /\ LevelsFrom(f, {id}, next, n)
  <2> DEFINE A == {id}
  <2> HIDE DEF T, next, A
  <2>1. A \in SUBSET T
    BY <1>2 DEF A
  <2>2. \E f : f \in [0..n -> SUBSET T] /\ LevelsFrom(f, A, next, n)
    BY <1>1, <1>2, <2>1, LevelsExist
  <2> QED BY <2>2 DEF A
<1>4. ASSUME NEW B \in SUBSET T PROVE UNION {next[x] : x \in B} = UNION {Onward(w, x) : x \in B}
  OBVIOUS
<1>5. Is(f)
  <2> HIDE DEF T, next
  <2>1. ASSUME NEW k \in 0..n, k # 0 PROVE f[k] = f[k - 1] \cup UNION {Onward(w, x) : x \in f[k - 1]}
    <3>1. k - 1 \in 0..n /\ f[k - 1] \in SUBSET T
      BY <1>1, <1>3, <2>1
    <3> QED BY <1>3, <1>4, <2>1, <3>1 DEF LevelsFrom
  <2>2. 0 \in 0..n /\ f[0] = {id}
    BY <1>1, <1>3 DEF LevelsFrom
  <2> QED BY <1>3, <2>1, <2>2
<1> DEFINE far == CHOOSE far : Is(far)
           U == {k \in 0..n : far[k] \subseteq T}
<1>6. Is(far)
  <2> HIDE DEF Is
  <2> QED BY <1>5
<1>7. Reach(w, id) = far[n]
  BY DEF Reach, n
<1> HIDE DEF far
<1>8. 0 \in U /\ \A k \in 1..n : k - 1 \in U => k \in U
  <2>1. 0 \in U
    BY <1>1, <1>6
  <2>2. ASSUME NEW k \in 1..n, far[k - 1] \subseteq T PROVE far[k] \subseteq T
    <3>1. far[k] = far[k - 1] \cup UNION {Onward(w, x) : x \in far[k - 1]}
      BY <1>1, <1>6
    <3>2. \A x \in T : Onward(w, x) \subseteq T
      BY <1>2
    <3> HIDE DEF T
    <3> QED BY <2>2, <3>1, <3>2
  <2> HIDE DEF T, Is
  <2> QED BY <1>1, <2>1, <2>2
<1>9. \A k \in 0..n : far[k] \in SUBSET T
  <2> HIDE DEF U
  <2>1. \A k \in 0..n : k \in U
    BY <1>1, <1>8, UpTo
  <2> QED BY <2>1 DEF U
<1>10. far \in [0..n -> SUBSET T] /\ LevelsFrom(far, {id}, next, n)
  <2>1. ASSUME NEW k \in 0..n, k # 0 PROVE far[k] = far[k - 1] \cup (UNION {next[x] : x \in far[k - 1]})
    <3>1. k - 1 \in 0..n /\ far[k - 1] \in SUBSET T
      BY <1>1, <1>9, <2>1
    <3>2. far[k] = far[k - 1] \cup UNION {Onward(w, x) : x \in far[k - 1]}
      BY <1>6, <2>1
    <3> HIDE DEF T, next
    <3> QED BY <1>4, <3>1, <3>2
  <2>2. far[0] = {id} /\ 0 \in 0..n
    BY <1>1, <1>6
  <2>3. far \in [0..n -> SUBSET T]
    <3> HIDE DEF T
    <3> QED BY <1>6, <1>9
  <2> HIDE DEF T, next, Is
  <2> QED BY <2>1, <2>2, <2>3 DEF LevelsFrom
<1>11. /\ id \in far[n]
       /\ \A x \in far[n] : x \in T /\ next[x] \subseteq far[n]
       /\ \A C : id \in C /\ (\A x \in C \cap T : next[x] \subseteq C) => far[n] \subseteq C
  <2> DEFINE A == {id}
             D == NodeIDs(w)
  <2>1. A \in SUBSET T /\ \A x \in T \ D : next[x] = {}
    BY <1>2
  <2>2. IsFiniteSet(D) /\ Cardinality(D) <= n
    BY NodeIDsBounded DEF n
  <2>3. LevelsFrom(far, A, next, n)
    BY <1>10
  <2> HIDE DEF T, next, D
  <2>4. /\ A \subseteq far[n]
        /\ \A x \in far[n] : x \in T /\ next[x] \subseteq far[n]
        /\ \A C : A \subseteq C /\ (\A x \in C \cap T : next[x] \subseteq C) => far[n] \subseteq C
    <3> HIDE DEF A
    <3> QED BY <1>1, <1>2, <1>10, <2>1, <2>2, <2>3, LevelsClose
  <2> QED BY <2>4
<1>12. \A x \in T : next[x] = Onward(w, x)
  OBVIOUS
<1> HIDE DEF T, next
<1> QED BY <1>7, <1>11, <1>12

(* What is reached from what is reached is reached.                        *)
LEMMA ReachTransitive ==
  ASSUME NEW w, NEW N, w.nodes \in Seq(N), NEW x, NEW y \in Reach(w, x)
  PROVE  Reach(w, y) \subseteq Reach(w, x)
BY ReachIs

(* One more edge, to a node from which its source cannot be reached.       *)
LEMMA EdgeAdded ==
  ASSUME NEW w, NEW v, NEW N, w.nodes \in Seq(N), v.nodes \in Seq(N), NEW s, NEW t,
         \A x : Onward(v, x) \subseteq Onward(w, x) \cup (IF x = s THEN {t} ELSE {}),
         s \notin Reach(w, t), Acyclic(w)
  PROVE  Acyclic(v)
PROOF
<1> SUFFICES ASSUME NEW id \in NodeIDs(v), NEW x \in Onward(v, id) PROVE id \notin Reach(v, x)
  BY DEF Acyclic
<1>1. ASSUME NEW C, x \in C, id \notin C, \A y \in C : Onward(w, y) \subseteq C, s \notin C \/ t \in C
      PROVE  id \notin Reach(v, x)
  <2>1. \A y \in C : Onward(v, y) \subseteq C
    BY <1>1
  <2>2. Reach(v, x) \subseteq C
    BY <1>1, <2>1, ReachIs
  <2> QED BY <1>1, <2>2
<1>2. CASE x \in Onward(w, id)
  <2>1. id \in NodeIDs(w)
    BY <1>2 DEF Onward, Defined
  <2>2. id \notin Reach(w, x)
    BY <1>2, <2>1 DEF Acyclic
  <2>3. x \in Reach(w, x) /\ \A y \in Reach(w, x) : Onward(w, y) \subseteq Reach(w, x)
    BY ReachIs
  <2>4. CASE s \notin Reach(w, x)
    BY <1>1, <2>2, <2>3, <2>4
  <2>5. CASE s \in Reach(w, x)
    <3>1. t \in Reach(w, t) /\ \A y \in Reach(w, t) : Onward(w, y) \subseteq Reach(w, t)
      BY ReachIs
    <3>2. id \notin Reach(w, t)
      <4> SUFFICES ASSUME id \in Reach(w, t) PROVE FALSE
        OBVIOUS
      <4>1. x \in Reach(w, t)
        BY <1>2, <3>1
      <4>2. s \in Reach(w, t)
        BY <2>5, <4>1, ReachTransitive
      <4> QED BY <4>2
    <3> DEFINE C == Reach(w, x) \cup Reach(w, t)
    <3>3. x \in C /\ id \notin C /\ t \in C /\ \A y \in C : Onward(w, y) \subseteq C
      BY <2>2, <2>3, <3>1, <3>2
    <3> HIDE DEF C
    <3> QED BY <1>1, <3>3
  <2> QED BY <2>4, <2>5
<1>3. CASE id = s /\ x = t
  <2>1. t \in Reach(w, t) /\ \A y \in Reach(w, t) : Onward(w, y) \subseteq Reach(w, t)
    BY ReachIs
  <2> QED BY <1>1, <1>3, <2>1
<1> QED BY <1>2, <1>3

-----------------------------------------------------------------------------
(* The nodes a node leads to.                                              *)
TargetsOf(n) == Range(Successors(n)) \ {NoNode}

(* The targets of a node, by its kind.                                     *)
LEMMA TargetsOfNode ==
  ASSUME NEW n \in Node
  PROVE  TargetsOf(n) = (IF n.type = "filter" THEN {n.branches[i].next : i \in 1..Len(n.branches)}
                         ELSE {n.next}) \ {NoNode}
PROOF
<1>1. Len(n.branches) \in Nat
  BY DEF Node
<1>2. CASE n.type = "filter"
  BY <1>1, <1>2 DEF TargetsOf, Range, Successors
<1>3. CASE n.type # "filter" /\ n.next = NoNode
  BY <1>3 DEF TargetsOf, Range, Successors
<1>4. CASE n.type # "filter" /\ n.next # NoNode
  <2>1. Successors(n) = <<n.next>>
    BY <1>4 DEF Successors
  <2>2. Range(<<n.next>>) = {n.next}
    BY DEF Range
  <2> QED BY <1>4, <2>1, <2>2 DEF TargetsOf
<1> QED BY <1>2, <1>3, <1>4

(* The targets of a list are those of its nodes.                           *)
LEMMA TargetsAre ==
  ASSUME NEW w, NEW N, w.nodes \in Seq(N)
  PROVE  Targets(w.nodes) = UNION {TargetsOf(n) : n \in NodesOf(w)}
PROOF
<1>1. ASSUME NEW y
      PROVE  y \in Targets(w.nodes) <=> \E n \in NodesOf(w) : y \in TargetsOf(n)
  <2>1. y \in Targets(w.nodes) <=> \E k \in 1..Len(w.nodes) : y \in TargetsOf(w.nodes[k])
    BY DEF Targets, TargetsOf
  <2>2. (\E k \in 1..Len(w.nodes) : y \in TargetsOf(w.nodes[k]))
          <=> \E n \in NodesOf(w) : y \in TargetsOf(n)
    BY DEF NodesOf
  <2> QED BY <2>1, <2>2
<1> QED BY <1>1

(* Removing an element leaves only elements there were.                    *)
LEMMA RemoveAtIs ==
  ASSUME NEW S, NEW s \in Seq(S), NEW i \in 1..Len(s)
  PROVE  /\ RemoveAt(s, i) \in Seq(S)
         /\ \A j \in 1..Len(RemoveAt(s, i)) : \E k \in 1..Len(s) : RemoveAt(s, i)[j] = s[k]
PROOF
<1> DEFINE a == SubSeq(s, 1, i - 1)
           b == SubSeq(s, i + 1, Len(s))
           r == a \o b
<1>1. /\ a \in Seq(S) /\ Len(a) = i - 1 /\ \A j \in 1..(i - 1) : a[j] = s[j]
      /\ b \in Seq(S) /\ Len(b) = Len(s) - i /\ \A j \in 1..(Len(s) - i) : b[j] = s[i + j]
  BY SubSeqProperties
<1> HIDE DEF a, b
<1>2. r \in Seq(S) /\ Len(r) = Len(s) - 1
      /\ \A j \in 1..Len(r) : r[j] = IF j <= i - 1 THEN s[j] ELSE s[j + 1]
  <2>1. /\ r \in Seq(S) /\ Len(r) = Len(a) + Len(b)
        /\ \A j \in 1..(Len(a) + Len(b)) : r[j] = IF j <= Len(a) THEN a[j] ELSE b[j - Len(a)]
    BY <1>1, ConcatProperties
  <2>2. Len(s) \in Nat
    OBVIOUS
  <2> HIDE DEF r
  <2>3. ASSUME NEW j \in 1..Len(r) PROVE r[j] = IF j <= i - 1 THEN s[j] ELSE s[j + 1]
    <3>1. CASE j <= i - 1
      BY <1>1, <2>1, <2>2, <3>1
    <3>2. CASE ~ j <= i - 1
      <4>1. j - (i - 1) \in 1..(Len(s) - i) /\ i + (j - (i - 1)) = j + 1
        BY <1>1, <2>1, <2>2, <3>2
      <4>2. r[j] = b[j - (i - 1)]
        BY <1>1, <2>1, <3>2
      <4>3. b[j - (i - 1)] = s[j + 1]
        BY <1>1, <4>1
      <4> QED BY <3>2, <4>2, <4>3
    <3> QED BY <3>1, <3>2
  <2> QED BY <1>1, <2>1, <2>2, <2>3
<1>3. ASSUME NEW j \in 1..Len(r) PROVE \E k \in 1..Len(s) : r[j] = s[k]
  <2>1. j \in 1..Len(s) /\ j + 1 \in 1..Len(s)
    BY <1>2
  <2> HIDE DEF r
  <2> QED BY <1>2, <2>1
<1> QED BY <1>2, <1>3 DEF RemoveAt, a, b

PutAs(w, id, n, v) ==
  /\ v \in Definition /\ v.start = w.start
  /\ NodesOf(v) \subseteq NodesOf(w) \cup {n} /\ n \in NodesOf(v)
  /\ \A m \in NodesOf(w) : m.id # id => m \in NodesOf(v)
  /\ v.nodes = IF Defined(w, id) THEN [w.nodes EXCEPT ![Position(w, id)] = n] ELSE Append(w.nodes, n)

(* Put replaces the first node with the id, or appends.                    *)
LEMMA PutIs ==
  ASSUME NEW w \in Definition, NEW id, NEW n \in Node
  PROVE  PutAs(w, id, n, Put(w, id, n))
PROOF
<1> DEFINE v == Put(w, id, n)
<1>0. w.nodes \in Seq(Node)
  BY DEF Definition
<1>1. CASE Defined(w, id)
  <2> DEFINE p == Position(w, id)
  <2>1. /\ p \in 1..Len(w.nodes) /\ w.nodes[p].id = id
    BY <1>0, <1>1, PositionIs
  <2>2. v = [w EXCEPT !.nodes = [w.nodes EXCEPT ![p] = n]]
    BY <1>1 DEF Put, Definition
  <2> HIDE DEF p, v
  <2>3. v.start = w.start /\ v.nodes = [w.nodes EXCEPT ![p] = n] /\ v \in Definition
    <3>1. [w.nodes EXCEPT ![p] = n] \in Seq(Node)
      BY <1>0, <2>1
    <3> QED BY <2>2, <3>1 DEF Definition
  <2>4. Len(v.nodes) = Len(w.nodes) /\ \A k \in 1..Len(w.nodes) : v.nodes[k] = IF k = p THEN n ELSE w.nodes[k]
    BY <1>0, <2>1, <2>3
  <2> QED BY <1>1, <2>1, <2>3, <2>4 DEF PutAs, NodesOf, v, p
<1>2. CASE ~ Defined(w, id)
  <2>1. v = [w EXCEPT !.nodes = Append(w.nodes, n)]
    BY <1>2 DEF Put
  <2> HIDE DEF v
  <2>2. v.start = w.start /\ v.nodes = Append(w.nodes, n) /\ v \in Definition
    <3>1. Append(w.nodes, n) \in Seq(Node)
      BY <1>0, AppendProperties
    <3> QED BY <2>1, <3>1 DEF Definition
  <2>3. Len(v.nodes) = Len(w.nodes) + 1 /\ Len(w.nodes) \in Nat
        /\ \A k \in 1..(Len(w.nodes) + 1) : v.nodes[k] = IF k = Len(w.nodes) + 1 THEN n ELSE w.nodes[k]
    BY <1>0, <2>2, AppendProperties
  <2>4. NodesOf(v) = NodesOf(w) \cup {n}
    <3>1. ASSUME NEW m \in NodesOf(v) PROVE m \in NodesOf(w) \cup {n}
      BY <2>3 DEF NodesOf
    <3>2. ASSUME NEW m \in NodesOf(w) PROVE m \in NodesOf(v)
      <4>1. PICK k \in 1..Len(w.nodes) : m = w.nodes[k]
        BY DEF NodesOf
      <4>2. k \in 1..Len(v.nodes) /\ v.nodes[k] = m
        BY <2>3, <4>1
      <4> QED BY <4>2 DEF NodesOf
    <3>3. Len(w.nodes) + 1 \in 1..Len(v.nodes) /\ v.nodes[Len(w.nodes) + 1] = n
      BY <2>3
    <3>4. n \in NodesOf(v)
      BY <3>3 DEF NodesOf
    <3> QED BY <3>1, <3>2, <3>4
  <2> QED BY <1>2, <2>2, <2>4 DEF PutAs, v
<1> QED BY <1>1, <1>2

(* Redirecting changes neither what a list is nor the shape of its nodes.  *)
RedirectedNode(n, old, new, m) ==
  /\ m \in Node /\ m.id = n.id /\ m.type = n.type
  /\ Fits(n) => Fits(m)
  /\ TargetsOf(m) \subseteq {Redirect(y, old, new) : y \in TargetsOf(n)}
  /\ Len(m.branches) = Len(n.branches)

LEMMA RedirectedIs ==
  ASSUME NEW ns \in Seq(Node), NEW old, old # NoNode, NEW new \in Names \cup {NoNode}
  PROVE  /\ Redirected(ns, old, new) \in Seq(Node) /\ Len(Redirected(ns, old, new)) = Len(ns)
         /\ \A k \in 1..Len(ns) : RedirectedNode(ns[k], old, new, Redirected(ns, old, new)[k])
PROOF
<1> DEFINE rs == Redirected(ns, old, new)
           R(n) == [n EXCEPT !.next = Redirect(@, old, new),
                             !.branches = [i \in 1..Len(@) |-> [next |-> Redirect(@[i].next, old, new)]]]
<1>1. ASSUME NEW n \in Node PROVE RedirectedNode(n, old, new, R(n))
  <2> DEFINE S(b) == [next |-> Redirect(b.next, old, new)]
             bs == [i \in 1..Len(n.branches) |-> S(n.branches[i])]
             x  == Redirect(n.next, old, new)
             m  == R(n)
  <2> DEFINE B == [next : Names \cup {NoNode}]
  <2>1. n.branches \in Seq(B) /\ n.next \in Names \cup {NoNode}
    BY DEF Node
  <2>2. Len(n.branches) \in Nat /\ \A i \in 1..Len(n.branches) : n.branches[i] \in B
    <3> HIDE DEF B
    <3> QED BY <2>1
  <2>3. \A i \in 1..Len(n.branches) : bs[i] \in B /\ bs[i].next = Redirect(n.branches[i].next, old, new)
    BY <2>2 DEF Redirect
  <2>4. bs \in Seq(B) /\ Len(bs) = Len(n.branches)
    <3>1. \A i \in 1..Len(n.branches) : S(n.branches[i]) \in B
      BY <2>3
    <3> HIDE DEF B, S
    <3> QED BY <2>2, <3>1
  <2>5. x \in Names \cup {NoNode}
    BY <2>1 DEF Redirect
  <2>6. m = [n EXCEPT !.next = x, !.branches = bs]
    <3>1. n = [id |-> n.id, type |-> n.type, next |-> n.next, branches |-> n.branches]
      BY DEF Node
    <3>2. bs = [i \in 1..Len(n.branches) |-> [next |-> Redirect(n.branches[i].next, old, new)]]
      OBVIOUS
    <3> HIDE DEF x, bs
    <3>3. m = [n EXCEPT !.next = x, !.branches = [i \in 1..Len(n.branches) |-> [next |-> Redirect(n.branches[i].next, old, new)]]]
      BY DEF x
    <3> QED BY <3>2, <3>3
  <2> HIDE DEF m, bs, x
  <2>7. m \in Node /\ m.id = n.id /\ m.type = n.type /\ m.next = x /\ m.branches = bs
    BY <2>4, <2>5, <2>6 DEF Node, B
  <2>8. Fits(n) => Fits(m)
    <3>1. ASSUME n.next = NoNode PROVE x = NoNode
      BY <3>1 DEF x, Redirect
    <3>2. ASSUME n.branches = <<>> PROVE bs = <<>>
      <4>1. Len(bs) = 0
        BY <2>4, <3>2
      <4> QED BY <2>4, <4>1
    <3> QED BY <2>7, <3>1, <3>2 DEF Fits
  <2>9. ASSUME NEW y \in TargetsOf(m) PROVE \E z \in TargetsOf(n) : y = Redirect(z, old, new)
    <3>1. y # NoNode
      BY DEF TargetsOf
    <3>2. CASE n.type = "filter"
      <4>1. PICK i \in 1..Len(bs) : y = bs[i].next
        BY <2>7, <2>9, <3>2, TargetsOfNode
      <4>2. i \in 1..Len(n.branches) /\ y = Redirect(n.branches[i].next, old, new)
        BY <2>3, <2>4, <4>1
      <4>3. n.branches[i].next # NoNode
        BY <3>1, <4>2 DEF Redirect
      <4>4. n.branches[i].next \in TargetsOf(n)
        BY <3>2, <4>2, <4>3, TargetsOfNode
      <4> QED BY <4>2, <4>4
    <3>3. CASE n.type # "filter"
      <4>1. y = Redirect(n.next, old, new)
        BY <2>7, <2>9, <3>3, TargetsOfNode DEF x
      <4>2. n.next # NoNode
        BY <3>1, <4>1 DEF Redirect
      <4>3. n.next \in TargetsOf(n)
        BY <3>3, <4>2, TargetsOfNode
      <4> QED BY <4>1, <4>3
    <3> QED BY <3>2, <3>3
  <2>10. RedirectedNode(n, old, new, m)
    BY <2>4, <2>7, <2>8, <2>9 DEF RedirectedNode
  <2> QED BY <2>10 DEF m
<1>2. rs = [k \in 1..Len(ns) |-> R(ns[k])]
  BY DEF Redirected
<1>3. Len(ns) \in Nat /\ \A k \in 1..Len(ns) : ns[k] \in Node
  OBVIOUS
<1> HIDE DEF rs, R
<1>4. \A k \in 1..Len(ns) : RedirectedNode(ns[k], old, new, rs[k])
  BY <1>1, <1>2, <1>3
<1>5. \A k \in 1..Len(ns) : R(ns[k]) \in Node
  BY <1>1, <1>3 DEF RedirectedNode
<1>6. rs \in Seq(Node) /\ Len(rs) = Len(ns)
  BY <1>2, <1>3, <1>5
<1> QED BY <1>4, <1>6 DEF rs

-----------------------------------------------------------------------------
Well(w) == w \in Definition /\ \A n \in NodesOf(w) : Fits(n) /\ n.id # NoNode
StartOK(w) == IF w.nodes = <<>> THEN w.start = NoNode ELSE Defined(w, w.start)

(* What an edit leaves: a definition with at least these ids, and at most  *)
(* these targets.                                                          *)
Edited(v, ids, ts) == Well(v) /\ StartOK(v) /\ ids \subseteq NodeIDs(v) /\ Targets(v.nodes) \subseteq ts

(* A node that may be put into a definition.                               *)
NewNode(n) == n \in Node /\ Fits(n) /\ n.id # NoNode

(* The fields of a definition.                                             *)
LEMMA NodesTyped ==
  ASSUME NEW w \in Definition
  PROVE  w.nodes \in Seq(Node) /\ w.start \in Names \cup {NoNode} /\ NodesOf(w) \subseteq Node /\ Len(w.nodes) \in Nat
         /\ w = [start |-> w.start, nodes |-> w.nodes]
BY DEF Definition, NodesOf

PutLeaves(w, id, n, v) ==
  /\ Well(v) /\ v.start = w.start /\ v.nodes # <<>>
  /\ (NodeIDs(w) \ {id}) \cup {n.id} \subseteq NodeIDs(v)
  /\ Targets(v.nodes) \subseteq Targets(w.nodes) \cup TargetsOf(n)

(* Putting a node loses no id but that of the node it replaces.            *)
LEMMA PutKeeps ==
  ASSUME NEW w, Well(w), NEW id, NEW n, NewNode(n)
  PROVE  PutLeaves(w, id, n, Put(w, id, n))
PROOF
<1> DEFINE v == Put(w, id, n)
<1>1. PutAs(w, id, n, v)
  BY PutIs DEF Well, NewNode
<1> HIDE DEF v
<1>2. Well(v) /\ v.start = w.start
  BY <1>1 DEF PutAs, Well, NewNode
<1>3. v.nodes # <<>>
  <2>1. PICK k \in 1..Len(v.nodes) : v.nodes[k] = n
    BY <1>1 DEF PutAs, NodesOf
  <2> QED BY <2>1
<1>4. (NodeIDs(w) \ {id}) \cup {n.id} \subseteq NodeIDs(v)
  BY <1>1 DEF PutAs, NodeIDs
<1>5. Targets(v.nodes) \subseteq Targets(w.nodes) \cup TargetsOf(n)
  <2>1. v.nodes \in Seq(Node) /\ w.nodes \in Seq(Node)
    BY <1>2, NodesTyped DEF Well
  <2>2. /\ Targets(v.nodes) = UNION {TargetsOf(m) : m \in NodesOf(v)}
        /\ Targets(w.nodes) = UNION {TargetsOf(m) : m \in NodesOf(w)}
    BY <2>1, TargetsAre
  <2> QED BY <1>1, <2>2 DEF PutAs
<1> QED BY <1>2, <1>3, <1>4, <1>5 DEF PutLeaves, v

(* A save under the same id.                                               *)
LEMMA ReplacedKeeps ==
  ASSUME NEW w, Well(w), StartOK(w), w.nodes # <<>>, NEW n, NewNode(n)
  PROVE  Edited(Put(w, n.id, n), NodeIDs(w) \cup {n.id}, Targets(w.nodes) \cup TargetsOf(n))
PROOF
<1> DEFINE v == Put(w, n.id, n)
<1>1. PutLeaves(w, n.id, n, v)
  BY PutKeeps
<1> HIDE DEF v
<1>2. StartOK(v)
  BY <1>1 DEF PutLeaves, StartOK, Defined
<1> QED BY <1>1, <1>2 DEF PutLeaves, Edited, v

(* A save under a new id: who named the old id names the new one.          *)
LEMMA RenamedKeeps ==
  ASSUME NEW w, Well(w), StartOK(w), NEW n, NewNode(n), NEW old \in NodeIDs(w), old # n.id
  PROVE  Edited(upsertNode(w, n, old), (NodeIDs(w) \ {old}) \cup {n.id},
                {Redirect(y, old, n.id) : y \in Targets(w.nodes)} \cup TargetsOf(n))
PROOF
<1> DEFINE rs == Redirected(w.nodes, old, n.id)
           x  == [start |-> Redirect(w.start, old, n.id), nodes |-> rs]
           v  == Put(x, old, n)
<1>1. old # NoNode /\ n.id \in Names /\ n.id # NoNode /\ w.nodes \in Seq(Node)
      /\ w.start \in Names \cup {NoNode} /\ Len(w.nodes) \in Nat
  BY NodesTyped DEF Well, NewNode, Node, NodeIDs
<1>2. upsertNode(w, n, old) = v
  BY <1>1 DEF upsertNode
<1>3. /\ rs \in Seq(Node) /\ Len(rs) = Len(w.nodes)
      /\ \A k \in 1..Len(w.nodes) : RedirectedNode(w.nodes[k], old, n.id, rs[k])
  BY <1>1, RedirectedIs
<1> HIDE DEF rs
<1>4. x \in Definition /\ x.nodes = rs /\ x.start = Redirect(w.start, old, n.id)
  BY <1>1, <1>3 DEF Definition, Redirect
<1> HIDE DEF x
<1>5. Well(x)
  BY <1>1, <1>3, <1>4 DEF Well, NodesOf, RedirectedNode
<1>6. NodeIDs(x) = NodeIDs(w)
  <2>1. \A k \in 1..Len(w.nodes) : rs[k].id = w.nodes[k].id
    BY <1>3 DEF RedirectedNode
  <2> QED BY <1>3, <1>4, <2>1 DEF NodeIDs, NodesOf
<1>7. PutLeaves(x, old, n, v)
  BY <1>5, PutKeeps
<1> HIDE DEF v
<1>8. StartOK(v)
  <2>1. w.nodes # <<>>
    BY DEF NodeIDs, NodesOf
  <2>2. w.start \in NodeIDs(w)
    BY <2>1 DEF StartOK, Defined
  <2>3. v.start \in NodeIDs(v)
    BY <1>4, <1>6, <1>7, <2>2 DEF PutLeaves, Redirect
  <2> QED BY <1>7, <2>3 DEF PutLeaves, StartOK, Defined
<1>9. Targets(x.nodes) \subseteq {Redirect(y, old, n.id) : y \in Targets(w.nodes)}
  <2> SUFFICES ASSUME NEW z \in Targets(x.nodes) PROVE \E y \in Targets(w.nodes) : z = Redirect(y, old, n.id)
    OBVIOUS
  <2>1. PICK k \in 1..Len(w.nodes) : z \in TargetsOf(rs[k])
    BY <1>3, <1>4 DEF Targets, TargetsOf
  <2>2. PICK y \in TargetsOf(w.nodes[k]) : z = Redirect(y, old, n.id)
    BY <1>3, <2>1 DEF RedirectedNode
  <2>3. y \in Targets(w.nodes)
    BY DEF Targets, TargetsOf
  <2> QED BY <2>2, <2>3
<1>10. Edited(v, (NodeIDs(w) \ {old}) \cup {n.id},
              {Redirect(y, old, n.id) : y \in Targets(w.nodes)} \cup TargetsOf(n))
  BY <1>6, <1>7, <1>8, <1>9 DEF PutLeaves, Edited
<1> QED BY <1>2, <1>10

(* The elements of a list.                                                 *)
LEMMA RangeIs ==
  ASSUME NEW S, NEW s \in Seq(S)
  PROVE  Range(s) = {s[i] : i \in 1..Len(s)} /\ Range(s) \subseteq S
BY DEF Range

(* A deletion takes the id, and every reference to it.                     *)
LEMMA DeletedKeeps ==
  ASSUME NEW w, Well(w), StartOK(w), NEW id \in NodeIDs(w)
  PROVE  Edited(deleteNode(w, id), NodeIDs(w) \ {id}, Targets(w.nodes) \ {id})
PROOF
<1> DEFINE ns == w.nodes
           K  == {k \in 1..Len(ns) : ns[k].id # id}
           ps == Picked(ns, K)
           rs == Redirected(ps, id, NoNode)
           v  == deleteNode(w, id)
<1>1. ns \in Seq(Node) /\ w.start \in Names \cup {NoNode} /\ id # NoNode /\ Len(ns) \in Nat /\ id \in Names
      /\ \A n \in NodesOf(w) : n \in Node /\ Fits(n) /\ n.id # NoNode
  BY NodesTyped DEF Well, NodeIDs, Node
<1>2. /\ ps \in Seq(Node)
      /\ {ps[j] : j \in 1..Len(ps)} = {ns[k] : k \in K}
  <2>1. K \subseteq 1..Len(ns)
    OBVIOUS
  <2> HIDE DEF K, ns
  <2> QED BY <1>1, <2>1, PickedIs
<1>3. /\ \A j \in 1..Len(ps) : ps[j] \in NodesOf(w) /\ ps[j].id # id
      /\ \A n \in NodesOf(w) : n.id # id => \E j \in 1..Len(ps) : ps[j] = n
  <2>1. {ns[k] : k \in K} = {n \in NodesOf(w) : n.id # id}
    BY DEF NodesOf
  <2> HIDE DEF ps
  <2> QED BY <1>2, <2>1
<1> HIDE DEF ps, K
<1>4. /\ rs \in Seq(Node) /\ Len(rs) = Len(ps)
      /\ \A k \in 1..Len(ps) : RedirectedNode(ps[k], id, NoNode, rs[k])
  BY <1>1, <1>2, RedirectedIs
<1>5. Without(ns, id) = rs
  BY DEF Without, ps, K
<1> HIDE DEF rs
<1> DEFINE st == IF w.start # id THEN w.start ELSE IF rs = <<>> THEN NoNode ELSE rs[1].id
<1>6. v = [start |-> st, nodes |-> rs] /\ v.nodes = rs /\ v.start = st
  BY <1>5 DEF deleteNode
<1> HIDE DEF v
<1>7. Len(rs) \in Nat /\ \A k \in 1..Len(rs) : rs[k] \in Node /\ Fits(rs[k]) /\ rs[k].id # NoNode
  <2>1. Len(rs) \in Nat
    BY <1>4
  <2>2. ASSUME NEW k \in 1..Len(rs) PROVE rs[k] \in Node /\ Fits(rs[k]) /\ rs[k].id # NoNode
    <3>1. ps[k] \in NodesOf(w) /\ RedirectedNode(ps[k], id, NoNode, rs[k])
      BY <1>3, <1>4
    <3> QED BY <1>1, <3>1 DEF RedirectedNode
  <2> QED BY <2>1, <2>2
<1>8. v.start \in Names \cup {NoNode}
  <2>1. rs # <<>> => rs[1].id \in Names
    <3>1. rs # <<>> => 1 \in 1..Len(rs)
      BY <1>4
    <3> QED BY <1>7, <3>1 DEF Node
  <2> QED BY <1>1, <1>6, <2>1
<1>9. Well(v)
  BY <1>4, <1>6, <1>7, <1>8 DEF Well, Definition, NodesOf
<1>10. NodeIDs(w) \ {id} \subseteq NodeIDs(v)
  <2> SUFFICES ASSUME NEW n \in NodesOf(w), n.id # id PROVE n.id \in NodeIDs(v)
    BY DEF NodeIDs
  <2>1. PICK j \in 1..Len(ps) : ps[j] = n
    BY <1>3
  <2>2. j \in 1..Len(rs) /\ rs[j].id = n.id
    BY <1>4, <2>1 DEF RedirectedNode
  <2> QED BY <1>6, <2>2 DEF NodeIDs, NodesOf
<1>11. StartOK(v)
  <2>1. ns # <<>>
    BY DEF NodeIDs, NodesOf
  <2>2. w.start \in NodeIDs(w)
    BY <2>1 DEF StartOK, Defined
  <2>3. CASE rs = <<>>
    <3>1. w.start = id
      <4> SUFFICES ASSUME w.start # id PROVE FALSE
        OBVIOUS
      <4>1. w.start \in NodeIDs(v)
        BY <1>10, <2>2
      <4> QED BY <1>6, <2>3, <4>1 DEF NodeIDs, NodesOf
    <3> QED BY <1>6, <2>3, <3>1 DEF StartOK
  <2>4. CASE rs # <<>>
    <3>1. rs[1].id \in NodeIDs(v)
      <4>1. 1 \in 1..Len(rs)
        BY <1>4, <2>4
      <4> QED BY <1>6, <4>1 DEF NodeIDs, NodesOf
    <3>2. v.start \in NodeIDs(v)
      BY <1>6, <1>10, <2>2, <2>4, <3>1
    <3> QED BY <1>6, <2>4, <3>2 DEF StartOK, Defined
  <2> QED BY <2>3, <2>4
<1>12. Targets(v.nodes) \subseteq Targets(w.nodes) \ {id}
  <2> SUFFICES ASSUME NEW z \in Targets(v.nodes) PROVE z \in Targets(w.nodes) \ {id}
    OBVIOUS
  <2>1. PICK k \in 1..Len(rs) : z \in TargetsOf(rs[k])
    BY <1>6 DEF Targets, TargetsOf
  <2>2. PICK y \in TargetsOf(ps[k]) : z = Redirect(y, id, NoNode)
    BY <1>4, <2>1 DEF RedirectedNode
  <2>3. z # NoNode
    BY <2>1 DEF TargetsOf
  <2>4. z = y /\ z # id
    BY <2>2, <2>3 DEF Redirect
  <2>5. y \in Targets(w.nodes)
    <3>1. PICK l \in 1..Len(ns) : ns[l] = ps[k]
      BY <1>3, <1>4 DEF NodesOf
    <3> QED BY <3>1 DEF Targets, TargetsOf
  <2> QED BY <2>4, <2>5
<1> QED BY <1>9, <1>10, <1>11, <1>12 DEF Edited, v


-----------------------------------------------------------------------------
(* One node in place of another with its id.                               *)
LEMMA UniqueMap ==
  ASSUME NEW w, NEW N, w.nodes \in Seq(N), UniqueIds(w), NEW k \in 1..Len(w.nodes)
  PROVE  NodeMap(w)[w.nodes[k].id] = w.nodes[k]
PROOF
<1> DEFINE id == w.nodes[k].id
<1>1. id \in NodeIDs(w)
  BY DEF NodeIDs, NodesOf
<1> HIDE DEF id
<1>2. NodeMap(w)[id] \in NodesOf(w) /\ NodeMap(w)[id].id = id
  BY <1>1, NodeMapType
<1>3. PICK j \in 1..Len(w.nodes) : NodeMap(w)[id] = w.nodes[j]
  BY <1>2 DEF NodesOf
<1>4. j = k
  BY <1>2, <1>3 DEF UniqueIds, id
<1> QED BY <1>3, <1>4 DEF id

Swapped(w, p, m, v) ==
  /\ v.start = w.start /\ v \in Definition
  /\ v.nodes = [w.nodes EXCEPT ![p] = m]

SwapLeaves(w, p, m, v) ==
  /\ Well(v) /\ (StartOK(w) => StartOK(v))
  /\ NodeIDs(v) = NodeIDs(w)
  /\ Targets(v.nodes) \subseteq Targets(w.nodes) \cup TargetsOf(m)
  /\ UniqueIds(w) =>
       /\ UniqueIds(v)
       /\ \A x : Onward(v, x) = IF x = m.id THEN TargetsOf(m) ELSE Onward(w, x)
       /\ Onward(w, m.id) = TargetsOf(w.nodes[p])

(* Such a swap changes no edges but those of the node it puts in.          *)
LEMMA SwapKeeps ==
  ASSUME NEW w, Well(w), NEW p \in 1..Len(w.nodes), NEW m, NewNode(m), m.id = w.nodes[p].id,
         NEW v, Swapped(w, p, m, v)
  PROVE  SwapLeaves(w, p, m, v)
PROOF
<1>1. w.nodes \in Seq(Node) /\ v.nodes \in Seq(Node) /\ Len(w.nodes) \in Nat
  BY NodesTyped DEF Well, Swapped
<1>2. Len(v.nodes) = Len(w.nodes) /\ \A k \in 1..Len(w.nodes) : v.nodes[k] = IF k = p THEN m ELSE w.nodes[k]
  BY <1>1 DEF Swapped
<1>3. \A k \in 1..Len(w.nodes) : v.nodes[k].id = w.nodes[k].id
  BY <1>2
<1>4. NodeIDs(v) = NodeIDs(w)
  BY <1>2, <1>3 DEF NodeIDs, NodesOf
<1>5. Well(v)
  BY <1>2 DEF Well, Swapped, NewNode, NodesOf
<1>6. ASSUME StartOK(w) PROVE StartOK(v)
  <2>1. w.nodes # <<>> /\ v.nodes # <<>>
    BY <1>1, <1>2
  <2> QED BY <1>4, <1>6, <2>1 DEF StartOK, Defined, Swapped
<1>7. Targets(v.nodes) \subseteq Targets(w.nodes) \cup TargetsOf(m)
  BY <1>2 DEF Targets, TargetsOf
<1>8. ASSUME UniqueIds(w)
      PROVE  /\ UniqueIds(v)
             /\ \A x : Onward(v, x) = IF x = m.id THEN TargetsOf(m) ELSE Onward(w, x)
             /\ Onward(w, m.id) = TargetsOf(w.nodes[p])
  <2>1. UniqueIds(v)
    BY <1>2, <1>3, <1>8 DEF UniqueIds
  <2>2. Onward(w, m.id) = TargetsOf(w.nodes[p])
    <3>1. NodeMap(w)[m.id] = w.nodes[p]
      BY <1>1, <1>8, UniqueMap
    <3>2. m.id \in NodeIDs(w)
      BY DEF NodeIDs, NodesOf
    <3> QED BY <3>1, <3>2 DEF Onward, Defined, TargetsOf
  <2>3. ASSUME NEW x PROVE Onward(v, x) = IF x = m.id THEN TargetsOf(m) ELSE Onward(w, x)
    <3>1. CASE x \notin NodeIDs(w)
      <4>1. x # m.id
        BY <3>1 DEF NodeIDs, NodesOf
      <4> QED BY <1>4, <3>1, <4>1 DEF Onward, Defined
    <3>2. CASE x \in NodeIDs(w)
      <4>1. PICK k \in 1..Len(w.nodes) : x = w.nodes[k].id
        BY <3>2 DEF NodeIDs, NodesOf
      <4>2. NodeMap(w)[x] = w.nodes[k]
        BY <1>1, <1>8, <4>1, UniqueMap
      <4>3. NodeMap(v)[x] = v.nodes[k]
        <5>1. k \in 1..Len(v.nodes) /\ x = v.nodes[k].id
          BY <1>2, <1>3, <4>1
        <5>2. NodeMap(v)[v.nodes[k].id] = v.nodes[k]
          BY <1>1, <2>1, <5>1, UniqueMap
        <5> QED BY <5>1, <5>2
      <4>4. k = p <=> x = m.id
        BY <1>8, <4>1 DEF UniqueIds
      <4>5. NodeMap(v)[x] = IF x = m.id THEN m ELSE NodeMap(w)[x]
        BY <1>2, <4>2, <4>3, <4>4
      <4> QED BY <1>4, <3>2, <4>5 DEF Onward, Defined, TargetsOf
    <3> QED BY <3>1, <3>2
  <2> QED BY <2>1, <2>2, <2>3
<1> QED BY <1>4, <1>5, <1>6, <1>7, <1>8 DEF SwapLeaves

(* Fewer edges close no cycle.                                             *)
LEMMA FewerEdges ==
  ASSUME NEW w, NEW v, NEW N, w.nodes \in Seq(N), v.nodes \in Seq(N),
         \A x : Onward(v, x) \subseteq Onward(w, x), Acyclic(w)
  PROVE  Acyclic(v)
PROOF
<1> SUFFICES ASSUME NEW id \in NodeIDs(v), NEW x \in Onward(v, id) PROVE id \notin Reach(v, x)
  BY DEF Acyclic
<1>1. x \in Onward(w, id) /\ id \in NodeIDs(w)
  BY DEF Onward, Defined
<1>2. id \notin Reach(w, x)
  BY <1>1 DEF Acyclic
<1> DEFINE C == Reach(w, x)
<1>3. x \in C /\ \A y \in C : Onward(v, y) \subseteq C
  BY ReachIs
<1> HIDE DEF C
<1>4. Reach(v, x) \subseteq C
  BY <1>3, ReachIs
<1> QED BY <1>2, <1>4 DEF C

(* A change of edges: the nodes stay, targets are only added among the     *)
(* nodes, and no cycle is closed.                                          *)
Rewired(w, v) ==
  /\ Well(v) /\ (StartOK(w) => StartOK(v))
  /\ NodeIDs(v) = NodeIDs(w)
  /\ Targets(v.nodes) \subseteq Targets(w.nodes) \cup NodeIDs(w)
  /\ UniqueIds(w) /\ Acyclic(w) => Acyclic(v)

(* One node in place of another, with at most one edge more, to a node     *)
(* from which it cannot be reached.                                        *)
LEMMA RewiredBySwap ==
  ASSUME NEW w, Well(w), NEW p \in 1..Len(w.nodes), NEW m, NewNode(m), m.id = w.nodes[p].id,
         NEW v, Swapped(w, p, m, v), NEW ts, ts = {} \/ \E t \in NodeIDs(w) : ts = {t} /\ m.id \notin Reach(w, t),
         TargetsOf(m) \subseteq TargetsOf(w.nodes[p]) \cup ts
  PROVE  Rewired(w, v)
PROOF
<1>1. SwapLeaves(w, p, m, v)
  BY SwapKeeps
<1>2. Well(v) /\ (StartOK(w) => StartOK(v)) /\ NodeIDs(v) = NodeIDs(w)
      /\ Targets(v.nodes) \subseteq Targets(w.nodes) \cup TargetsOf(m)
  BY <1>1 DEF SwapLeaves
<1>3. w.nodes \in Seq(Node) /\ v.nodes \in Seq(Node)
  BY <1>2, NodesTyped DEF Well
<1>4. Targets(v.nodes) \subseteq Targets(w.nodes) \cup NodeIDs(w)
  <2>1. TargetsOf(w.nodes[p]) \subseteq Targets(w.nodes)
    BY DEF Targets, TargetsOf
  <2> QED BY <1>2, <2>1
<1>5. ASSUME UniqueIds(w), Acyclic(w) PROVE Acyclic(v)
  <2>1. \A x : Onward(v, x) \subseteq Onward(w, x) \cup (IF x = m.id THEN ts ELSE {})
    BY <1>1, <1>5 DEF SwapLeaves
  <2>2. CASE ts = {}
    <3>1. \A x : Onward(v, x) \subseteq Onward(w, x)
      BY <2>1, <2>2
    <3> QED BY <1>3, <1>5, <3>1, FewerEdges
  <2>3. ASSUME NEW t \in NodeIDs(w), ts = {t}, m.id \notin Reach(w, t) PROVE Acyclic(v)
    BY <1>3, <1>5, <2>1, <2>3, EdgeAdded
  <2> QED BY <2>2, <2>3
<1> QED BY <1>2, <1>4, <1>5 DEF Rewired

LEMMA Unchanged ==
  ASSUME NEW w, Well(w) PROVE Rewired(w, w)
BY DEF Rewired

(* The node a gesture starts from.                                         *)
LEMMA FoundNode ==
  ASSUME NEW w, Well(w), NEW s, Defined(w, s)
  PROVE  /\ Position(w, s) \in 1..Len(w.nodes)
         /\ Found(w, s) = w.nodes[Position(w, s)] /\ Found(w, s).id = s
         /\ NewNode(Found(w, s))
PROOF
<1>1. w.nodes \in Seq(Node)
  BY NodesTyped DEF Well
<1>2. Position(w, s) \in 1..Len(w.nodes) /\ w.nodes[Position(w, s)].id = s
  BY <1>1, PositionIs
<1>3. w.nodes[Position(w, s)] \in NodesOf(w) /\ w.nodes[Position(w, s)] \in Node
  BY <1>1, <1>2 DEF NodesOf
<1> QED BY <1>2, <1>3 DEF Found, NewNode, Well

(* Drawing an edge: a branch more, or another next node.                   *)
LEMMA ConnectKeeps ==
  ASSUME NEW w, Well(w), NEW s, NEW t
  PROVE  Rewired(w, connect(w, s, t))
PROOF
<1> DEFINE v == connect(w, s, t)
           p == Position(w, s)
           n == Found(w, s)
<1>1. CASE s = t \/ ~ Defined(w, s) \/ ~ Defined(w, t) \/ wouldCreateCycle(w, s, t)
  BY <1>1, Unchanged DEF connect
<1>2. CASE ~ (s = t \/ ~ Defined(w, s) \/ ~ Defined(w, t) \/ wouldCreateCycle(w, s, t))
  <2>1. p \in 1..Len(w.nodes) /\ n = w.nodes[p] /\ n.id = s /\ NewNode(n)
    BY <1>2, FoundNode
  <2>2. t \in NodeIDs(w) /\ s \notin Reach(w, t)
    BY <1>2 DEF wouldCreateCycle, Defined
  <2>3. t \in Names /\ t # NoNode
    BY <2>2, NodesTyped DEF Well, NodeIDs, Node
  <2>4. w.nodes \in Seq(Node) /\ w.start \in Names \cup {NoNode}
        /\ w = [start |-> w.start, nodes |-> w.nodes]
    BY NodesTyped DEF Well
  <2>5. CASE n.type = "filter"
    <3> DEFINE B == [next : Names \cup {NoNode}]
               bs == Append(n.branches, [next |-> t])
               m == [n EXCEPT !.branches = bs]
    <3>1. n.branches \in Seq(B) /\ [next |-> t] \in B
      BY <2>1, <2>3 DEF NewNode, Node
    <3>2. bs \in Seq(B) /\ Len(bs) = Len(n.branches) + 1 /\ Len(n.branches) \in Nat
          /\ bs[Len(n.branches) + 1] = [next |-> t] /\ \A i \in 1..Len(n.branches) : bs[i] = n.branches[i]
      <4> HIDE DEF B
      <4> QED BY <3>1, AppendProperties
    <3>3. v = [w EXCEPT !.nodes[p].branches = Append(@, [next |-> t])]
      BY <1>2, <2>5 DEF connect
    <3>4. v = [w EXCEPT !.nodes = [w.nodes EXCEPT ![p] = m]]
      BY <2>1, <2>4, <3>3
    <3> HIDE DEF bs, v
    <3>5. NewNode(m) /\ m.id = s /\ m.type = "filter" /\ m.branches = bs
      BY <2>1, <2>5, <3>2 DEF NewNode, Node, Fits, B
    <3> HIDE DEF m
    <3>6. Swapped(w, p, m, v)
      <4>1. [w.nodes EXCEPT ![p] = m] \in Seq(Node)
        BY <2>1, <2>4, <3>5 DEF NewNode
      <4> QED BY <2>4, <3>4, <4>1 DEF Swapped, Definition
    <3>7. TargetsOf(m) \subseteq TargetsOf(n) \cup {t}
      <4>1. TargetsOf(n) = {n.branches[i].next : i \in 1..Len(n.branches)} \ {NoNode}
        BY <2>1, <2>5, TargetsOfNode DEF NewNode
      <4>2. TargetsOf(m) = {bs[i].next : i \in 1..Len(bs)} \ {NoNode}
        BY <3>5, TargetsOfNode DEF NewNode
      <4>3. \A i \in 1..Len(bs) : i \in 1..Len(n.branches) \/ bs[i].next = t
        BY <3>2
      <4> QED BY <3>2, <4>1, <4>2, <4>3
    <3>8. Rewired(w, v)
      <4> DEFINE ts == {t}
      <4>1. ts = {} \/ \E u \in NodeIDs(w) : ts = {u} /\ m.id \notin Reach(w, u)
        BY <2>2, <3>5
      <4>2. TargetsOf(m) \subseteq TargetsOf(w.nodes[p]) \cup ts
        BY <2>1, <3>7
      <4> HIDE DEF ts, p, n
      <4> QED BY <2>1, <3>5, <3>6, <4>1, <4>2, RewiredBySwap
    <3> QED BY <3>8 DEF v
  <2>6. CASE n.type # "filter"
    <3> DEFINE m == [n EXCEPT !.next = t]
    <3>3. v = [w EXCEPT !.nodes[p].next = t]
      BY <1>2, <2>6 DEF connect
    <3>4. v = [w EXCEPT !.nodes = [w.nodes EXCEPT ![p] = m]]
      BY <2>1, <2>4, <3>3
    <3> HIDE DEF v
    <3>5. NewNode(m) /\ m.id = s /\ m.type = n.type /\ m.next = t
      BY <2>1, <2>3, <2>6 DEF NewNode, Node, Fits
    <3> HIDE DEF m
    <3>6. Swapped(w, p, m, v)
      <4>1. [w.nodes EXCEPT ![p] = m] \in Seq(Node)
        BY <2>1, <2>4, <3>5 DEF NewNode
      <4> QED BY <2>4, <3>4, <4>1 DEF Swapped, Definition
    <3>7. TargetsOf(m) \subseteq {t}
      BY <2>6, <3>5, TargetsOfNode DEF NewNode
    <3>8. Rewired(w, v)
      <4> DEFINE ts == {t}
      <4>1. ts = {} \/ \E u \in NodeIDs(w) : ts = {u} /\ m.id \notin Reach(w, u)
        BY <2>2, <3>5
      <4>2. TargetsOf(m) \subseteq TargetsOf(w.nodes[p]) \cup ts
        BY <2>1, <3>7
      <4> HIDE DEF ts, p, n
      <4> QED BY <2>1, <3>5, <3>6, <4>1, <4>2, RewiredBySwap
    <3> QED BY <3>8 DEF v
  <2> QED BY <2>5, <2>6
<1> QED BY <1>1, <1>2


(* Removing an edge.                                                       *)
LEMMA DisconnectKeeps ==
  ASSUME NEW w, Well(w), NEW s, NEW t, NEW v \in disconnect(w, s, t)
  PROVE  Rewired(w, v)
PROOF
<1> DEFINE p == Position(w, s)
           n == Found(w, s)
<1>1. CASE ~ Defined(w, s)
  BY <1>1, Unchanged DEF disconnect
<1>2. CASE Defined(w, s)
  <2>1. p \in 1..Len(w.nodes) /\ n = w.nodes[p] /\ n.id = s /\ NewNode(n)
    BY <1>2, FoundNode
  <2>2. w.nodes \in Seq(Node) /\ w.start \in Names \cup {NoNode}
        /\ w = [start |-> w.start, nodes |-> w.nodes]
    BY NodesTyped DEF Well
  <2>3. ASSUME NEW m, NewNode(m), m.id = s, TargetsOf(m) \subseteq TargetsOf(n),
               v = [w EXCEPT !.nodes = [w.nodes EXCEPT ![p] = m]]
        PROVE  Rewired(w, v)
    <3>1. Swapped(w, p, m, v)
      <4>1. [w.nodes EXCEPT ![p] = m] \in Seq(Node)
        BY <2>1, <2>2, <2>3 DEF NewNode
      <4> QED BY <2>2, <2>3, <4>1 DEF Swapped, Definition
    <3> DEFINE ts == {}
    <3>2. ts = {} /\ TargetsOf(m) \subseteq TargetsOf(w.nodes[p]) \cup ts
      BY <2>1, <2>3
    <3> HIDE DEF ts, p, n
    <3> QED BY <2>1, <2>3, <3>1, <3>2, RewiredBySwap
  <2>4. CASE n.type = "filter"
    <3> DEFINE B == [next : Names \cup {NoNode}]
    <3>1. PICK i \in 1..Len(n.branches) : v = [w EXCEPT !.nodes[p].branches = RemoveAt(@, i)]
      BY <1>2, <2>4 DEF disconnect
    <3> DEFINE bs == RemoveAt(n.branches, i)
               m == [n EXCEPT !.branches = bs]
    <3>2. n.branches \in Seq(B)
      BY <2>1 DEF NewNode, Node
    <3>3. bs \in Seq(B) /\ \A j \in 1..Len(bs) : \E k \in 1..Len(n.branches) : bs[j] = n.branches[k]
      <4> HIDE DEF B, n
      <4> QED BY <3>2, RemoveAtIs
    <3>4. v = [w EXCEPT !.nodes = [w.nodes EXCEPT ![p] = m]]
      BY <2>1, <2>2, <3>1
    <3> HIDE DEF bs
    <3>5. NewNode(m) /\ m.id = s /\ m.type = "filter" /\ m.branches = bs
      BY <2>1, <2>4, <3>3 DEF NewNode, Node, Fits, B
    <3> HIDE DEF m
    <3>6. TargetsOf(m) \subseteq TargetsOf(n)
      <4>1. TargetsOf(n) = {n.branches[j].next : j \in 1..Len(n.branches)} \ {NoNode}
        BY <2>1, <2>4, TargetsOfNode DEF NewNode
      <4>2. TargetsOf(m) = {bs[j].next : j \in 1..Len(bs)} \ {NoNode}
        BY <3>5, TargetsOfNode DEF NewNode
      <4> QED BY <3>3, <4>1, <4>2
    <3> QED BY <2>3, <3>4, <3>5, <3>6
  <2>5. CASE n.type # "filter"
    <3> DEFINE y == Redirect(n.next, t, NoNode)
               m == [n EXCEPT !.next = y]
    <3>1. v = [w EXCEPT !.nodes[p].next = Redirect(@, t, NoNode)]
      BY <1>2, <2>5 DEF disconnect
    <3>2. v = [w EXCEPT !.nodes = [w.nodes EXCEPT ![p] = m]]
      BY <2>1, <2>2, <3>1
    <3>3. y \in Names \cup {NoNode} /\ (y = n.next \/ y = NoNode)
      BY <2>1 DEF Redirect, NewNode, Node
    <3> HIDE DEF y
    <3>4. NewNode(m) /\ m.id = s /\ m.type = n.type /\ m.next = y
      BY <2>1, <2>5, <3>3 DEF NewNode, Node, Fits
    <3> HIDE DEF m
    <3>5. TargetsOf(m) \subseteq TargetsOf(n)
      <4>1. TargetsOf(n) = {n.next} \ {NoNode} /\ TargetsOf(m) = {y} \ {NoNode}
        BY <2>1, <2>5, <3>4, TargetsOfNode DEF NewNode
      <4> QED BY <3>3, <4>1
    <3> QED BY <2>3, <3>2, <3>4, <3>5
  <2> QED BY <2>4, <2>5
<1> QED BY <1>1, <1>2

(* Adding a node, with the edge to it that the automatic wiring may add.   *)
WiredTo(u, t, newId) == [NodeMap(u)[t] EXCEPT !.next = newId]

(* The open end t gets the new node as its next node.                      *)
WiresTo(u, n, t, v) ==
  /\ t # n.id /\ NodeMap(u)[t] \in NodesOf(u) /\ NodeMap(u)[t].id = t
  /\ NodeMap(u)[t].type # "filter" /\ NodeMap(u)[t].next = NoNode
  /\ NewNode(WiredTo(u, t, n.id)) /\ WiredTo(u, t, n.id).id = t
  /\ TargetsOf(WiredTo(u, t, n.id)) = {n.id}
  /\ v = Put(u, t, WiredTo(u, t, n.id))

AddedAs(u, n, v) ==
  \/ v = [u EXCEPT !.start = n.id] /\ Len(u.nodes) = 1
  \/ v = u /\ Len(u.nodes) # 1
  \/ Len(u.nodes) # 1 /\ \E t \in NodeIDs(u) : WiresTo(u, n, t, v)

(* What the automatic wiring does: makes the first node the start, or      *)
(* gives the new node to the open end found, or nothing.                   *)
LEMMA AddedIs ==
  ASSUME NEW w, Well(w), NEW n, NewNode(n)
  PROVE  AddedAs(Put(w, n.id, n), n, Added(w, n))
PROOF
<1> DEFINE u == Put(w, n.id, n)
<1>1. u = upsertNode(w, n, NoNode)
  BY DEF upsertNode
<1>2. PutLeaves(w, n.id, n, u)
  BY PutKeeps
<1> HIDE DEF u
<1>3. Well(u) /\ u.nodes \in Seq(Node)
  BY <1>2, NodesTyped DEF PutLeaves, Well
<1>4. Added(w, n) = IF Len(u.nodes) = 1 THEN [u EXCEPT !.start = n.id] ELSE autoWireNewNode(u, n.id)
  BY <1>1 DEF Added
<1>5. CASE Len(u.nodes) = 1
  BY <1>4, <1>5 DEF AddedAs, u
<1> DEFINE t == findTerminal(u, n.id)
<1>6. CASE Len(u.nodes) # 1 /\ t = NoNode
  BY <1>4, <1>6 DEF autoWireNewNode, AddedAs, u
<1>7. CASE Len(u.nodes) # 1 /\ t # NoNode
  <2>1. IsTerminal(u, n.id, t)
    BY <1>7, TerminalFound
  <2>2. Added(w, n) = upsertNode(u, WiredTo(u, t, n.id), NoNode)
    BY <1>4, <1>7 DEF autoWireNewNode, WiredTo
  <2> HIDE DEF t
  <2>3. t \in NodeIDs(u) /\ t # n.id /\ NodeMap(u)[t].type # "filter" /\ NodeMap(u)[t].next = NoNode
    BY <2>1 DEF IsTerminal, Defined
  <2>4. NodeMap(u)[t] \in NodesOf(u) /\ NodeMap(u)[t].id = t
    BY <1>3, <2>3, NodeMapType
  <2>5. NewNode(NodeMap(u)[t])
    BY <1>3, <2>4, NodesTyped DEF Well, NewNode
  <2> DEFINE m == WiredTo(u, t, n.id)
  <2>6. NewNode(m) /\ m.id = t /\ m.next = n.id /\ m.type = NodeMap(u)[t].type
    BY <2>3, <2>4, <2>5 DEF WiredTo, NewNode, Node, Fits
  <2>7. TargetsOf(m) = {n.id}
    <3> HIDE DEF m
    <3>1. TargetsOf(m) = {n.id} \ {NoNode}
      BY <2>3, <2>6, TargetsOfNode DEF NewNode
    <3> QED BY <3>1 DEF NewNode
  <2>8. Added(w, n) = Put(u, t, m)
    <3> HIDE DEF m
    <3> QED BY <2>2, <2>6 DEF upsertNode, m
  <2>9. WiresTo(u, n, t, Added(w, n))
    BY <2>3, <2>4, <2>6, <2>7, <2>8 DEF WiresTo
  <2>10. AddedAs(u, n, Added(w, n))
    BY <1>7, <2>3, <2>9 DEF AddedAs
  <2> QED BY <2>10 DEF u
<1> QED BY <1>5, <1>6, <1>7

(* Adding a node loses no id, and no reference comes to dangle.            *)
LEMMA AddedKeeps ==
  ASSUME NEW w, Well(w), StartOK(w), NEW n, NewNode(n)
  PROVE  Edited(Added(w, n), NodeIDs(w) \cup {n.id}, Targets(w.nodes) \cup TargetsOf(n) \cup {n.id})
PROOF
<1> DEFINE u == Put(w, n.id, n)
           v == Added(w, n)
<1>1. PutLeaves(w, n.id, n, u) /\ PutAs(w, n.id, n, u)
  BY PutKeeps, PutIs DEF Well, NewNode
<1>2. AddedAs(u, n, v)
  BY AddedIs
<1> HIDE DEF u, v
<1>3. /\ Well(u) /\ u.start = w.start /\ u.nodes # <<>>
      /\ NodeIDs(w) \cup {n.id} \subseteq NodeIDs(u)
      /\ Targets(u.nodes) \subseteq Targets(w.nodes) \cup TargetsOf(n)
  BY <1>1 DEF PutLeaves
<1>4. CASE v = [u EXCEPT !.start = n.id] /\ Len(u.nodes) = 1
  <2>1. n.id \in Names
    BY DEF NewNode, Node
  <2>2. v \in Definition /\ v.nodes = u.nodes /\ v.start = n.id
    BY <1>3, <1>4, <2>1 DEF Well, Definition
  <2>3. NodesOf(v) = NodesOf(u) /\ NodeIDs(v) = NodeIDs(u)
    BY <2>2 DEF NodesOf, NodeIDs
  <2> QED BY <1>3, <2>2, <2>3 DEF Edited, Well, StartOK, Defined, v
<1>5. ASSUME Len(u.nodes) # 1 PROVE StartOK(u)
  <2>1. w.nodes # <<>>
    <3> SUFFICES ASSUME w.nodes = <<>> PROVE FALSE
      OBVIOUS
    <3>1. ~ Defined(w, n.id)
      BY DEF Defined, NodeIDs, NodesOf
    <3>2. u.nodes = Append(<<>>, n)
      BY <1>1, <3>1 DEF PutAs
    <3> QED BY <1>5, <3>2
  <2> QED BY <1>3, <2>1 DEF StartOK, Defined
<1>6. CASE v = u /\ Len(u.nodes) # 1
  BY <1>3, <1>5, <1>6 DEF Edited, v
<1>7. ASSUME NEW t \in NodeIDs(u), Len(u.nodes) # 1, NEW m, NewNode(m), m.id = t,
             TargetsOf(m) = {n.id}, v = Put(u, t, m)
      PROVE  Edited(v, NodeIDs(w) \cup {n.id}, Targets(w.nodes) \cup TargetsOf(n) \cup {n.id})
  <2>1. Edited(v, NodeIDs(u) \cup {t}, Targets(u.nodes) \cup TargetsOf(m))
    BY <1>3, <1>5, <1>7, ReplacedKeeps
  <2> QED BY <1>3, <1>7, <2>1 DEF Edited
<1>8. ASSUME NEW t \in NodeIDs(u), Len(u.nodes) # 1, WiresTo(u, n, t, v)
      PROVE  Edited(v, NodeIDs(w) \cup {n.id}, Targets(w.nodes) \cup TargetsOf(n) \cup {n.id})
  BY <1>7, <1>8 DEF WiresTo
<1> QED BY <1>2, <1>4, <1>6, <1>8 DEF v, AddedAs


(* A new node that leads nowhere closes no cycle, wired or not.            *)
LEMMA AddedKeepsAcyclic ==
  ASSUME NEW w, Well(w), UniqueIds(w), Acyclic(w),
         NEW n, NewNode(n), TargetsOf(n) = {}, ~ Defined(w, n.id)
  PROVE  Acyclic(Added(w, n))
PROOF
<1> DEFINE u == Put(w, n.id, n)
           v == Added(w, n)
           k == Len(w.nodes)
<1>1. PutLeaves(w, n.id, n, u) /\ PutAs(w, n.id, n, u)
  BY PutKeeps, PutIs DEF Well, NewNode
<1>2. AddedAs(u, n, v)
  BY AddedIs
<1> HIDE DEF u, v
<1>3. w.nodes \in Seq(Node) /\ n \in Node /\ k \in Nat
  BY NodesTyped DEF Well, NewNode
<1>4. u.nodes = Append(w.nodes, n)
  BY <1>1 DEF PutAs
<1>5. u.nodes \in Seq(Node) /\ Well(u)
  BY <1>1, NodesTyped DEF PutLeaves, Well
<1>6. Len(u.nodes) = k + 1 /\ u.nodes[k + 1] = n /\ \A j \in 1..k : u.nodes[j] = w.nodes[j]
  BY <1>3, <1>4, AppendProperties
<1> HIDE DEF k
<1>7. \A j \in 1..k : w.nodes[j].id # n.id
  BY DEF Defined, NodeIDs, NodesOf, k
<1>8. UniqueIds(u)
  <2> SUFFICES ASSUME NEW i \in 1..(k + 1), NEW j \in 1..(k + 1), u.nodes[i].id = u.nodes[j].id PROVE i = j
    BY <1>6 DEF UniqueIds
  <2>1. CASE i \in 1..k /\ j \in 1..k
    BY <1>6, <2>1 DEF UniqueIds, k
  <2>2. CASE i = k + 1 \/ j = k + 1
    <3>1. \A l \in 1..(k + 1) : u.nodes[l].id = n.id => l = k + 1
      BY <1>3, <1>6, <1>7
    <3>2. u.nodes[i].id = n.id /\ u.nodes[j].id = n.id
      BY <1>6, <2>2
    <3> QED BY <3>1, <3>2
  <2> QED BY <1>3, <2>1, <2>2
<1>9. NodeIDs(u) = NodeIDs(w) \cup {n.id}
  <2>1. \A x : x \in NodeIDs(u) <=> \E j \in 1..(k + 1) : u.nodes[j].id = x
    BY <1>6 DEF NodeIDs, NodesOf
  <2>2. \A x : x \in NodeIDs(w) <=> \E j \in 1..k : w.nodes[j].id = x
    BY DEF NodeIDs, NodesOf, k
  <2>3. \A j : j \in 1..(k + 1) <=> j \in 1..k \/ j = k + 1
    BY <1>3
  <2> QED BY <1>6, <2>1, <2>2, <2>3
<1>10. \A x : Onward(u, x) = Onward(w, x)
  <2> SUFFICES ASSUME NEW x PROVE Onward(u, x) = Onward(w, x)
    OBVIOUS
  <2>1. CASE x \notin NodeIDs(u)
    BY <1>9, <2>1 DEF Onward, Defined
  <2>2. CASE x = n.id
    <3>1. k + 1 \in 1..Len(u.nodes)
      BY <1>3, <1>6
    <3>2. NodeMap(u)[u.nodes[k + 1].id] = u.nodes[k + 1]
      BY <1>5, <1>8, <3>1, UniqueMap
    <3>3. Onward(u, x) = {}
      BY <1>6, <1>9, <2>2, <3>2 DEF Onward, Defined, TargetsOf
    <3> QED BY <2>2, <3>3 DEF Onward
  <2>3. CASE x \in NodeIDs(w)
    <3>1. PICK j \in 1..k : x = w.nodes[j].id
      BY <2>3 DEF NodeIDs, NodesOf, k
    <3>2. NodeMap(w)[x] = w.nodes[j]
      BY <1>3, <3>1, UniqueMap DEF k
    <3>3. j \in 1..Len(u.nodes) /\ u.nodes[j] = w.nodes[j]
      BY <1>3, <1>6, <3>1
    <3>4. NodeMap(u)[u.nodes[j].id] = u.nodes[j]
      BY <1>5, <1>8, <3>3, UniqueMap
    <3> QED BY <1>9, <2>3, <3>1, <3>2, <3>3, <3>4 DEF Onward, Defined
  <2> QED BY <1>9, <2>1, <2>2, <2>3
<1>11. Acyclic(u)
  BY <1>3, <1>5, <1>10, FewerEdges
<1>12. ASSUME v = u PROVE Acyclic(v)
  BY <1>11, <1>12
<1>13. ASSUME v = [u EXCEPT !.start = n.id] PROVE Acyclic(v)
  <2>1. v.nodes = u.nodes
    BY <1>5, <1>13 DEF Well, Definition
  <2>2. NodesOf(v) = NodesOf(u)
    BY <2>1 DEF NodesOf
  <2>3. NodeIDs(v) = NodeIDs(u) /\ NodeMap(v) = NodeMap(u)
    BY <2>1, <2>2 DEF NodeIDs, NodeMap
  <2>4. \A x : Onward(v, x) \subseteq Onward(u, x)
    BY <2>3 DEF Onward, Defined
  <2>5. Acyclic(v)
    BY <1>5, <1>11, <2>1, <2>4, FewerEdges
  <2> QED BY <2>5
<1>14. ASSUME NEW t \in NodeIDs(u), t # n.id, NEW m, NewNode(m), m.id = t, TargetsOf(m) = {n.id}, v = Put(u, t, m)
       PROVE  Acyclic(v)
  <2>1. Defined(u, t)
    BY <1>14 DEF Defined
  <2>2. Position(u, t) \in 1..Len(u.nodes) /\ u.nodes[Position(u, t)].id = t
    BY <1>5, <2>1, PositionIs
  <2>3. PutAs(u, t, m, v)
    BY <1>5, <1>14, PutIs DEF Well, NewNode
  <2>4. Swapped(u, Position(u, t), m, v)
    BY <2>1, <2>3 DEF PutAs, Swapped
  <2>5. SwapLeaves(u, Position(u, t), m, v)
    BY <1>5, <1>14, <2>2, <2>4, SwapKeeps
  <2>6. \A x : Onward(v, x) \subseteq Onward(u, x) \cup (IF x = t THEN {n.id} ELSE {})
    BY <1>8, <1>14, <2>5 DEF SwapLeaves
  <2>7. t \notin Reach(u, n.id)
    <3>1. Onward(u, n.id) = {}
      BY <1>10 DEF Onward
    <3> DEFINE C == {n.id}
    <3>2. n.id \in C /\ \A x \in C : Onward(u, x) \subseteq C
      BY <3>1
    <3>3. Reach(u, n.id) \subseteq C
      <4> HIDE DEF C
      <4> QED BY <1>5, <3>2, ReachIs
    <3> QED BY <1>14, <3>3
  <2>8. v.nodes \in Seq(Node)
    BY <2>5, NodesTyped DEF SwapLeaves, Well
  <2> QED BY <1>5, <1>11, <2>6, <2>7, <2>8, EdgeAdded
<1>15. ASSUME NEW t \in NodeIDs(u), WiresTo(u, n, t, v) PROVE Acyclic(v)
  BY <1>14, <1>15 DEF WiresTo
<1>16. Acyclic(v)
  BY <1>2, <1>12, <1>13, <1>15 DEF AddedAs
<1> QED BY <1>16 DEF v

(* Of the numbers tried there are more than there are nodes.               *)
LEMMA UniqueIdIs ==
  ASSUME NEW w, Well(w), Len(w.nodes) <= MaxNodes, NEW type \in NodeTypes
  PROVE  uniqueId(w, type) \in Names /\ uniqueId(w, type) \notin NodeIDs(w)
PROOF
<1> DEFINE size  == Cardinality(NodeIDs(w))
           tried == (size + 1)..(2 * size + 1)
           free  == {i \in tried : Numbered(type, i) \notin NodeIDs(w)}
<1>1. IsFiniteSet(NodeIDs(w)) /\ size \in Nat /\ size <= MaxNodes /\ MaxNodes \in Nat
  <2>1. w.nodes \in Seq(Node) /\ Len(w.nodes) \in Nat
    BY NodesTyped DEF Well
  <2>2. IsFiniteSet(NodeIDs(w)) /\ Cardinality(NodeIDs(w)) \in Nat
        /\ Cardinality(NodeIDs(w)) <= Len(w.nodes)
    BY <2>1, NodeIDsBounded
  <2> QED BY <2>1, <2>2, EditorAssumption
<1> HIDE DEF size
<1>2. tried \subseteq 1..(2 * MaxNodes + 1) /\ tried \subseteq Nat
  BY <1>1
<1>3. IsFiniteSet(tried) /\ Cardinality(tried) = size + 1
  BY <1>1, FS_Interval
<1> HIDE DEF tried
<1>4. free # {}
  <2> SUFFICES ASSUME free = {} PROVE FALSE
    OBVIOUS
  <2> DEFINE f == [i \in tried |-> Numbered(type, i)]
  <2>1. \A i \in tried : f[i] \in NodeIDs(w)
    OBVIOUS
  <2>2. \A i, j \in tried : f[i] = f[j] => i = j
    BY <1>2, EditorAssumption
  <2>3. f \in Injection(tried, NodeIDs(w))
    BY <2>1, <2>2 DEF Injection, IsInjective
  <2> HIDE DEF f
  <2>4. Cardinality(tried) <= Cardinality(NodeIDs(w))
    BY <1>1, <2>3, FS_Injection
  <2> QED BY <1>1, <1>3, <2>4 DEF size
<1>5. PICK i \in free : \A j \in free : i <= j
  <2>1. free \subseteq Nat
    BY <1>2
  <2> HIDE DEF free
  <2> QED BY <1>4, <2>1, LeastNatural
<1> DEFINE c == CHOOSE k \in free : \A j \in free : k <= j
<1>6. c \in free
  <2> HIDE DEF free
  <2> QED BY <1>5
<1>7. uniqueId(w, type) = Numbered(type, c)
  BY DEF uniqueId, free, tried, size
<1> HIDE DEF c
<1>8. c \in 1..(2 * MaxNodes + 1) /\ Numbered(type, c) \notin NodeIDs(w)
  BY <1>2, <1>6
<1>9. Numbered(type, c) \in {Numbered(t, k) : t \in NodeTypes, k \in 1..(2 * MaxNodes + 1)}
  BY <1>8
<1> QED BY <1>7, <1>8, <1>9 DEF Names


-----------------------------------------------------------------------------
(* The invariant.  The definition is well-formed, no longer than the bound *)
(* and has a start; a dialog shows a node that fits, opened from one that  *)
(* is still defined, and leads only where the definition has or had nodes. *)
Sound(w) == Well(w) /\ StartOK(w) /\ Len(w.nodes) <= MaxNodes

Dialogs(w) ==
  {d \in [open : {TRUE}, isNew : BOOLEAN, opened : Names \cup {NoNode}, draft : Node,
          offered : SUBSET NodeIDs(w)] :
     /\ Fits(d.draft)
     /\ d.opened = NoNode <=> d.isNew
     /\ ~ d.isNew => Defined(w, d.opened)
     /\ TargetsOf(d.draft) \subseteq NodeIDs(w) \cup Targets(w.nodes)}

EditorInv ==
  /\ Sound(wf) /\ wiring \in Names \cup {NoNode}
  /\ dialog \in {NoDialog} \cup Dialogs(wf)

(* A step that changes the definition, or one that changes only the dialog.*)
Kept(w, v) == Sound(v) /\ Dangling(v) \subseteq Dangling(w)

(* An edit whose result is within the bound.                               *)
LEMMA EditedIsKept ==
  ASSUME NEW w, NEW v, NEW ids, NEW ts, Edited(v, ids, ts), Small(v)
  PROVE  Sound(v) /\ Dangling(v) \subseteq ts \ ids
BY DEF Edited, Small, Sound, Dangling

LEMMA RewiredIsKept ==
  ASSUME NEW w, Sound(w), NEW v, Rewired(w, v), Small(v)
  PROVE  Kept(w, v)
BY DEF Rewired, Small, Sound, Dangling, Kept

(* The examples are what the invariant says of a definition.               *)
LEMMA ExampleIsSound ==
  ASSUME NEW e \in Examples
  PROVE  Sound(e) /\ Dangling(e) = {}
PROOF
<1>1. /\ e \in Definition /\ Small(e) /\ Defined(e, e.start)
      /\ \A n \in NodesOf(e) :
           Fits(n) /\ n.id # NoNode /\ Range(Successors(n)) \subseteq NodeIDs(e) \cup {NoNode}
  BY EditorAssumption
<1>2. Well(e) /\ Len(e.nodes) <= MaxNodes
  BY <1>1 DEF Well, Small
<1>3. StartOK(e)
  <2>1. e.nodes # <<>>
    BY <1>1 DEF Defined, NodeIDs, NodesOf
  <2> QED BY <1>1, <2>1 DEF StartOK
<1>4. Dangling(e) = {}
  BY <1>1 DEF Dangling, Targets, NodesOf
<1> QED BY <1>2, <1>3, <1>4 DEF Sound

(* A dialog with another draft is still one of the dialogs.                *)
LEMMA DraftedIs ==
  ASSUME NEW w, NEW d \in Dialogs(w), NEW n \in Node, Fits(n),
         TargetsOf(n) \subseteq NodeIDs(w) \cup Targets(w.nodes), NEW ids \in SUBSET NodeIDs(w)
  PROVE  /\ [d EXCEPT !.draft = n] \in Dialogs(w)
         /\ [d EXCEPT !.draft = n, !.offered = ids] \in Dialogs(w)
BY DEF Dialogs

(* What is known of an open dialog.                                        *)
LEMMA InDialogs ==
  ASSUME NEW w, NEW d \in Dialogs(w)
  PROVE  /\ d.open /\ d.isNew \in BOOLEAN /\ d.draft \in Node /\ Fits(d.draft)
         /\ d.offered \in SUBSET NodeIDs(w) /\ d.opened \in Names \cup {NoNode}
         /\ d.opened = NoNode <=> d.isNew
         /\ ~ d.isNew => Defined(w, d.opened)
         /\ TargetsOf(d.draft) \subseteq NodeIDs(w) \cup Targets(w.nodes)
BY DEF Dialogs

(* What the fields of the dialog do to the draft.                          *)
Redrafted(w, n) ==
  n \in Node /\ Fits(n) /\ TargetsOf(n) \subseteq NodeIDs(w) \cup Targets(w.nodes)

(* Typing an id.                                                           *)
LEMMA IdRedrafts ==
  ASSUME NEW w, NEW n, Redrafted(w, n), NEW id \in Names
  PROVE  Redrafted(w, [n EXCEPT !.id = id])
PROOF
<1> DEFINE m == [n EXCEPT !.id = id]
<1>1. m \in Node /\ m.type = n.type /\ m.next = n.next /\ m.branches = n.branches
  BY DEF Redrafted, Node
<1> HIDE DEF m
<1>2. TargetsOf(m) = TargetsOf(n)
  <2>1. TargetsOf(n) = (IF n.type = "filter" THEN {n.branches[i].next : i \in 1..Len(n.branches)}
                        ELSE {n.next}) \ {NoNode}
    BY TargetsOfNode DEF Redrafted
  <2>2. TargetsOf(m) = (IF m.type = "filter" THEN {m.branches[i].next : i \in 1..Len(m.branches)}
                        ELSE {m.next}) \ {NoNode}
    BY <1>1, TargetsOfNode
  <2> QED BY <1>1, <2>1, <2>2
<1>3. Redrafted(w, m)
  BY <1>1, <1>2 DEF Redrafted, Fits
<1> QED BY <1>3 DEF m

(* Picking a type: a filter loses its next node, others their branches.    *)
LEMMA TypeRedrafts ==
  ASSUME NEW w, NEW n, Redrafted(w, n), NEW t \in NodeTypes
  PROVE  Redrafted(w, OfType(n, t))
PROOF
<1> DEFINE m == OfType(n, t)
           B == [next : Names \cup {NoNode}]
<1>1. n \in Node /\ n.branches \in Seq(B) /\ <<>> \in Seq(B) /\ n.next \in Names \cup {NoNode}
  BY DEF Redrafted, Node
<1>2. m \in Node /\ m.type = t /\ m.next = (IF t = "filter" THEN NoNode ELSE n.next)
      /\ m.branches = (IF t = "filter" THEN n.branches ELSE <<>>)
  BY <1>1 DEF OfType, Node
<1> HIDE DEF m
<1>3. Fits(m)
  BY <1>2 DEF Fits
<1>4. CASE n.type = "filter"
  <2>1. TargetsOf(m) \subseteq TargetsOf(n)
    <3>1. n.next = NoNode
      BY <1>4 DEF Redrafted, Fits
    <3> QED BY <1>1, <1>2, <1>4, <3>1, TargetsOfNode
  <2> QED BY <1>2, <1>3, <2>1 DEF Redrafted, m
<1>5. CASE n.type # "filter"
  <2>1. TargetsOf(m) \subseteq TargetsOf(n)
    <3>1. n.branches = <<>>
      BY <1>5 DEF Redrafted, Fits
    <3>2. CASE t = "filter"
      <4>1. Len(m.branches) = 0
        BY <1>2, <3>1, <3>2
      <4> QED BY <1>2, <3>2, <4>1, TargetsOfNode
    <3>3. CASE t # "filter"
      BY <1>1, <1>2, <1>5, <3>3, TargetsOfNode
    <3> QED BY <3>2, <3>3
  <2> QED BY <1>2, <1>3, <2>1 DEF Redrafted, m
<1> QED BY <1>4, <1>5

(* Picking the next node, among those offered.                             *)
LEMMA NextRedrafts ==
  ASSUME NEW w, NEW n, Redrafted(w, n), n.type # "filter",
         NEW id \in (NodeIDs(w) \cap Names) \cup {NoNode}
  PROVE  Redrafted(w, [n EXCEPT !.next = id])
PROOF
<1> DEFINE m == [n EXCEPT !.next = id]
<1>1. m \in Node /\ m.type = n.type /\ m.next = id /\ m.branches = n.branches
  BY DEF Redrafted, Node
<1> HIDE DEF m
<1>2. TargetsOf(m) \subseteq NodeIDs(w)
  BY <1>1, TargetsOfNode
<1>3. Redrafted(w, m)
  BY <1>1, <1>2 DEF Redrafted, Fits
<1> QED BY <1>3 DEF m

(* Any other list of branches, to targets there are.                       *)
LEMMA BranchesRedraft ==
  ASSUME NEW w, NEW n, Redrafted(w, n), n.type = "filter",
         NEW bs \in Seq([next : Names \cup {NoNode}]),
         \A i \in 1..Len(bs) : \/ bs[i].next \in NodeIDs(w) \cup {NoNode}
                               \/ \E k \in 1..Len(n.branches) : bs[i].next = n.branches[k].next
  PROVE  Redrafted(w, [n EXCEPT !.branches = bs])
PROOF
<1> DEFINE m == [n EXCEPT !.branches = bs]
<1>1. m \in Node /\ m.type = "filter" /\ m.next = n.next /\ m.branches = bs /\ n \in Node
  BY DEF Redrafted, Node
<1> HIDE DEF m
<1>2. TargetsOf(n) = {n.branches[k].next : k \in 1..Len(n.branches)} \ {NoNode}
  BY <1>1, TargetsOfNode
<1>3. TargetsOf(m) = {bs[i].next : i \in 1..Len(bs)} \ {NoNode}
  BY <1>1, TargetsOfNode
<1>4. ASSUME NEW y \in TargetsOf(m) PROVE y \in NodeIDs(w) \cup TargetsOf(n)
  <2>1. PICK i \in 1..Len(bs) : y = bs[i].next /\ y # NoNode
    BY <1>3, <1>4
  <2> QED BY <1>2, <2>1
<1>5. Redrafted(w, m)
  BY <1>1, <1>4 DEF Redrafted, Fits
<1> QED BY <1>5 DEF m


(* Every change of a field keeps the invariant.                            *)
LEMMA DraftKeeps ==
  ASSUME EditorInv, NEW d, Redrafted(wf, d),
         dialog.open, UNCHANGED <<wf, wiring>>,
         \/ dialog' = [dialog EXCEPT !.draft = d]
         \/ dialog' = [dialog EXCEPT !.draft = d, !.offered = Candidates(d)]
  PROVE  EditorInv'
PROOF
<1>1. dialog \in Dialogs(wf)
  BY DEF EditorInv, NoDialog
<1>2. Candidates(d) \in SUBSET NodeIDs(wf)
  BY DEF Candidates
<1>3. d \in Node /\ Fits(d) /\ TargetsOf(d) \subseteq NodeIDs(wf) \cup Targets(wf.nodes)
  BY DEF Redrafted
<1> DEFINE ids == Candidates(d)
           one == [dialog EXCEPT !.draft = d]
           two == [dialog EXCEPT !.draft = d, !.offered = ids]
<1>4. one \in Dialogs(wf) /\ two \in Dialogs(wf)
  <2> HIDE DEF ids
  <2> QED BY <1>1, <1>2, <1>3, DraftedIs DEF ids
<1>5. dialog' = one \/ dialog' = two
  OBVIOUS
<1> HIDE DEF one, two
<1>6. dialog' \in Dialogs(wf)
  BY <1>4, <1>5
<1> QED BY <1>6 DEF EditorInv

(* The draft of an open dialog, and the targets it offers.                 *)
LEMMA InDialogDrafts ==
  ASSUME EditorInv, dialog.open
  PROVE  /\ Redrafted(wf, dialog.draft) /\ dialog \in Dialogs(wf)
         /\ dialog.offered \subseteq NodeIDs(wf) \cap Names
PROOF
<1>1. dialog \in Dialogs(wf)
  BY DEF EditorInv, NoDialog
<1>2. NodeIDs(wf) \subseteq Names
  BY NodesTyped DEF EditorInv, Sound, Well, NodeIDs, Node
<1> QED BY <1>1, <1>2, InDialogs DEF Redrafted

(* No field of the dialog touches the definition, or breaks the draft.     *)
LEMMA DraftsKeep ==
  ASSUME EditorInv, dialog.open,
         \/ \E id \in TypedIds : TypeId(id)
         \/ \E t \in NodeTypes : PickType(t)
         \/ \E h \in Handlers : PickHandler(h)
         \/ \E id \in dialog.offered \cup {NoNode} : PickNext(id)
         \/ AddBranch
         \/ \E i \in 1..Len(dialog.draft.branches) :
              RemoveBranch(i) \/ \E id \in dialog.offered : PickTarget(i, id)
  PROVE  EditorInv' /\ UNCHANGED wf
PROOF
<1> DEFINE n == dialog.draft
           B == [next : Names \cup {NoNode}]
<1>1. Redrafted(wf, n) /\ dialog.offered \subseteq NodeIDs(wf) \cap Names
  BY InDialogDrafts
<1>2. ASSUME NEW id \in TypedIds, TypeId(id) PROVE EditorInv' /\ UNCHANGED wf
  <2>1. Redrafted(wf, [n EXCEPT !.id = id])
    <3>1. id \in Names
      BY DEF Names
    <3> QED BY <1>1, <3>1, IdRedrafts
  <2> QED BY <1>2, <2>1, DraftKeeps DEF TypeId, Draft
<1>3. ASSUME NEW t \in NodeTypes, PickType(t) PROVE EditorInv' /\ UNCHANGED wf
  <2>1. Redrafted(wf, OfType(n, t))
    BY <1>1, TypeRedrafts
  <2> QED BY <1>3, <2>1, DraftKeeps DEF PickType, DraftAndRender
<1>4. ASSUME NEW h \in Handlers, PickHandler(h) PROVE EditorInv' /\ UNCHANGED wf
  <2>1. Redrafted(wf, [n EXCEPT !.id = h.id])
    <3>1. h.id \in Names
      BY DEF Names
    <3> QED BY <1>1, <3>1, IdRedrafts
  <2> QED BY <1>4, <2>1, DraftKeeps DEF PickHandler, DraftAndRender
<1>5. ASSUME NEW id \in dialog.offered \cup {NoNode}, PickNext(id) PROVE EditorInv' /\ UNCHANGED wf
  <2>1. Redrafted(wf, [n EXCEPT !.next = id])
    BY <1>1, <1>5, NextRedrafts DEF PickNext
  <2> QED BY <1>5, <2>1, DraftKeeps DEF PickNext, Draft
<1>6. n \in Node /\ n.branches \in Seq(B) /\ Len(n.branches) \in Nat /\ (n.type # "filter" => n.branches = <<>>)
  BY <1>1 DEF Redrafted, Node, Fits
<1>7. ASSUME AddBranch PROVE EditorInv' /\ UNCHANGED wf
  <2> DEFINE b == [next |-> NoNode]
             bs == Append(n.branches, b)
  <2>1. b \in B
    OBVIOUS
  <2>2. bs \in Seq(B) /\ Len(bs) = Len(n.branches) + 1 /\ bs[Len(n.branches) + 1] = b
        /\ \A i \in 1..Len(n.branches) : bs[i] = n.branches[i]
    <3> HIDE DEF B, b, n
    <3> QED BY <1>6, <2>1, AppendProperties
  <2>3. \A i \in 1..Len(bs) : bs[i].next = NoNode \/ \E k \in 1..Len(n.branches) : bs[i].next = n.branches[k].next
    <3> SUFFICES ASSUME NEW i \in 1..Len(bs)
                 PROVE  bs[i].next = NoNode \/ \E k \in 1..Len(n.branches) : bs[i].next = n.branches[k].next
      OBVIOUS
    <3> HIDE DEF n, bs
    <3>1. CASE i = Len(n.branches) + 1
      BY <2>2, <3>1
    <3>2. CASE i \in 1..Len(n.branches)
      BY <2>2, <3>2
    <3> QED BY <1>6, <2>2, <3>1, <3>2
  <2>4. n.type = "filter"
    BY <1>7 DEF AddBranch
  <2>5. Redrafted(wf, [n EXCEPT !.branches = bs])
    <3> HIDE DEF bs, n
    <3> QED BY <1>1, <2>2, <2>3, <2>4, BranchesRedraft
  <2>6. [n EXCEPT !.branches = Append(@, [next |-> NoNode])] = [n EXCEPT !.branches = bs]
    BY <1>6
  <2> QED BY <1>7, <2>5, <2>6, DraftKeeps DEF AddBranch, DraftAndRender
<1>8. ASSUME NEW i \in 1..Len(n.branches), RemoveBranch(i) PROVE EditorInv' /\ UNCHANGED wf
  <2> DEFINE bs == RemoveAt(n.branches, i)
  <2>0. n.branches \in Seq(B)
    BY <1>6
  <2>1. bs \in Seq(B) /\ \A j \in 1..Len(bs) : \E k \in 1..Len(n.branches) : bs[j] = n.branches[k]
    <3> HIDE DEF B, n
    <3> QED BY <1>8, <2>0, RemoveAtIs
  <2>2. n.type = "filter"
    BY <1>6
  <2>3. Redrafted(wf, [n EXCEPT !.branches = bs])
    <3> HIDE DEF bs, n
    <3> QED BY <1>1, <2>1, <2>2, BranchesRedraft
  <2>4. [n EXCEPT !.branches = RemoveAt(@, i)] = [n EXCEPT !.branches = bs]
    BY <1>6
  <2> QED BY <1>8, <2>3, <2>4, DraftKeeps DEF RemoveBranch, DraftAndRender
<1>9. ASSUME NEW i \in 1..Len(n.branches), NEW id \in dialog.offered, PickTarget(i, id)
      PROVE  EditorInv' /\ UNCHANGED wf
  <2> DEFINE b == [n.branches[i] EXCEPT !.next = id]
             bs == [n.branches EXCEPT ![i] = b]
  <2>0. id \in NodeIDs(wf) /\ id \in Names /\ n.branches[i] \in B
    <3>1. id \in NodeIDs(wf) /\ id \in Names
      BY <1>1
    <3>2. n.branches[i] \in B
      <4> HIDE DEF B, n
      <4> QED BY <1>6
    <3> QED BY <3>1, <3>2
  <2>1. b \in B /\ b.next = id
    <3> HIDE DEF n
    <3> QED BY <2>0
  <2>2. bs \in Seq(B) /\ Len(bs) = Len(n.branches)
        /\ \A j \in 1..Len(n.branches) : bs[j] = IF j = i THEN b ELSE n.branches[j]
    <3> HIDE DEF B, b, n
    <3> QED BY <1>6, <2>1
  <2>3. n.type = "filter"
    BY <1>6
  <2>4. \A j \in 1..Len(bs) : \/ bs[j].next \in NodeIDs(wf) \cup {NoNode}
                              \/ \E k \in 1..Len(n.branches) : bs[j].next = n.branches[k].next
    <3> HIDE DEF b, bs, n
    <3> QED BY <2>0, <2>1, <2>2
  <2>5. Redrafted(wf, [n EXCEPT !.branches = bs])
    <3> HIDE DEF bs, n
    <3> QED BY <1>1, <2>2, <2>3, <2>4, BranchesRedraft
  <2>6. [n EXCEPT !.branches[i].next = id] = [n EXCEPT !.branches = bs]
    BY <1>6
  <2> QED BY <1>9, <2>5, <2>6, DraftKeeps DEF PickTarget, Draft
<1> QED BY <1>2, <1>3, <1>4, <1>5, <1>7, <1>8, <1>9


(* The dialog's buttons, each of which closes it.                          *)
Closed(w) == Sound(w) /\ (Dangling(w) \subseteq Dangling(wf) \/ NamesItsFormerSelf)

(* Save: a new node, one under its former id, or one under a new id.       *)
LEMMA SaveCloses ==
  ASSUME EditorInv, dialog.open, Save PROVE Closed(wf')
PROOF
<1> DEFINE d == dialog.draft
           old == dialog.opened
<1>1. dialog \in Dialogs(wf) /\ Redrafted(wf, d)
  BY InDialogDrafts
<1>2. Sound(wf) /\ NewNode(d) /\ TargetsOf(d) \subseteq NodeIDs(wf) \cup Targets(wf.nodes)
  BY <1>1 DEF Redrafted, NewNode, EditorInv, Save
<1>3. Well(wf) /\ StartOK(wf)
  BY <1>2 DEF Sound
<1>4. Small(wf') /\ wf' = IF dialog.isNew THEN Added(wf, d) ELSE upsertNode(wf, d, old)
  BY DEF Save, Change
<1>5. CASE dialog.isNew
  <2>1. Edited(wf', NodeIDs(wf) \cup {d.id}, Targets(wf.nodes) \cup TargetsOf(d) \cup {d.id})
    BY <1>2, <1>3, <1>4, <1>5, AddedKeeps
  <2>2. Sound(wf') /\ Dangling(wf') \subseteq (Targets(wf.nodes) \cup TargetsOf(d) \cup {d.id}) \ (NodeIDs(wf) \cup {d.id})
    BY <1>4, <2>1, EditedIsKept
  <2>3. Dangling(wf') \subseteq Dangling(wf)
    BY <1>2, <2>2 DEF Dangling
  <2> QED BY <2>2, <2>3 DEF Closed
<1>6. CASE ~ dialog.isNew
  <2>1. old \in NodeIDs(wf) /\ old # NoNode
    BY <1>1, <1>6, InDialogs DEF Defined
  <2>2. wf' = upsertNode(wf, d, old)
    BY <1>4, <1>6
  <2>3. CASE old = d.id
    <3>1. wf' = Put(wf, d.id, d)
      BY <2>2, <2>3 DEF upsertNode
    <3>2. wf.nodes # <<>>
      BY <2>1 DEF NodeIDs, NodesOf
    <3>3. Edited(wf', NodeIDs(wf) \cup {d.id}, Targets(wf.nodes) \cup TargetsOf(d))
      BY <1>2, <1>3, <3>1, <3>2, ReplacedKeeps
    <3>4. Sound(wf') /\ Dangling(wf') \subseteq (Targets(wf.nodes) \cup TargetsOf(d)) \ (NodeIDs(wf) \cup {d.id})
      BY <1>4, <3>3, EditedIsKept
    <3>5. Dangling(wf') \subseteq Dangling(wf)
      BY <1>2, <3>4 DEF Dangling
    <3> QED BY <3>4, <3>5 DEF Closed
  <2>4. CASE old # d.id
    <3> DEFINE ids == (NodeIDs(wf) \ {old}) \cup {d.id}
               ts  == {Redirect(y, old, d.id) : y \in Targets(wf.nodes)} \cup TargetsOf(d)
    <3>1. Edited(wf', ids, ts)
      BY <1>2, <1>3, <2>1, <2>2, <2>4, RenamedKeeps
    <3>2. Sound(wf') /\ Dangling(wf') \subseteq ts \ ids
      <4> HIDE DEF ids, ts
      <4> QED BY <1>4, <3>1, EditedIsKept
    <3>3. ASSUME ~ NamesItsFormerSelf PROVE Dangling(wf') \subseteq Dangling(wf)
      <4>1. old \notin TargetsOf(d)
        <5>1. Targets(<<d>>) = TargetsOf(d)
          <6>1. Len(<<d>>) = 1 /\ <<d>>[1] = d
            OBVIOUS
          <6> QED BY <6>1 DEF Targets, TargetsOf
        <5> QED BY <2>4, <3>3, <5>1 DEF NamesItsFormerSelf
      <4>2. ASSUME NEW z \in ts, z \notin ids PROVE z \in Dangling(wf)
        <5>1. CASE z \in TargetsOf(d)
          BY <1>2, <4>1, <4>2, <5>1 DEF Dangling
        <5>2. ASSUME NEW y \in Targets(wf.nodes), z = Redirect(y, old, d.id) PROVE z \in Dangling(wf)
          BY <4>2, <5>2 DEF Redirect, Dangling
        <5> QED BY <4>2, <5>1, <5>2
      <4> QED BY <3>2, <4>2
    <3> QED BY <3>2, <3>3 DEF Closed
  <2> QED BY <2>3, <2>4
<1> QED BY <1>5, <1>6

(* Delete, of the node the dialog was opened from.                         *)
LEMMA DeleteCloses ==
  ASSUME EditorInv, dialog.open, DeleteNode PROVE Closed(wf')
PROOF
<1>1. Well(wf) /\ StartOK(wf) /\ dialog.opened \in NodeIDs(wf)
  BY InDialogDrafts, InDialogs DEF EditorInv, Sound, DeleteNode, Defined
<1>2. Small(wf') /\ wf' = deleteNode(wf, dialog.opened)
  BY DEF DeleteNode, Change
<1>3. Edited(wf', NodeIDs(wf) \ {dialog.opened}, Targets(wf.nodes) \ {dialog.opened})
  BY <1>1, <1>2, DeletedKeeps
<1>4. Sound(wf') /\ Dangling(wf') \subseteq (Targets(wf.nodes) \ {dialog.opened}) \ (NodeIDs(wf) \ {dialog.opened})
  BY <1>2, <1>3, EditedIsKept
<1>5. Dangling(wf') \subseteq Dangling(wf)
  BY <1>4 DEF Dangling
<1> QED BY <1>4, <1>5 DEF Closed

(* Make start, of the node the dialog was opened from.                     *)
LEMMA StartCloses ==
  ASSUME EditorInv, dialog.open, MakeStart PROVE Closed(wf')
PROOF
<1> DEFINE v == [wf EXCEPT !.start = dialog.opened]
<1>1. Well(wf) /\ dialog.opened \in NodeIDs(wf) /\ dialog.opened \in Names
  BY InDialogDrafts, InDialogs, NodesTyped DEF EditorInv, Sound, MakeStart, Defined, Well, NodeIDs, Node
<1>2. Small(wf') /\ wf' = v
  BY DEF MakeStart, Change
<1>3. v.nodes = wf.nodes /\ v.start = dialog.opened /\ v \in Definition
  BY <1>1 DEF Well, Definition
<1> HIDE DEF v
<1>4. NodesOf(v) = NodesOf(wf) /\ NodeIDs(v) = NodeIDs(wf)
  BY <1>3 DEF NodesOf, NodeIDs
<1>5. wf.nodes # <<>>
  BY <1>1 DEF NodeIDs, NodesOf
<1>6. Well(v) /\ StartOK(v)
  BY <1>1, <1>3, <1>4, <1>5 DEF Well, StartOK, Defined
<1>7. Sound(v) /\ Dangling(v) = Dangling(wf)
  BY <1>2, <1>3, <1>4, <1>6 DEF Sound, Small, Dangling
<1> QED BY <1>2, <1>7 DEF Closed

(* The gestures on the graph: what they do to the definition.              *)
AcyclicKept == UniqueIds(wf) /\ Acyclic(wf) => Acyclic(wf')

(* Drawing, removing and adding keep the invariant, and close no cycle.    *)
LEMMA GestureKeeps ==
  ASSUME EditorInv, ~ dialog.open, OnGraph
  PROVE  /\ EditorInv' /\ Dangling(wf') \subseteq Dangling(wf)
         /\ AcyclicKept
PROOF
<1>1. dialog = NoDialog /\ Sound(wf) /\ Well(wf) /\ StartOK(wf) /\ wiring \in Names \cup {NoNode}
  BY InDialogs DEF EditorInv, Sound
<1>2. NodeIDs(wf) \subseteq Names
  BY <1>1, NodesTyped DEF Well, NodeIDs, Node
<1>3. ASSUME UNCHANGED wf, wiring' \in Names \cup {NoNode}, dialog' \in {NoDialog} \cup Dialogs(wf)
      PROVE  EditorInv' /\ Dangling(wf') \subseteq Dangling(wf) /\ AcyclicKept
  BY <1>1, <1>3 DEF EditorInv, AcyclicKept
<1>4. ASSUME Sound(wf'), wiring' \in Names \cup {NoNode}, dialog' = NoDialog
      PROVE  EditorInv'
  BY <1>4 DEF EditorInv
<1>5. ASSUME NEW id \in Drawn(wf), OpenEditor(id)
      PROVE  EditorInv' /\ Dangling(wf') \subseteq Dangling(wf) /\ AcyclicKept
  <2> DEFINE n == Found(wf, id)
  <2>1. Defined(wf, id) /\ id \in Names
    BY <1>2, <1>5 DEF Drawn, Defined
  <2>2. id # NoNode
    BY <1>1, <2>1 DEF Well, Defined, NodeIDs
  <2>3. Position(wf, id) \in 1..Len(wf.nodes) /\ n = wf.nodes[Position(wf, id)] /\ NewNode(n)
    BY <1>1, <2>1, FoundNode
  <2>4. TargetsOf(n) \subseteq NodeIDs(wf) \cup Targets(wf.nodes)
    BY <2>3 DEF Targets, TargetsOf
  <2> HIDE DEF n
  <2>5. dialog' = [open |-> TRUE, isNew |-> FALSE, opened |-> id, draft |-> n, offered |-> NodeIDs(wf) \ {id}]
    BY <1>5 DEF OpenEditor, n
  <2>6. dialog' \in Dialogs(wf)
    BY <2>1, <2>2, <2>3, <2>4, <2>5 DEF Dialogs, NewNode
  <2> QED BY <1>1, <1>3, <1>5, <2>6 DEF OpenEditor
<1>6. ASSUME NEW type \in NodeTypes, openCustomEditor(type)
      PROVE  EditorInv' /\ Dangling(wf') \subseteq Dangling(wf) /\ AcyclicKept
  <2> DEFINE n == [id |-> uniqueId(wf, type), type |-> type, next |-> NoNode, branches |-> <<>>]
  <2>1. n \in Node /\ n.type = type /\ n.next = NoNode /\ n.branches = <<>>
    <3>1. uniqueId(wf, type) \in Names
      BY <1>1, UniqueIdIs DEF Sound
    <3> QED BY <3>1 DEF Node
  <2>2. dialog' = [open |-> TRUE, isNew |-> TRUE, opened |-> NoNode, draft |-> n, offered |-> NodeIDs(wf) \ {n.id}]
    BY <1>6 DEF openCustomEditor
  <2> HIDE DEF n
  <2>3. Fits(n) /\ TargetsOf(n) = {}
    <3>1. Fits(n)
      BY <2>1 DEF Fits
    <3>2. TargetsOf(n) = {}
      <4>1. Len(n.branches) = 0
        BY <2>1
      <4> QED BY <2>1, <4>1, TargetsOfNode
    <3> QED BY <3>1, <3>2
  <2>4. dialog' \in Dialogs(wf)
    BY <2>1, <2>2, <2>3 DEF Dialogs
  <2> QED BY <1>1, <1>3, <1>6, <2>4 DEF openCustomEditor
<1>7. ASSUME NEW h \in Handlers, addHandlerToWorkflow(h)
      PROVE  EditorInv' /\ Dangling(wf') \subseteq Dangling(wf) /\ AcyclicKept
  <2> DEFINE n == [id |-> h.id, type |-> h.type, next |-> NoNode, branches |-> <<>>]
  <2>1. n \in Node /\ n.id = h.id /\ n.type = h.type /\ n.next = NoNode /\ n.branches = <<>>
    <3>1. h.id \in Names /\ h.type \in NodeTypes
      BY EditorAssumption DEF Names, NodeTypes
    <3> QED BY <3>1 DEF Node
  <2>2. Small(wf') /\ wf' = Added(wf, n) /\ UNCHANGED <<wiring, dialog>> /\ ~ Defined(wf, n.id)
    BY <1>7 DEF addHandlerToWorkflow, Change
  <2> HIDE DEF n
  <2>3. NewNode(n) /\ TargetsOf(n) = {}
    <3>1. n.type # "filter" /\ n.id # NoNode
      BY <2>1, EditorAssumption DEF LinearTypes
    <3> QED BY <2>1, <3>1, TargetsOfNode DEF NewNode, Fits
  <2>4. Edited(wf', NodeIDs(wf) \cup {n.id}, Targets(wf.nodes) \cup TargetsOf(n) \cup {n.id})
    BY <1>1, <2>2, <2>3, AddedKeeps
  <2>5. Sound(wf') /\ Dangling(wf') \subseteq (Targets(wf.nodes) \cup TargetsOf(n) \cup {n.id}) \ (NodeIDs(wf) \cup {n.id})
    BY <2>2, <2>4, EditedIsKept
  <2>6. Dangling(wf') \subseteq Dangling(wf)
    BY <2>3, <2>5 DEF Dangling
  <2>7. AcyclicKept
    BY <1>1, <2>2, <2>3, AddedKeepsAcyclic DEF AcyclicKept
  <2> QED BY <1>1, <1>4, <2>2, <2>5, <2>6, <2>7
<1>8. ASSUME Rewired(wf, wf'), Small(wf'), wiring' \in Names \cup {NoNode}, UNCHANGED dialog
      PROVE  EditorInv' /\ Dangling(wf') \subseteq Dangling(wf) /\ AcyclicKept
  <2>1. Kept(wf, wf')
    BY <1>1, <1>8, RewiredIsKept
  <2>2. AcyclicKept
    BY <1>8 DEF AcyclicKept, Rewired
  <2> QED BY <1>1, <1>4, <1>8, <2>1, <2>2 DEF Kept
<1>9. ASSUME NEW id \in Drawn(wf), CompleteWiring(id)
      PROVE  EditorInv' /\ Dangling(wf') \subseteq Dangling(wf) /\ AcyclicKept
  <2>1. Small(wf') /\ wf' = connect(wf, wiring, id) /\ wiring' = NoNode /\ UNCHANGED dialog
    BY <1>9 DEF CompleteWiring, Change
  <2>2. Rewired(wf, wf')
    BY <1>1, <2>1, ConnectKeeps
  <2> QED BY <1>8, <2>1, <2>2
<1>10. ASSUME NEW e \in DrawnEdges(wf), DeleteEdge(e)
       PROVE  EditorInv' /\ Dangling(wf') \subseteq Dangling(wf) /\ AcyclicKept
  <2>1. Small(wf') /\ wf' \in disconnect(wf, e[1], e[2]) /\ UNCHANGED <<wiring, dialog>>
    BY <1>10 DEF DeleteEdge, Change
  <2>2. Rewired(wf, wf')
    BY <1>1, <2>1, DisconnectKeeps
  <2> QED BY <1>1, <1>8, <2>1, <2>2
<1>11. ASSUME NEW e \in Examples, loadExample(e)
       PROVE  EditorInv' /\ Dangling(wf') \subseteq Dangling(wf) /\ AcyclicKept
  <2>1. wf' = e /\ UNCHANGED <<wiring, dialog>>
    BY <1>11 DEF loadExample, Change
  <2>2. Sound(wf') /\ Dangling(wf') = {}
    BY <2>1, ExampleIsSound
  <2>3. AcyclicKept
    BY <2>1, AcyclicExamples DEF AcyclicKept
  <2> QED BY <1>1, <1>4, <2>1, <2>2, <2>3
<1>12. ASSUME NEW id \in Drawn(wf), StartWiring(id)
       PROVE  EditorInv' /\ Dangling(wf') \subseteq Dangling(wf) /\ AcyclicKept
  <2>1. id \in Names
    BY <1>2 DEF Drawn
  <2> QED BY <1>1, <1>3, <1>12, <2>1 DEF StartWiring
<1> QED BY <1>5, <1>6, <1>7, <1>9, <1>10, <1>11, <1>12 DEF OnGraph

(* Every step keeps the invariant, and what the theorems say of a step.    *)
LEMMA StepKeeps ==
  ASSUME EditorInv, [Next]_vars
  PROVE  /\ EditorInv'
         /\ Dangling(wf') \subseteq Dangling(wf) \/ NamesItsFormerSelf
         /\ ~ dialog.open => AcyclicKept
PROOF
<1>1. CASE InDialog
  <2>1. dialog.open
    BY <1>1 DEF InDialog
  <2>2. ASSUME Save \/ DeleteNode \/ MakeStart
        PROVE  EditorInv' /\ (Dangling(wf') \subseteq Dangling(wf) \/ NamesItsFormerSelf)
    <3>1. Closed(wf')
      BY <2>1, <2>2, SaveCloses, DeleteCloses, StartCloses
    <3>2. dialog' = NoDialog /\ UNCHANGED wiring
      BY <2>2 DEF Save, DeleteNode, MakeStart
    <3> QED BY <3>1, <3>2 DEF EditorInv, Closed
  <2>3. CASE Cancel
    BY <2>3 DEF Cancel, EditorInv
  <2>4. CASE \/ \E id \in TypedIds : TypeId(id)
             \/ \E t \in NodeTypes : PickType(t)
             \/ \E h \in Handlers : PickHandler(h)
             \/ \E id \in dialog.offered \cup {NoNode} : PickNext(id)
             \/ AddBranch
             \/ \E i \in 1..Len(dialog.draft.branches) :
                  RemoveBranch(i) \/ \E id \in dialog.offered : PickTarget(i, id)
    <3>1. EditorInv' /\ UNCHANGED wf
      BY <2>1, <2>4, DraftsKeep
    <3> QED BY <2>1, <3>1
  <2>5. Cancel => UNCHANGED wf
    BY DEF Cancel
  <2> QED BY <1>1, <2>1, <2>2, <2>3, <2>4, <2>5 DEF InDialog
<1>2. CASE OnGraph
  BY <1>2, GestureKeeps DEF OnGraph
<1>3. CASE CancelWiring \/ Reload \/ UNCHANGED vars
  <2>1. UNCHANGED wf /\ (wiring' = NoNode \/ UNCHANGED wiring) /\ (dialog' = NoDialog \/ UNCHANGED dialog)
    BY <1>3 DEF CancelWiring, Reload, vars
  <2>2. EditorInv'
    BY <2>1 DEF EditorInv
  <2> QED BY <2>1, <2>2 DEF AcyclicKept
<1> QED BY <1>1, <1>2, <1>3 DEF Next

LEMMA InitSound == Init => EditorInv
BY ExampleIsSound DEF Init, EditorInv

(* The invariant holds throughout.                                         *)
LEMMA EditorInvariant == Spec => []EditorInv
PROOF
<1>1. EditorInv /\ [Next]_vars => EditorInv'
  BY StepKeeps
<1> QED BY InitSound, <1>1, PTL DEF Spec

LEMMA EditorInvImplies == EditorInv => TypeOK /\ StartDefined
PROOF
<1> SUFFICES ASSUME EditorInv PROVE TypeOK /\ StartDefined
  OBVIOUS
<1>1. wf \in Definition /\ (\A n \in NodesOf(wf) : Fits(n)) /\ wiring \in Names \cup {NoNode} /\ StartOK(wf)
  BY DEF EditorInv, Sound, Well
<1>2. ASSUME dialog.open
      PROVE  /\ dialog.draft \in Node /\ Fits(dialog.draft)
             /\ dialog.opened = NoNode <=> dialog.isNew
  BY <1>2, InDialogDrafts, InDialogs
<1> QED BY <1>1, <1>2 DEF TypeOK, StartDefined, StartOK

(* Whatever is done in the editor, the store and a draft hold definitions  *)
(* and nodes that make sense: only filters have branches, only other nodes *)
(* a next node.                                                            *)
THEOREM EditorTypes == Spec => []TypeOK
PROOF
<1>1. EditorInv => TypeOK
  BY EditorInvImplies
<1> QED BY EditorInvariant, <1>1, PTL

(* As long as there are nodes, one of them is the start.                   *)
THEOREM StartNeverLost == Spec => []StartDefined
PROOF
<1>1. EditorInv => StartDefined
  BY EditorInvImplies
<1> QED BY EditorInvariant, <1>1, PTL

(* No gesture on the graph closes a cycle in a definition without one.     *)
THEOREM GesturesNeverClose == Spec => GesturesKeepAcyclic
PROOF
<1>1. EditorInv /\ [Next]_vars
        => [~ dialog.open /\ UniqueIds(wf) /\ Acyclic(wf) => Acyclic(wf')]_vars
  BY StepKeeps DEF AcyclicKept
<1> QED BY EditorInvariant, <1>1, PTL DEF Spec, GesturesKeepAcyclic

(* No step leaves a reference to dangle that did not, but a save under a   *)
(* new id of a node that names its former one.                             *)
THEOREM ReferencesNeverLost == Spec => ReferencesKept
PROOF
<1>1. EditorInv /\ [Next]_vars
        => [Dangling(wf') \subseteq Dangling(wf) \/ NamesItsFormerSelf]_vars
  BY StepKeeps
<1> QED BY EditorInvariant, <1>1, PTL DEF Spec, ReferencesKept

=============================================================================
