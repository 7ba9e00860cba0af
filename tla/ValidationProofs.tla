-------------------------- MODULE ValidationProofs --------------------------
(***************************************************************************)
(* What Validation promises, proved for any definitions; and the layout.   *)
(***************************************************************************)
EXTENDS Validation, WorkflowProofs

-----------------------------------------------------------------------------
(* What a check leaves: the verdicts of both on the chosen definition.     *)
Judged ==
  /\ wf \in Workflows /\ fields \in Schemas
  /\ Checked => errs = [d \in Dialects |-> ValidateWithSchema(d, wf, fields)]

LEMMA JudgedInductive == Spec => []Judged
PROOF
<1>1. Init => Judged
  BY DEF Init, Judged, Checked
<1>2. Judged /\ [Validate]_vars => Judged'
  BY DEF Judged, Checked, Validate, vars
<1> QED BY <1>1, <1>2, PTL DEF Spec

LEMMA JudgedParsed == Judged => IsParsed(wf) /\ HasFields(wf)
BY ValidationAssumption DEF Judged

(* Without a schema the verdict is the structural one.                     *)
LEMMA StructuralVerdict ==
  ASSUME Judged, Checked, fields = NoSchema, NEW d \in Dialects
  PROVE  errs[d] = StructuralErrors(d, wf)
BY DEF Judged, ValidateWithSchema, StructuralErrors

(* Only the search speaks of cycles.                                       *)
LEMMA OtherKinds ==
  ASSUME NEW w, NEW d
  PROVE  \A e \in StructuralErrors(d, w) \ CycleErrors(w) : e[1] # "cycle"
PROOF
<1>1. \A e \in DuplicateErrors(w) : e[1] # "cycle"
  BY DEF DuplicateErrors
<1>2. \A e \in StartErrors(w) : e[1] # "cycle"
  BY DEF StartErrors
<1>3. \A e \in StructureErrors(w) : e[1] # "cycle"
  <2> DEFINE Kinds == {"type", "no branch", "next on filter", "branch to nowhere", "branches on linear"}
             Of(n) == IF n.type \notin NodeTypes THEN {"type"}
                      ELSE IF n.type = "filter"
                           THEN {e \in {"no branch", "next on filter", "branch to nowhere"} :
                                   \/ e = "no branch" /\ n.branches = <<>>
                                   \/ e = "next on filter" /\ n.next # NoNode
                                   \/ /\ e = "branch to nowhere"
                                      /\ \E i \in 1..Len(n.branches) : n.branches[i].next = NoNode}
                           ELSE IF n.branches # <<>> THEN {"branches on linear"} ELSE {}
  <2>1. \A n : Of(n) \subseteq Kinds
    OBVIOUS
  <2>2. StructureErrors(w) = UNION {{<<e, n.id>> : e \in Of(n)} : n \in NodesOf(w)}
    BY DEF StructureErrors
  <2>3. "cycle" \notin Kinds
    OBVIOUS
  <2> HIDE DEF Of, Kinds
  <2>4. \A e \in StructureErrors(w) : \E n \in NodesOf(w) : \E x \in Of(n) : e = <<x, n.id>>
    BY <2>2
  <2>5. \A e \in StructureErrors(w) : e[1] \in Kinds
    BY <2>1, <2>4
  <2> QED BY <2>3, <2>5
<1>4. \A e \in ReferenceErrors(w) : e[1] # "cycle"
  BY DEF ReferenceErrors
<1>5. \A e \in MergingErrors(w) : e[1] # "cycle"
  BY DEF MergingErrors
<1>6. \A e \in UnreachableErrors(d, w) : e[1] # "cycle"
  BY DEF UnreachableErrors
<1> QED BY <1>1, <1>2, <1>3, <1>4, <1>5, <1>6 DEF StructuralErrors

(* Two arcs to one undefined id, said of nodes and of arcs.                *)
LEMMA TwiceIs ==
  ASSUME NEW w, IsParsed(w)
  PROVE  (\E e, f \in Arcs(w) : Twice(w, e, f)) <=>
           \E e \in Edges(w) : ~ Defined(w, e[3]) /\ ReferredTwice(w, e[3])
PROOF
<1> DEFINE D == NodeIDs(w)
           N == NodeMap(w)
<1>1. \A x \in D : N[x] \in NodesOf(w) /\ N[x].id = x
  BY ParsedNodes
<1>2. ASSUME NEW e \in Arcs(w), NEW f \in Arcs(w), Twice(w, e, f)
      PROVE  \E g \in Edges(w) : ~ Defined(w, g[3]) /\ ReferredTwice(w, g[3])
  <2> DEFINE id == Target(w, e)
             g  == <<e[1], e[2], id>>
  <2>1. /\ e[1] \in D /\ e[2] \in 1..Len(SuccsOf(w, e[1])) /\ e = <<e[1], e[2]>>
        /\ f[1] \in D /\ f[2] \in 1..Len(SuccsOf(w, f[1])) /\ f = <<f[1], f[2]>>
    BY DEF Arcs
  <2>2. g \in Edges(w)
    BY <1>1, <2>1 DEF Edges, Target, SuccsOf
  <2>3. ~ Defined(w, id) /\ e # f /\ Target(w, f) = id
    BY <1>2 DEF Twice, Defined
  <2>4. <<N[e[1]], e[2]>> # <<N[f[1]], f[2]>>
    BY <1>1, <2>1, <2>3
  <2>5. ReferredTwice(w, id)
    BY <2>1, <2>3, <2>4 DEF ReferredTwice, Target, SuccsOf
  <2> QED BY <2>2, <2>3, <2>5
<1>3. ASSUME NEW g \in Edges(w), ~ Defined(w, g[3]), ReferredTwice(w, g[3])
      PROVE  \E e, f \in Arcs(w) : Twice(w, e, f)
  <2> DEFINE id == g[3]
  <2>1. PICK x \in D, y \in D :
          \E i \in 1..Len(SuccsOf(w, x)), j \in 1..Len(SuccsOf(w, y)) :
            SuccsOf(w, x)[i] = id /\ SuccsOf(w, y)[j] = id /\ <<N[x], i>> # <<N[y], j>>
    BY <1>3 DEF ReferredTwice, SuccsOf
  <2>2. PICK i \in 1..Len(SuccsOf(w, x)), j \in 1..Len(SuccsOf(w, y)) :
          SuccsOf(w, x)[i] = id /\ SuccsOf(w, y)[j] = id /\ <<N[x], i>> # <<N[y], j>>
    BY <2>1
  <2>3. <<x, i>> \in Arcs(w) /\ <<y, j>> \in Arcs(w) /\ <<x, i>> # <<y, j>>
    BY <2>2 DEF Arcs
  <2>4. Twice(w, <<x, i>>, <<y, j>>)
    BY <1>3, <2>2, <2>3 DEF Twice, Target, Defined
  <2> QED BY <2>3, <2>4
<1> QED BY <1>2, <1>3

(* Both validators report a cycle exactly when there is one or an undefined*)
(* id is referred to twice.                                                *)
THEOREM CyclesReported == Spec => []CyclesAreReported
PROOF
<1>1. ASSUME Judged, Checked, fields = NoSchema, NEW d \in Dialects
      PROVE  (\E e \in errs[d] : e[1] = "cycle") <=>
               \/ HasCycle(wf)
               \/ \E e \in Edges(wf) : ~ Defined(wf, e[3]) /\ ReferredTwice(wf, e[3])
  <2>1. IsParsed(wf) /\ errs[d] = StructuralErrors(d, wf)
    BY <1>1, JudgedParsed, StructuralVerdict
  <2>2. (\E e \in errs[d] : e[1] = "cycle") <=> CycleErrors(wf) # {}
    BY <2>1, OtherKinds, CyclesFound DEF StructuralErrors
  <2>3. Faulty(wf) <=> HasCycle(wf)
                       \/ \E e \in Edges(wf) : ~ Defined(wf, e[3]) /\ ReferredTwice(wf, e[3])
    BY <2>1, TwiceIs DEF Faulty
  <2> QED BY <2>1, <2>2, <2>3, CyclesFound
<1>2. Judged => CyclesAreReported
  BY <1>1 DEF CyclesAreReported
<1> QED BY <1>2, JudgedInductive, PTL

-----------------------------------------------------------------------------
(* Definitions whose ids are unique.                                       *)
Unique(w) == \A k, l \in Positions(w) : w.nodes[k].id = w.nodes[l].id => k = l

LEMMA UniqueNodes ==
  ASSUME NEW w, IsParsed(w), Unique(w)
  PROVE  \A n \in NodesOf(w) : NodeMap(w)[n.id] = n
PROOF
<1>1. ASSUME NEW k \in Positions(w), NEW l \in Positions(w), w.nodes[k].id = w.nodes[l].id PROVE k = l
  BY <1>1 DEF Unique
<1> QED
  <2> SUFFICES ASSUME NEW n \in NodesOf(w) PROVE NodeMap(w)[n.id] = n
    OBVIOUS
  <2>1. NodeMap(w)[n.id] \in NodesOf(w) /\ NodeMap(w)[n.id].id = n.id
    BY ParsedNodes
  <2> DEFINE m == NodeMap(w)[n.id]
  <2> HIDE DEF m
  <2>2. PICK k \in Positions(w) : w.nodes[k] = n
    BY DEF NodesOf, Positions
  <2>3. PICK l \in Positions(w) : w.nodes[l] = m
    BY <2>1 DEF NodesOf, Positions, m
  <2>4. k = l
    BY <1>1, <2>1, <2>2, <2>3 DEF m
  <2> QED BY <2>2, <2>3, <2>4 DEF m

(* The edges of unique nodes are the arcs.                                 *)
LEMMA EdgesAre ==
  ASSUME NEW w, IsParsed(w), Unique(w)
  PROVE  /\ \A e \in Edges(w) : /\ e = <<e[1], e[2], e[3]>> /\ e[1] \in NodeIDs(w)
                                /\ e[2] \in 1..Len(SuccsOf(w, e[1])) /\ e[3] = SuccsOf(w, e[1])[e[2]]
                                /\ e[3] \in Children(w, e[1])
         /\ \A x \in NodeIDs(w) : \A i \in 1..Len(SuccsOf(w, x)) : <<x, i, SuccsOf(w, x)[i]>> \in Edges(w)
         /\ \A x \in NodeIDs(w) : \A y \in Children(w, x) :
              \E e \in Edges(w) : e[1] = x /\ e[3] = y
PROOF
<1>1. \A n \in NodesOf(w) : n.id \in NodeIDs(w) /\ NodeMap(w)[n.id] = n
  BY ParsedNodes, UniqueNodes
<1>2. \A x \in NodeIDs(w) : NodeMap(w)[x] \in NodesOf(w) /\ NodeMap(w)[x].id = x
  BY ParsedNodes
<1>3. ASSUME NEW e \in Edges(w)
      PROVE  /\ e = <<e[1], e[2], e[3]>> /\ e[1] \in NodeIDs(w)
             /\ e[2] \in 1..Len(SuccsOf(w, e[1])) /\ e[3] = SuccsOf(w, e[1])[e[2]]
  <2>1. PICK n \in NodesOf(w) : \E i \in 1..Len(Successors(n)) : e = <<n.id, i, Successors(n)[i]>>
    BY DEF Edges
  <2>2. PICK i \in 1..Len(Successors(n)) : e = <<n.id, i, Successors(n)[i]>>
    BY <2>1
  <2> QED BY <1>1, <2>1, <2>2 DEF SuccsOf
<1>4. ASSUME NEW x \in NodeIDs(w), NEW i \in 1..Len(SuccsOf(w, x)) PROVE <<x, i, SuccsOf(w, x)[i]>> \in Edges(w)
  <2> DEFINE m == NodeMap(w)[x]
  <2>1. m \in NodesOf(w) /\ m.id = x /\ SuccsOf(w, x) = Successors(m)
    BY <1>2 DEF SuccsOf
  <2> HIDE DEF m
  <2>2. <<m.id, i, Successors(m)[i]>> \in Edges(w)
    BY <2>1 DEF Edges
  <2> QED BY <2>1, <2>2
<1>5. ASSUME NEW x \in NodeIDs(w), NEW y \in Children(w, x) PROVE \E e \in Edges(w) : e[1] = x /\ e[3] = y
  <2>1. PICK i \in 1..Len(SuccsOf(w, x)) : SuccsOf(w, x)[i] = y
    BY SuccessorsOf
  <2>2. <<x, i, y>> \in Edges(w)
    BY <1>4, <2>1
  <2> QED BY <2>2
<1>6. \A e \in Edges(w) : e[3] \in Children(w, e[1])
  BY <1>3, SuccessorsOf
<1> QED BY <1>3, <1>4, <1>5, <1>6

(* Apart from the id itself, what is reached from an id is on a path.      *)
LEMMA WalkFromOne ==
  ASSUME NEW w, IsParsed(w), NEW a
  PROVE  \A x \in Walk(w, {a}) : x = a \/ OnPath(w, a, x)
PROOF
<1> DEFINE C == {a} \cup Walk(w, Children(w, a))
<1>1. {a} \subseteq C /\ Children(w, a) \subseteq C
  BY WalkIs
<1>2. \A x \in C : Children(w, x) \subseteq C
  BY <1>1, WalkIs
<1>3. Walk(w, {a}) \subseteq C
  <2> HIDE DEF C
  <2> QED BY <1>1, <1>2, WalkIs
<1> QED BY <1>3 DEF OnPath

(* In-degrees count the edges.                                             *)
Incoming(w, id) ==
  UNION {{<<k, i>> : i \in {j \in 1..Len(Successors(w.nodes[k])) : Successors(w.nodes[k])[j] = id}} :
           k \in Positions(w)}

LEMMA AtMostOne ==
  ASSUME NEW S, IsFiniteSet(S)
  PROVE  ~ Cardinality(S) > 1 <=> \A x, y \in S : x = y
PROOF
<1>1. Cardinality(S) \in Nat
  BY FS_CardinalityType
<1>2. ASSUME \A x, y \in S : x = y PROVE ~ Cardinality(S) > 1
  <2>1. CASE S = {}
    BY <1>1, <2>1, FS_EmptySet
  <2>2. ASSUME NEW x \in S PROVE ~ Cardinality(S) > 1
    <3>1. S = {x}
      BY <1>2, <2>2
    <3>2. Cardinality({x}) = 1
      BY FS_Singleton
    <3> QED BY <3>1, <3>2
  <2> QED BY <2>1, <2>2
<1>3. ASSUME NEW x \in S, NEW y \in S, x # y PROVE Cardinality(S) > 1
  <2> DEFINE T == {x}
  <2>1. Cardinality(T) = 1 /\ T \in SUBSET S /\ T # S
    BY <1>3, FS_Singleton
  <2> HIDE DEF T
  <2>2. Cardinality(T) <= Cardinality(S) /\ Cardinality(S) # Cardinality(T)
    BY <2>1, FS_Subset
  <2> QED BY <1>1, <2>1, <2>2
<1> QED BY <1>2, <1>3

LEMMA IncomingFinite ==
  ASSUME NEW w, IsParsed(w), NEW id
  PROVE  IsFiniteSet(Incoming(w, id))
PROOF
<1> DEFINE n == Len(w.nodes)
           T(k) == {j \in 1..Len(Successors(w.nodes[k])) : Successors(w.nodes[k])[j] = id}
           S(k) == {<<k, i>> : i \in T(k)}
           F == {S(k) : k \in 1..n}
<1>1. n \in Nat
  BY LenProperties DEF IsParsed, IsList
<1>2. ASSUME NEW k \in 1..n PROVE IsFiniteSet(S(k))
  <2>1. Len(Successors(w.nodes[k])) \in Nat
    <3>1. w.nodes[k] \in NodesOf(w)
      BY DEF NodesOf
    <3> QED BY <3>1, SuccessorsListed
  <2>2. IsFiniteSet(1..Len(Successors(w.nodes[k])))
    BY <2>1, FS_Interval
  <2>3. IsFiniteSet(T(k))
    BY <2>2, FS_Subset
  <2> DEFINE A == T(k)
             f == [i \in A |-> <<k, i>>]
  <2> HIDE DEF T, A
  <2>4. S(k) = {f[i] : i \in A} /\ f \in Surjection(A, S(k))
    BY DEF Surjection, A
  <2> QED BY <2>3, <2>4, FS_Surjection DEF A
<1>3. IsFiniteSet(1..n)
  BY <1>1, FS_Interval
<1>4. IsFiniteSet(F)
  <2> DEFINE g == [k \in 1..n |-> S(k)]
  <2> HIDE DEF S
  <2>1. g \in Surjection(1..n, F)
    BY DEF Surjection
  <2> QED BY <1>3, <2>1, FS_Surjection
<1>5. IsFiniteSet(UNION F)
  <2> HIDE DEF S, n
  <2>1. \A B \in F : IsFiniteSet(B)
    BY <1>2
  <2> HIDE DEF F
  <2> QED BY <1>4, <2>1, FS_UNION
<1> QED BY <1>5 DEF Incoming, Positions

(* Each rule, said without sets of errors.                                 *)
LEMMA DuplicatesAre ==
  ASSUME NEW w, IsParsed(w)
  PROVE  DuplicateErrors(w) = {} <=> Unique(w)
PROOF
<1>1. Len(w.nodes) \in Nat
  BY LenProperties DEF IsParsed, IsList
<1>2. DuplicateErrors(w) = {} <=>
        \A l \in Positions(w) : \A m \in 1..(l - 1) : w.nodes[m].id # w.nodes[l].id
  BY DEF DuplicateErrors
<1>3. (\A l \in Positions(w) : \A m \in 1..(l - 1) : w.nodes[m].id # w.nodes[l].id) => Unique(w)
  <2> SUFFICES ASSUME \A l \in Positions(w) : \A m \in 1..(l - 1) : w.nodes[m].id # w.nodes[l].id,
                      NEW k \in Positions(w), NEW l \in Positions(w), w.nodes[k].id = w.nodes[l].id,
                      k # l
               PROVE  FALSE
    BY DEF Unique
  <2>1. k \in 1..(l - 1) \/ l \in 1..(k - 1)
    BY <1>1 DEF Positions
  <2> QED BY <2>1
<1>4. ASSUME Unique(w), NEW l \in Positions(w), NEW m \in 1..(l - 1) PROVE w.nodes[m].id # w.nodes[l].id
  <2>1. m \in Positions(w) /\ m # l
    BY <1>1 DEF Positions
  <2> QED BY <1>4, <2>1 DEF Unique
<1> QED BY <1>2, <1>3, <1>4

LEMMA ShapesAre ==
  ASSUME NEW w
  PROVE  StructureErrors(w) = {} <=> \A n \in NodesOf(w) : WellShaped(n)
PROOF
<1> DEFINE Of(n) == IF n.type \notin NodeTypes THEN {"type"}
                    ELSE IF n.type = "filter"
                         THEN {e \in {"no branch", "next on filter", "branch to nowhere"} :
                                 \/ e = "no branch" /\ n.branches = <<>>
                                 \/ e = "next on filter" /\ n.next # NoNode
                                 \/ /\ e = "branch to nowhere"
                                    /\ \E i \in 1..Len(n.branches) : n.branches[i].next = NoNode}
                         ELSE IF n.branches # <<>> THEN {"branches on linear"} ELSE {}
<1>1. ASSUME NEW n PROVE Of(n) = {} <=> WellShaped(n)
  <2>1. CASE n.type \notin NodeTypes
    BY <2>1 DEF WellShaped, NodeTypes
  <2>2. CASE n.type = "filter"
    <3>1. Of(n) = {e \in {"no branch", "next on filter", "branch to nowhere"} :
                     \/ e = "no branch" /\ n.branches = <<>>
                     \/ e = "next on filter" /\ n.next # NoNode
                     \/ /\ e = "branch to nowhere"
                        /\ \E i \in 1..Len(n.branches) : n.branches[i].next = NoNode}
      BY <2>2 DEF NodeTypes
    <3>2. WellShaped(n) <=> /\ n.branches # <<>> /\ n.next = NoNode
                            /\ \A i \in 1..Len(n.branches) : n.branches[i].next # NoNode
      BY <2>2 DEF WellShaped, LinearTypes
    <3> HIDE DEF Of
    <3> QED BY <3>1, <3>2
  <2>3. CASE n.type \in LinearTypes
    BY <2>3 DEF WellShaped, NodeTypes, LinearTypes
  <2> QED BY <2>1, <2>2, <2>3 DEF NodeTypes
<1>2. StructureErrors(w) = UNION {{<<e, n.id>> : e \in Of(n)} : n \in NodesOf(w)}
  BY DEF StructureErrors
<1> HIDE DEF Of
<1>3. StructureErrors(w) = {} <=> \A n \in NodesOf(w) : Of(n) = {}
  <2>1. ASSUME NEW n \in NodesOf(w), NEW e \in Of(n) PROVE <<e, n.id>> \in StructureErrors(w)
    BY <1>2
  <2>2. ASSUME NEW x \in StructureErrors(w) PROVE \E n \in NodesOf(w) : Of(n) # {}
    BY <1>2
  <2> QED BY <2>1, <2>2
<1> QED BY <1>1, <1>3

LEMMA ReferencesAre ==
  ASSUME NEW w
  PROVE  ReferenceErrors(w) = {} <=> \A e \in Edges(w) : Defined(w, e[3])
BY DEF ReferenceErrors

LEMMA MergingsAre ==
  ASSUME NEW w, IsParsed(w), Unique(w)
  PROVE  MergingErrors(w) = {} <=> \A e, f \in Edges(w) : e[3] = f[3] => e = f
PROOF
<1>1. MergingErrors(w) = {} <=> \A g \in Edges(w) : ~ Cardinality(Incoming(w, g[3])) > 1
  <2>1. \A id : InDegree(w, id) = Cardinality(Incoming(w, id))
    BY DEF InDegree, Incoming
  <2> QED BY <2>1 DEF MergingErrors
<1>2. ASSUME NEW id PROVE ~ Cardinality(Incoming(w, id)) > 1 <=> \A x, y \in Incoming(w, id) : x = y
  BY IncomingFinite, AtMostOne
<1>3. ASSUME NEW k \in Positions(w), NEW i \in 1..Len(Successors(w.nodes[k]))
      PROVE  /\ <<w.nodes[k].id, i, Successors(w.nodes[k])[i]>> \in Edges(w)
             /\ <<k, i>> \in Incoming(w, Successors(w.nodes[k])[i])
  BY DEF Edges, NodesOf, Incoming, Positions
<1>4. ASSUME NEW e \in Edges(w)
      PROVE  \E k \in Positions(w), i \in Nat : e = <<w.nodes[k].id, i, e[3]>> /\ <<k, i>> \in Incoming(w, e[3])
  <2>1. PICK n \in NodesOf(w) : \E i \in 1..Len(Successors(n)) : e = <<n.id, i, Successors(n)[i]>>
    BY DEF Edges
  <2>2. PICK i \in 1..Len(Successors(n)) : e = <<n.id, i, Successors(n)[i]>>
    BY <2>1
  <2>3. PICK k \in Positions(w) : w.nodes[k] = n
    BY DEF NodesOf, Positions
  <2> QED BY <1>3, <2>2, <2>3
<1>5. ASSUME \A g \in Edges(w) : \A x, y \in Incoming(w, g[3]) : x = y,
             NEW e \in Edges(w), NEW f \in Edges(w), e[3] = f[3]
      PROVE  e = f
  <2>1. PICK k \in Positions(w), i \in Nat : e = <<w.nodes[k].id, i, e[3]>> /\ <<k, i>> \in Incoming(w, e[3])
    BY <1>4
  <2>2. PICK l \in Positions(w), j \in Nat : f = <<w.nodes[l].id, j, f[3]>> /\ <<l, j>> \in Incoming(w, f[3])
    BY <1>4
  <2>3. <<k, i>> = <<l, j>>
    BY <1>5, <2>1, <2>2
  <2> QED BY <1>5, <2>1, <2>2, <2>3
<1>6. ASSUME \A e, f \in Edges(w) : e[3] = f[3] => e = f,
             NEW id, NEW x \in Incoming(w, id), NEW y \in Incoming(w, id)
      PROVE  x = y
  <2>1. \A z \in Incoming(w, id) : \E k \in Positions(w) : \E i \in 1..Len(Successors(w.nodes[k])) :
          z = <<k, i>> /\ Successors(w.nodes[k])[i] = id
    BY DEF Incoming
  <2>2. PICK k \in Positions(w) : \E i \in 1..Len(Successors(w.nodes[k])) :
          x = <<k, i>> /\ Successors(w.nodes[k])[i] = id
    BY <2>1
  <2>3. PICK i \in 1..Len(Successors(w.nodes[k])) : x = <<k, i>> /\ Successors(w.nodes[k])[i] = id
    BY <2>2
  <2>4. PICK l \in Positions(w) : \E j \in 1..Len(Successors(w.nodes[l])) :
          y = <<l, j>> /\ Successors(w.nodes[l])[j] = id
    BY <2>1
  <2>5. PICK j \in 1..Len(Successors(w.nodes[l])) : y = <<l, j>> /\ Successors(w.nodes[l])[j] = id
    BY <2>4
  <2>6. <<w.nodes[k].id, i, id>> = <<w.nodes[l].id, j, id>>
    BY <1>3, <1>6, <2>3, <2>5
  <2>7. k = l /\ i = j
    BY <2>6 DEF Unique
  <2> QED BY <2>3, <2>5, <2>7
<1> QED BY <1>1, <1>2, <1>5, <1>6

(* What has only one way in and is reached from a start that no edge leads *)
(* to is ranked by the level of the walk that reaches it first.            *)
LEMMA TreesAreRanked ==
  ASSUME NEW w, IsParsed(w), Unique(w), IsTree(w), Defined(w, w.start),
         \A e \in Edges(w) : Defined(w, e[3]), NodeIDs(w) \subseteq Walk(w, {w.start})
  PROVE  Ranked(w)
PROOF
<1> DEFINE n == Len(w.nodes)
           D == NodeIDs(w)
           first == {w.start}
<1>1. n \in Nat
  BY LenProperties DEF IsParsed, IsList
<1>2. PICK far : /\ Walk(w, first) = far[n] /\ far[0] = first
                 /\ \A k \in 1..n : far[k] = far[k - 1] \cup UNION {Children(w, x) : x \in far[k - 1]}
  <2> HIDE DEF first
  <2>1. PICK f : /\ Walk(w, first) = f[n] /\ f[0] = first
                 /\ \A k \in 1..n : f[k] = f[k - 1] \cup UNION {Children(w, x) : x \in f[k - 1]}
    BY WalkLevels
  <2> HIDE DEF n
  <2> QED BY <2>1
<1> HIDE DEF n
<1> DEFINE Ks(x) == {k \in 0..n : x \in far[k]}
           Least(x, k) == k \in Ks(x) /\ \A l \in Ks(x) : k <= l
           rank == [x \in D |-> CHOOSE k \in 0..n : Least(x, k)]
<1>3. ASSUME NEW x \in D PROVE rank[x] \in 0..n /\ Least(x, rank[x])
  <2>1. n \in Ks(x) /\ Ks(x) \subseteq Nat
    BY <1>1, <1>2
  <2>2. \E k \in Ks(x) : \A l \in Ks(x) : k <= l
    <3> HIDE DEF Ks
    <3> QED BY <2>1, LeastNatural
  <2>3. \E k \in 0..n : Least(x, k)
    BY <2>2
  <2>4. rank[x] = CHOOSE k \in 0..n : Least(x, k)
    OBVIOUS
  <2> HIDE DEF Least, rank
  <2> QED BY <2>3, <2>4
<1> HIDE DEF rank
<1>4. \A x \in D : rank[x] \in 0..n /\ x \in far[rank[x]] /\ \A l \in 0..n : x \in far[l] => rank[x] <= l
  BY <1>3
<1> HIDE DEF Ks, Least
<1>5. ASSUME NEW x \in D PROVE rank[x] = 0 <=> x = w.start
  <2>1. 0 \in 0..n
    BY <1>1
  <2>2. CASE x = w.start
    <3>1. rank[x] <= 0
      BY <1>2, <1>4, <2>1, <2>2
    <3> QED BY <1>4, <2>2, <3>1
  <2>3. CASE rank[x] = 0
    BY <1>2, <1>4, <2>3
  <2> QED BY <2>2, <2>3
<1>6. ASSUME NEW y \in D, y # w.start
      PROVE  \E e \in Edges(w) : e[3] = y /\ rank[y] = rank[e[1]] + 1
  <2>1. rank[y] \in 1..n /\ rank[y] - 1 \in 0..n /\ ~ rank[y] <= rank[y] - 1
    BY <1>1, <1>4, <1>5, <1>6
  <2>2. y \in far[rank[y]] /\ y \notin far[rank[y] - 1]
    BY <1>4, <2>1
  <2>3. PICK z \in far[rank[y] - 1] : y \in Children(w, z)
    BY <1>2, <2>1, <2>2
  <2>4. z \in D
    BY <2>3 DEF Children, Defined
  <2>5. PICK e \in Edges(w) : e[1] = z /\ e[3] = y
    BY <2>3, <2>4, EdgesAre
  <2>6. rank[z] <= rank[y] - 1
    BY <1>4, <2>1, <2>3, <2>4
  <2>7. rank[z] \in 0..n /\ rank[z] + 1 \in 1..n
    BY <1>1, <1>4, <2>1, <2>4, <2>6
  <2>8. y \in far[rank[z] + 1]
    <3>1. z \in far[rank[z]] /\ (rank[z] + 1) - 1 = rank[z]
      BY <1>4, <2>4
    <3> QED BY <1>2, <2>3, <2>7, <3>1
  <2>9. rank[y] <= rank[z] + 1
    BY <1>4, <2>7, <2>8
  <2>10. rank[y] = rank[e[1]] + 1
    BY <2>1, <2>5, <2>6, <2>7, <2>9
  <2> QED BY <2>5, <2>10
<1>7. ASSUME NEW e \in Edges(w) PROVE rank[e[3]] = rank[e[1]] + 1
  <2>1. e[3] \in D /\ e[3] # w.start
    BY DEF IsTree, Defined
  <2>2. PICK f \in Edges(w) : f[3] = e[3] /\ rank[e[3]] = rank[f[1]] + 1
    BY <1>6, <2>1
  <2>3. e = f
    BY <2>2 DEF IsTree
  <2> QED BY <2>2, <2>3
<1>8. rank \in [D -> 0..n]
  BY <1>3 DEF rank
<1> QED BY <1>5, <1>6, <1>7, <1>8 DEF Ranked, n

(* In a ranked definition an edge never leads up.                          *)
LEMMA RankedIsAcyclic ==
  ASSUME NEW w, IsParsed(w), Unique(w), Ranked(w), \A e \in Edges(w) : Defined(w, e[3])
  PROVE  ~ HasCycle(w)
PROOF
<1> DEFINE D == NodeIDs(w)
           n == Len(w.nodes)
<1>1. PICK rank \in [D -> 0..n] : \A e \in Edges(w) : rank[e[3]] = rank[e[1]] + 1
  BY DEF Ranked
<1>2. ASSUME NEW x \in D PROVE ~ OnPath(w, x, x)
  <2> DEFINE C == {y \in D : rank[y] > rank[x]}
  <2>1. ASSUME NEW y \in D, NEW z \in Children(w, y) PROVE z \in D /\ rank[z] = rank[y] + 1
    BY <1>1, <2>1, EdgesAre DEF Defined
  <2>2. n \in Nat
    BY LenProperties DEF IsParsed, IsList
  <2>3. \A y \in D : rank[y] \in Nat
    BY <1>1, <2>2
  <2>4. Children(w, x) \subseteq C /\ \A y \in C : Children(w, y) \subseteq C
    BY <2>1, <2>3
  <2>5. x \notin C
    BY <2>3
  <2> HIDE DEF C
  <2> QED BY <2>4, <2>5, PathsFrom
<1> QED BY <1>2 DEF HasCycle

(* Every id of a ranked definition is walked to.                           *)
LEMMA RankedIsReached ==
  ASSUME NEW w, IsParsed(w), Unique(w), Ranked(w)
  PROVE  NodeIDs(w) \subseteq Walk(w, {w.start})
PROOF
<1> DEFINE D == NodeIDs(w)
           n == Len(w.nodes)
           W == Walk(w, {w.start})
<1>1. PICK rank \in [D -> 0..n] :
         /\ \A id \in D : rank[id] = 0 <=> id = w.start
         /\ \A e \in Edges(w) : rank[e[3]] = rank[e[1]] + 1
         /\ \A id \in D \ {w.start} : \E e \in Edges(w) : e[3] = id
  BY DEF Ranked
<1>2. n \in Nat
  BY LenProperties DEF IsParsed, IsList
<1>3. w.start \in W /\ \A x \in W : Children(w, x) \subseteq W
  BY WalkIs
<1> HIDE DEF W, n
<1> DEFINE U == {k \in 0..n : \A x \in D : rank[x] = k => x \in W}
<1>4. 0 \in U
  BY <1>1, <1>2, <1>3
<1>5. ASSUME NEW k \in 1..n, k - 1 \in U PROVE k \in U
  <2>1. ASSUME NEW x \in D, rank[x] = k PROVE x \in W
    <3>1. PICK e \in Edges(w) : e[3] = x
      BY <1>1, <2>1
    <3>2. e[1] \in D /\ e[3] \in Children(w, e[1]) /\ rank[e[1]] \in 0..n /\ rank[x] = rank[e[1]] + 1
      BY <1>1, <3>1, EdgesAre
    <3>3. rank[e[1]] = k - 1
      BY <1>2, <2>1, <3>2
    <3>4. e[1] \in W
      BY <1>5, <3>2, <3>3
    <3> QED BY <1>3, <3>1, <3>2, <3>4
  <2> QED BY <2>1
<1>6. \A k \in 0..n : k \in U
  <2> HIDE DEF U
  <2> QED BY <1>2, <1>4, <1>5, UpTo
<1> QED BY <1>1, <1>6 DEF W

(* The structural rules and well-formedness.                               *)
LEMMA AcceptedIsWellFormed ==
  ASSUME NEW w, IsParsed(w), NEW d \in Dialects, StructuralErrors(d, w) = {}
  PROVE  WellFormed(w)
PROOF
<1>1. /\ DuplicateErrors(w) = {} /\ StartErrors(w) = {} /\ StructureErrors(w) = {} /\ ReferenceErrors(w) = {}
      /\ MergingErrors(w) = {} /\ CycleErrors(w) = {} /\ UnreachableErrors(d, w) = {}
  BY DEF StructuralErrors
<1>2. Unique(w) /\ Defined(w, w.start)
  BY <1>1, DuplicatesAre DEF StartErrors
<1>3. (\A n \in NodesOf(w) : WellShaped(n)) /\ \A e \in Edges(w) : Defined(w, e[3])
  BY <1>1, ShapesAre, ReferencesAre
<1>4. \A e, f \in Edges(w) : e[3] = f[3] => e = f
  BY <1>1, <1>2, MergingsAre
<1>5. ~ HasCycle(w)
  BY <1>1, CyclesFound DEF Faulty
<1>6. NodeIDs(w) \subseteq Walk(w, {w.start})
  <2>1. UnreachableErrors(d, w) = {<<"unreachable", id>> : id \in NodeIDs(w) \ Walk(w, {w.start})}
    BY <1>2 DEF UnreachableErrors
  <2> QED BY <1>1, <2>1
<1>7. ASSUME NEW e \in Edges(w) PROVE e[3] # w.start
  <2> SUFFICES ASSUME e[3] = w.start PROVE FALSE
    OBVIOUS
  <2>1. e[1] \in NodeIDs(w) /\ w.start \in Children(w, e[1])
    BY <1>2, EdgesAre
  <2>2. e[1] = w.start \/ OnPath(w, w.start, e[1])
    BY <1>6, <2>1, WalkFromOne
  <2>3. OnPath(w, w.start, w.start)
    BY <2>1, <2>2, PathsFrom
  <2> QED BY <1>2, <1>5, <2>3 DEF HasCycle, Defined
<1>8. IsTree(w)
  BY <1>4, <1>7 DEF IsTree
<1>9. Ranked(w)
  BY <1>2, <1>3, <1>6, <1>8, TreesAreRanked
<1> QED BY <1>2, <1>3, <1>8, <1>9 DEF WellFormed, Unique

LEMMA WellFormedIsAccepted ==
  ASSUME NEW w, IsParsed(w), NEW d \in Dialects, WellFormed(w)
  PROVE  StructuralErrors(d, w) = {}
PROOF
<1>1. /\ Unique(w) /\ Defined(w, w.start) /\ (\A n \in NodesOf(w) : WellShaped(n))
      /\ (\A e \in Edges(w) : Defined(w, e[3])) /\ IsTree(w) /\ Ranked(w)
  BY DEF WellFormed, Unique
<1>2. DuplicateErrors(w) = {} /\ StartErrors(w) = {}
  BY <1>1, DuplicatesAre DEF StartErrors
<1>3. StructureErrors(w) = {} /\ ReferenceErrors(w) = {}
  BY <1>1, ShapesAre, ReferencesAre
<1>4. MergingErrors(w) = {}
  BY <1>1, MergingsAre DEF IsTree
<1>5. CycleErrors(w) = {}
  <2>1. ~ HasCycle(w)
    BY <1>1, RankedIsAcyclic
  <2>2. ~ \E e, f \in Arcs(w) : Twice(w, e, f)
    BY <1>1, TwiceIs
  <2> QED BY <2>1, <2>2, CyclesFound DEF Faulty
<1>6. UnreachableErrors(d, w) = {}
  BY <1>1, RankedIsReached DEF UnreachableErrors
<1> QED BY <1>2, <1>3, <1>4, <1>5, <1>6 DEF StructuralErrors

(* The structural rules of both accept exactly the well-formed definitions.*)
THEOREM ExactlyTreesAccepted == Spec => []AcceptsExactlyTrees
PROOF
<1>1. ASSUME Judged, Checked, fields = NoSchema, NEW d \in Dialects
      PROVE  errs[d] = {} <=> WellFormed(wf)
  BY <1>1, JudgedParsed, StructuralVerdict, AcceptedIsWellFormed, WellFormedIsAccepted
<1>2. Judged => AcceptsExactlyTrees
  BY <1>1 DEF AcceptsExactlyTrees
<1> QED BY <1>2, JudgedInductive, PTL

-----------------------------------------------------------------------------
(* Above a child of a tree are its parent and what is above the parent.    *)
LEMMA AboveChild ==
  ASSUME NEW w, IsParsed(w), Unique(w), IsTree(w),
         NEW x \in NodeIDs(w), NEW y \in Children(w, x), NEW a \in NodeIDs(w)
  PROVE  OnPath(w, a, y) <=> a = x \/ OnPath(w, a, x)
PROOF
<1>1. ASSUME NEW z, y \in Children(w, z) PROVE z = x
  <2>1. z \in NodeIDs(w)
    BY <1>1 DEF Children, Defined
  <2>2. PICK e \in Edges(w) : e[1] = z /\ e[3] = y
    BY <1>1, <2>1, EdgesAre
  <2>3. PICK f \in Edges(w) : f[1] = x /\ f[3] = y
    BY EdgesAre
  <2> QED BY <2>2, <2>3 DEF IsTree
<1>2. a = x \/ OnPath(w, a, x) => OnPath(w, a, y)
  BY PathsFrom
<1>3. ASSUME OnPath(w, a, y) PROVE a = x \/ OnPath(w, a, x)
  <2> DEFINE C == {z \in Walk(w, Children(w, a)) : z = y => a = x \/ OnPath(w, a, x)}
  <2>1. \A z : z \in Walk(w, Children(w, a)) <=> OnPath(w, a, z)
    BY DEF OnPath
  <2>2. Children(w, a) \subseteq C
    BY <1>1, <2>1, PathsFrom
  <2>3. \A z \in C : Children(w, z) \subseteq C
    BY <1>1, <2>1, PathsFrom
  <2>4. y \in C
    <3> HIDE DEF C
    <3> QED BY <1>3, <2>2, <2>3, PathsFrom
  <2> QED BY <2>4
<1> QED BY <1>2, <1>3

(* The start of a tree is below nothing.                                   *)
LEMMA NothingAboveStart ==
  ASSUME NEW w, IsParsed(w), Unique(w), IsTree(w), NEW a
  PROVE  ~ OnPath(w, a, w.start)
PROOF
<1>1. ASSUME NEW z PROVE w.start \notin Children(w, z)
  <2>1. z \in NodeIDs(w) \/ Children(w, z) = {}
    BY DEF Children, Defined
  <2> QED BY <2>1, EdgesAre DEF IsTree
<1> DEFINE C == Walk(w, Children(w, a)) \ {w.start}
<1>2. Children(w, a) \subseteq C /\ \A z \in C : Children(w, z) \subseteq C
  BY <1>1, WalkIs
<1>3. w.start \notin C
  OBVIOUS
<1> HIDE DEF C
<1> QED BY <1>2, <1>3, PathsFrom

(* What a node is visited with: the input and what is produced above it.   *)
Available(w, initial, x) ==
  initial \cup UNION {IF OnPath(w, n.id, x) THEN n.produces ELSE {} : n \in NodesOf(w)}

LEMMA AvailableBelow ==
  ASSUME NEW w, IsParsed(w), Unique(w), IsTree(w), NEW initial
  PROVE  /\ Available(w, initial, w.start) = initial
         /\ \A x \in NodeIDs(w) : \A y \in Children(w, x) :
              Available(w, initial, y) = Available(w, initial, x) \cup NodeMap(w)[x].produces
PROOF
<1>1. \A x, f : f \in Available(w, initial, x) <=>
                  f \in initial \/ \E n \in NodesOf(w) : OnPath(w, n.id, x) /\ f \in n.produces
  BY DEF Available
<1>2. Available(w, initial, w.start) = initial
  BY <1>1, NothingAboveStart
<1>3. ASSUME NEW x \in NodeIDs(w), NEW y \in Children(w, x)
      PROVE  Available(w, initial, y) = Available(w, initial, x) \cup NodeMap(w)[x].produces
  <2>1. NodeMap(w)[x] \in NodesOf(w) /\ NodeMap(w)[x].id = x
    BY ParsedNodes
  <2>2. ASSUME NEW n \in NodesOf(w) PROVE OnPath(w, n.id, y) <=> n = NodeMap(w)[x] \/ OnPath(w, n.id, x)
    <3>1. n.id \in NodeIDs(w) /\ NodeMap(w)[n.id] = n
      BY ParsedNodes, UniqueNodes
    <3>2. OnPath(w, n.id, y) <=> n.id = x \/ OnPath(w, n.id, x)
      BY <3>1, AboveChild
    <3> QED BY <2>1, <3>1, <3>2
  <2> DEFINE m == NodeMap(w)[x]
  <2> HIDE DEF m
  <2>3. \A f : f \in Available(w, initial, y) <=> f \in Available(w, initial, x) \/ f \in m.produces
    BY <1>1, <2>1, <2>2 DEF m
  <2> QED BY <2>3 DEF m
<1> QED BY <1>2, <1>3

(* Every node of a well-formed definition is visited, with just that.      *)
LEMMA VisitsAre ==
  ASSUME NEW w, IsParsed(w), WellFormed(w), NEW initial
  PROVE  Visits(w, initial) = {<<x, Available(w, initial, x)>> : x \in NodeIDs(w)}
PROOF
<1> DEFINE n == Len(w.nodes)
           D == NodeIDs(w)
           At(x) == <<x, Available(w, initial, x)>>
           V == {At(x) : x \in D}
<1>1. Unique(w) /\ IsTree(w) /\ w.start \in D /\ Ranked(w) /\ \A e \in Edges(w) : e[3] \in D
  BY DEF WellFormed, Unique, Defined
<1>2. n \in Nat
  BY LenProperties DEF IsParsed, IsList
<1>3. PICK visits : /\ Visits(w, initial) = visits[n] /\ visits[0] = {<<w.start, initial>>}
                    /\ \A k \in 1..n : visits[k] = visits[k - 1] \cup UNION {VisitsBelow(w, v) : v \in visits[k - 1]}
  BY <1>1, VisitLevels DEF Defined
<1> HIDE DEF n
<1>4. ASSUME NEW x \in D, NEW y
      PROVE  y \in Children(w, x) \cap D => At(y) \in VisitsBelow(w, At(x))
  BY <1>1, AvailableBelow DEF VisitsBelow
<1>5. ASSUME NEW x \in D, NEW v \in VisitsBelow(w, At(x)) PROVE v \in V
  <2>1. PICK y \in Children(w, x) \cap D : v = <<y, Available(w, initial, x) \cup NodeMap(w)[x].produces>>
    BY DEF VisitsBelow
  <2>2. v = At(y)
    BY <1>1, <2>1, AvailableBelow
  <2> QED BY <2>1, <2>2
<1>6. At(w.start) = <<w.start, initial>>
  BY <1>1, AvailableBelow
<1> HIDE DEF At
<1> DEFINE U == {k \in 0..n : visits[k] \subseteq V}
<1>7. 0 \in U
  BY <1>1, <1>2, <1>3, <1>6
<1>8. ASSUME NEW k \in 1..n, k - 1 \in U PROVE k \in U
  <2>1. visits[k - 1] \subseteq V /\ visits[k] = visits[k - 1] \cup UNION {VisitsBelow(w, v) : v \in visits[k - 1]}
    BY <1>3, <1>8
  <2>2. \A v \in V : VisitsBelow(w, v) \subseteq V
    BY <1>5
  <2> HIDE DEF V
  <2>3. visits[k] \subseteq V
    BY <2>1, <2>2
  <2> QED BY <1>2, <2>3
<1>9. visits[n] \subseteq V
  <2>1. \A k \in 0..n : k \in U
    <3> HIDE DEF U
    <3> QED BY <1>2, <1>7, <1>8, UpTo
  <2> QED BY <1>2, <2>1
<1>10. PICK rank \in [D -> 0..n] :
         /\ \A id \in D : rank[id] = 0 <=> id = w.start
         /\ \A e \in Edges(w) : rank[e[3]] = rank[e[1]] + 1
         /\ \A id \in D \ {w.start} : \E e \in Edges(w) : e[3] = id
  BY <1>1 DEF Ranked, n
<1> DEFINE R == {k \in 0..n : \A x \in D : rank[x] <= k => At(x) \in visits[k]}
<1>11. 0 \in R
  <2>1. \A x \in D : rank[x] <= 0 => x = w.start
    BY <1>2, <1>10
  <2> QED BY <1>2, <1>3, <1>6, <2>1
<1>12. ASSUME NEW k \in 1..n, k - 1 \in R PROVE k \in R
  <2>1. /\ \A x \in D : rank[x] <= k - 1 => At(x) \in visits[k - 1]
        /\ visits[k] = visits[k - 1] \cup UNION {VisitsBelow(w, v) : v \in visits[k - 1]}
    BY <1>3, <1>12
  <2>2. ASSUME NEW x \in D, rank[x] <= k PROVE At(x) \in visits[k]
    <3>1. rank[x] \in 0..n
      BY <1>10
    <3>2. CASE rank[x] <= k - 1
      BY <2>1, <3>2
    <3>3. CASE rank[x] = k
      <4>1. PICK e \in Edges(w) : e[3] = x
        BY <1>2, <1>10, <3>3
      <4>2. e[1] \in D /\ x \in Children(w, e[1]) /\ rank[e[1]] \in 0..n /\ rank[x] = rank[e[1]] + 1
        BY <1>1, <1>10, <4>1, EdgesAre
      <4>3. At(e[1]) \in visits[k - 1]
        BY <1>2, <2>1, <3>3, <4>2
      <4>4. At(x) \in VisitsBelow(w, At(e[1]))
        BY <1>4, <4>2
      <4> QED BY <2>1, <4>3, <4>4
    <3> QED BY <1>2, <2>2, <3>1, <3>2, <3>3
  <2> QED BY <2>2
<1>13. V \subseteq visits[n]
  <2>1. n \in R
    <3>1. \A k \in 0..n : k \in R
      <4> HIDE DEF R
      <4> QED BY <1>2, <1>11, <1>12, UpTo
    <3> QED BY <1>2, <3>1
  <2>2. \A x \in D : rank[x] <= n
    BY <1>2, <1>10
  <2> QED BY <2>1, <2>2
<1> QED BY <1>3, <1>9, <1>13 DEF At

(* A read is reported exactly when no proper ancestor and no field of the  *)
(* input supplies it.                                                      *)
LEMMA ReadsReported ==
  ASSUME NEW w, IsParsed(w), WellFormed(w), NEW initial
  PROVE  DataFlowErrors(w, initial) =
           UNION {{<<"reads", n.id, f>> : f \in Unsupplied(w, n, initial)} : n \in NodesOf(w)}
PROOF
<1> DEFINE D == NodeIDs(w)
           E(v) == {<<"reads", v[1], f>> : f \in Missing(NodeMap(w)[v[1]], v[2])}
           F(n) == {<<"reads", n.id, f>> : f \in Unsupplied(w, n, initial)}
<1>1. Unique(w) /\ Defined(w, w.start)
  BY DEF WellFormed, Unique
<1>2. DataFlowErrors(w, initial) = UNION {E(v) : v \in Visits(w, initial)}
  BY <1>1 DEF DataFlowErrors
<1>3. \A n \in NodesOf(w) : n.id \in D /\ NodeMap(w)[n.id] = n
  BY <1>1, ParsedNodes, UniqueNodes
<1>4. \A x \in D : NodeMap(w)[x] \in NodesOf(w) /\ NodeMap(w)[x].id = x
  BY ParsedNodes
<1>5. ASSUME NEW n \in NodesOf(w) PROVE E(<<n.id, Available(w, initial, n.id)>>) = F(n)
  <2>1. Missing(n, Available(w, initial, n.id)) = Unsupplied(w, n, initial)
    BY DEF Missing, Unsupplied, Available
  <2> QED BY <1>3, <2>1
<1> HIDE DEF E, F
<1>6. \A n \in NodesOf(w) : <<n.id, Available(w, initial, n.id)>> \in Visits(w, initial)
  BY <1>3, VisitsAre
<1>7. \A v \in Visits(w, initial) : \E n \in NodesOf(w) : v = <<n.id, Available(w, initial, n.id)>>
  BY <1>4, VisitsAre
<1>8. UNION {E(v) : v \in Visits(w, initial)} = UNION {F(n) : n \in NodesOf(w)}
  BY <1>5, <1>6, <1>7
<1> QED BY <1>2, <1>8 DEF F

(* The data-flow check reports a read exactly when it is not supplied.     *)
THEOREM AncestralReads == Spec => []ReadsAreAncestral
PROOF
<1>1. ASSUME Judged, Checked, fields # NoSchema, WellFormed(wf), NEW d \in Dialects
      PROVE  errs[d] = UNION {{<<"reads", n.id, f>> : f \in Unsupplied(wf, n, fields)} : n \in NodesOf(wf)}
  <2>1. IsParsed(wf) /\ StructuralErrors(d, wf) = {}
    BY <1>1, JudgedParsed, WellFormedIsAccepted
  <2>2. errs[d] = DataFlowErrors(wf, fields)
    BY <1>1, <2>1 DEF Judged, ValidateWithSchema, StructuralErrors
  <2> QED BY <1>1, <2>1, <2>2, ReadsReported
<1>2. Judged => ReadsAreAncestral
  BY <1>1 DEF ReadsAreAncestral
<1> QED BY <1>2, JudgedInductive, PTL

-----------------------------------------------------------------------------
(* Definitions alike but for the ids: B is A with r in place of its ids.   *)
Renames(A, B, r) ==
  /\ Len(B.nodes) = Len(A.nodes) /\ B.start = r[A.start]
  /\ \A k \in Positions(A) :
       /\ B.nodes[k].id = r[A.nodes[k].id]
       /\ B.nodes[k].reads = A.nodes[k].reads /\ B.nodes[k].produces = A.nodes[k].produces
       /\ Len(Successors(B.nodes[k])) = Len(Successors(A.nodes[k]))
       /\ \A i \in 1..Len(Successors(A.nodes[k])) :
            Successors(B.nodes[k])[i] = r[Successors(A.nodes[k])[i]]
  /\ \A x, y \in Mentioned(A) : r[x] = r[y] => x = y

Renamed(r, e) == <<r[e[1]], e[2], r[e[3]]>>

LEMMA RenamedNodes ==
  ASSUME NEW A, NEW B, NEW r, Renames(A, B, r)
  PROVE  /\ NodeIDs(A) \subseteq Mentioned(A) /\ A.start \in Mentioned(A)
         /\ \A x \in NodeIDs(A) : r[x] \in NodeIDs(B)
         /\ \A y \in NodeIDs(B) : \E x \in NodeIDs(A) : y = r[x]
         /\ \A x \in Mentioned(A) : r[x] \in NodeIDs(B) => x \in NodeIDs(A)
PROOF
<1>1. NodeIDs(A) = {A.nodes[k].id : k \in Positions(A)} /\ NodeIDs(B) = {B.nodes[k].id : k \in Positions(A)}
  BY DEF NodeIDs, NodesOf, Positions, Renames
<1>2. NodeIDs(A) \subseteq Mentioned(A) /\ A.start \in Mentioned(A)
  BY DEF Mentioned
<1>3. \A y \in NodeIDs(B) : \E x \in NodeIDs(A) : y = r[x]
  BY <1>1 DEF Renames
<1>4. \A x \in NodeIDs(A) : r[x] \in NodeIDs(B)
  BY <1>1 DEF Renames
<1> QED BY <1>2, <1>3, <1>4 DEF Renames

LEMMA RenamedEdges ==
  ASSUME NEW A, NEW B, NEW r, Renames(A, B, r)
  PROVE  /\ \A e \in Edges(A) : /\ Renamed(r, e) \in Edges(B) /\ e = <<e[1], e[2], e[3]>>
                                /\ e[1] \in NodeIDs(A) /\ e[1] \in Mentioned(A) /\ e[3] \in Mentioned(A)
         /\ \A f \in Edges(B) : \E e \in Edges(A) : f = Renamed(r, e)
PROOF
<1>1. ASSUME NEW e \in Edges(A)
      PROVE  /\ Renamed(r, e) \in Edges(B) /\ e = <<e[1], e[2], e[3]>>
             /\ e[1] \in NodeIDs(A) /\ e[1] \in Mentioned(A) /\ e[3] \in Mentioned(A)
  <2>1. PICK n \in NodesOf(A) : \E i \in 1..Len(Successors(n)) : e = <<n.id, i, Successors(n)[i]>>
    BY DEF Edges
  <2>2. PICK i \in 1..Len(Successors(n)) : e = <<n.id, i, Successors(n)[i]>>
    BY <2>1
  <2>3. PICK k \in Positions(A) : n = A.nodes[k]
    BY DEF NodesOf, Positions
  <2>4. B.nodes[k] \in NodesOf(B)
    BY DEF NodesOf, Positions, Renames
  <2>5. <<B.nodes[k].id, i, Successors(B.nodes[k])[i]>> \in Edges(B)
    BY <2>2, <2>3, <2>4 DEF Edges, Renames
  <2>6. Renamed(r, e) \in Edges(B)
    BY <2>2, <2>3, <2>5 DEF Renames, Renamed
  <2> QED BY <2>2, <2>6 DEF NodeIDs, Mentioned
<1>2. ASSUME NEW f \in Edges(B) PROVE \E e \in Edges(A) : f = Renamed(r, e)
  <2>1. PICK n \in NodesOf(B) : \E i \in 1..Len(Successors(n)) : f = <<n.id, i, Successors(n)[i]>>
    BY DEF Edges
  <2>2. PICK i \in 1..Len(Successors(n)) : f = <<n.id, i, Successors(n)[i]>>
    BY <2>1
  <2>3. PICK k \in Positions(A) : n = B.nodes[k]
    BY DEF NodesOf, Positions, Renames
  <2>4. A.nodes[k] \in NodesOf(A) /\ i \in 1..Len(Successors(A.nodes[k]))
    BY <2>3 DEF NodesOf, Positions, Renames
  <2> DEFINE e == <<A.nodes[k].id, i, Successors(A.nodes[k])[i]>>
  <2>5. e \in Edges(A)
    BY <2>4 DEF Edges
  <2>6. f = Renamed(r, e)
    BY <2>2, <2>3, <2>4 DEF Renames, Renamed
  <2> QED BY <2>5, <2>6
<1> QED BY <1>1, <1>2

LEMMA RenamedUnique ==
  ASSUME NEW A, NEW B, NEW r, Renames(A, B, r)
  PROVE  Unique(B) <=> Unique(A)
PROOF
<1>1. \A k \in Positions(A) : A.nodes[k].id \in Mentioned(A)
  BY DEF Positions, NodesOf, NodeIDs, Mentioned
<1>2. \A k, l \in Positions(A) : B.nodes[k].id = B.nodes[l].id <=> A.nodes[k].id = A.nodes[l].id
  BY <1>1 DEF Renames
<1>3. Positions(B) = Positions(A)
  BY DEF Positions, Renames
<1> QED BY <1>2, <1>3 DEF Unique

LEMMA RenamedDefined ==
  ASSUME NEW A, NEW B, NEW r, Renames(A, B, r)
  PROVE  /\ Defined(B, B.start) <=> Defined(A, A.start)
         /\ (\A e \in Edges(B) : Defined(B, e[3])) <=> \A e \in Edges(A) : Defined(A, e[3])
         /\ IsTree(B) <=> IsTree(A)
PROOF
<1> DEFINE D == NodeIDs(A)
           M == Mentioned(A)
<1>10. B.start = r[A.start] /\ \A x, y \in M : r[x] = r[y] => x = y
  BY DEF Renames
<1>11. /\ D \subseteq M /\ A.start \in M
       /\ \A x \in M : r[x] \in NodeIDs(B) <=> x \in D
  BY RenamedNodes
<1>12. /\ \A e \in Edges(A) : Renamed(r, e) \in Edges(B) /\ e[1] \in D /\ e[3] \in M
       /\ \A f \in Edges(B) : \E e \in Edges(A) : f = Renamed(r, e)
       /\ \A e : Renamed(r, e)[3] = r[e[3]]
  BY RenamedEdges DEF Renamed
<1> HIDE DEF D, M
<1>1. Defined(B, B.start) <=> Defined(A, A.start)
  BY <1>10, <1>11 DEF Defined, D
<1>2. (\A e \in Edges(B) : Defined(B, e[3])) <=> \A e \in Edges(A) : Defined(A, e[3])
  <2>1. \A e \in Edges(A) : Defined(A, e[3]) <=> Defined(B, Renamed(r, e)[3])
    BY <1>11, <1>12 DEF Defined, D
  <2> QED BY <2>1, <1>12
<1>3. \A e \in Edges(A) : e[3] = A.start <=> Renamed(r, e)[3] = B.start
  BY <1>10, <1>11, <1>12
<1>4. \A e, f \in Edges(A) : /\ e[3] = f[3] <=> Renamed(r, e)[3] = Renamed(r, f)[3]
                             /\ e = f <=> Renamed(r, e) = Renamed(r, f)
  <2> SUFFICES ASSUME NEW e \in Edges(A), NEW f \in Edges(A)
               PROVE  /\ e[3] = f[3] <=> Renamed(r, e)[3] = Renamed(r, f)[3]
                      /\ e = f <=> Renamed(r, e) = Renamed(r, f)
    OBVIOUS
  <2>1. /\ e = <<e[1], e[2], e[3]>> /\ e[1] \in Mentioned(A) /\ e[3] \in Mentioned(A)
        /\ f = <<f[1], f[2], f[3]>> /\ f[1] \in Mentioned(A) /\ f[3] \in Mentioned(A)
    BY RenamedEdges
  <2>2. (e[3] = f[3] <=> r[e[3]] = r[f[3]]) /\ (e[1] = f[1] <=> r[e[1]] = r[f[1]])
    BY <2>1 DEF Renames
  <2> QED BY <2>1, <2>2 DEF Renamed
<1>5. IsTree(B) <=> IsTree(A)
  <2>1. ASSUME IsTree(A) PROVE IsTree(B)
    BY <1>3, <1>4, <2>1, RenamedEdges DEF IsTree
  <2>2. ASSUME IsTree(B) PROVE IsTree(A)
    BY <1>3, <1>4, <2>2, RenamedEdges DEF IsTree
  <2> QED BY <2>1, <2>2
<1> QED BY <1>1, <1>2, <1>5

LEMMA RenamedRanked ==
  ASSUME NEW A, NEW B, NEW r, Renames(A, B, r), \A e \in Edges(A) : Defined(A, e[3])
  PROVE  Ranked(B) <=> Ranked(A)
PROOF
<1> DEFINE D == NodeIDs(A)
           E == NodeIDs(B)
           n == Len(A.nodes)
           old == [y \in E |-> CHOOSE x \in D : r[x] = y]
<1>1. Len(B.nodes) = n /\ B.start = r[A.start] /\ \A x, y \in Mentioned(A) : r[x] = r[y] => x = y
  BY DEF Renames
<1>2. /\ D \subseteq Mentioned(A) /\ A.start \in Mentioned(A)
      /\ (\A x \in D : r[x] \in E) /\ (\A y \in E : \E x \in D : y = r[x])
  BY RenamedNodes
<1>3. \A x \in D : old[r[x]] = x
  BY <1>1, <1>2
<1>4. /\ \A e \in Edges(A) : Renamed(r, e) \in Edges(B) /\ e[1] \in D /\ e[3] \in D
      /\ \A f \in Edges(B) : \E e \in Edges(A) : f = Renamed(r, e)
  BY RenamedEdges DEF Defined
<1> HIDE DEF n, old, D, E
<1>5. ASSUME Ranked(A) PROVE Ranked(B)
  <2>1. PICK rank \in [D -> 0..n] :
          /\ \A x \in D : rank[x] = 0 <=> x = A.start
          /\ \A e \in Edges(A) : rank[e[3]] = rank[e[1]] + 1
          /\ \A x \in D \ {A.start} : \E e \in Edges(A) : e[3] = x
    BY <1>5 DEF Ranked, D, n
  <2> DEFINE new == [y \in E |-> rank[old[y]]]
  <2>2. \A x \in D : new[r[x]] = rank[x]
    BY <1>2, <1>3
  <2>3. new \in [E -> 0..n]
    BY <1>2, <1>3, <2>1
  <2> HIDE DEF new
  <2>4. ASSUME NEW y \in E PROVE new[y] = 0 <=> y = B.start
    <3>1. PICK x \in D : y = r[x]
      BY <1>2
    <3> QED BY <1>1, <1>2, <2>1, <2>2, <3>1
  <2>5. ASSUME NEW f \in Edges(B) PROVE new[f[3]] = new[f[1]] + 1
    <3>1. PICK e \in Edges(A) : f = Renamed(r, e)
      BY <1>4
    <3>2. f[1] = r[e[1]] /\ f[3] = r[e[3]]
      BY <3>1 DEF Renamed
    <3> QED BY <1>4, <2>1, <2>2, <3>2
  <2>6. ASSUME NEW y \in E, y # B.start PROVE \E f \in Edges(B) : f[3] = y
    <3>1. PICK x \in D : y = r[x]
      BY <1>2
    <3>2. PICK e \in Edges(A) : e[3] = x
      BY <1>1, <2>1, <2>6, <3>1
    <3>3. Renamed(r, e) \in Edges(B) /\ Renamed(r, e)[3] = y
      BY <1>4, <3>1, <3>2 DEF Renamed
    <3> QED BY <3>3
  <2> QED BY <1>1, <2>3, <2>4, <2>5, <2>6 DEF Ranked, E
<1>6. ASSUME Ranked(B) PROVE Ranked(A)
  <2>1. PICK rank \in [E -> 0..n] :
          /\ \A y \in E : rank[y] = 0 <=> y = B.start
          /\ \A f \in Edges(B) : rank[f[3]] = rank[f[1]] + 1
          /\ \A y \in E \ {B.start} : \E f \in Edges(B) : f[3] = y
    BY <1>1, <1>6 DEF Ranked, E
  <2> DEFINE new == [x \in D |-> rank[r[x]]]
  <2>2. new \in [D -> 0..n] /\ \A x \in D : new[x] = rank[r[x]]
    BY <1>2, <2>1
  <2> HIDE DEF new
  <2>3. ASSUME NEW x \in D PROVE new[x] = 0 <=> x = A.start
    BY <1>1, <1>2, <2>1, <2>2
  <2>4. ASSUME NEW e \in Edges(A) PROVE new[e[3]] = new[e[1]] + 1
    <3>1. Renamed(r, e) \in Edges(B) /\ e[1] \in D /\ e[3] \in D
      BY <1>4
    <3>2. rank[r[e[3]]] = rank[r[e[1]]] + 1
      BY <2>1, <3>1 DEF Renamed
    <3> QED BY <2>2, <3>1, <3>2
  <2>5. ASSUME NEW x \in D, x # A.start PROVE \E e \in Edges(A) : e[3] = x
    <3>1. r[x] \in E /\ r[x] # B.start
      BY <1>1, <1>2, <2>5
    <3>2. PICK f \in Edges(B) : f[3] = r[x]
      BY <2>1, <3>1
    <3>3. PICK e \in Edges(A) : f = Renamed(r, e)
      BY <1>4
    <3>4. e[3] \in D /\ r[e[3]] = r[x]
      BY <1>4, <3>2, <3>3 DEF Renamed
    <3> QED BY <1>1, <1>2, <3>4
  <2> QED BY <2>2, <2>3, <2>4, <2>5 DEF Ranked, D, n
<1> QED BY <1>5, <1>6

LEMMA RenamedPaths ==
  ASSUME NEW A, IsParsed(A), Unique(A), NEW B, IsParsed(B), Unique(B), NEW r, Renames(A, B, r),
         NEW x \in NodeIDs(A), NEW y \in NodeIDs(A)
  PROVE  OnPath(B, r[x], r[y]) <=> OnPath(A, x, y)
PROOF
<1> DEFINE M == Mentioned(A)
<1>1. /\ NodeIDs(A) \subseteq M /\ (\A z \in M : r[z] \in NodeIDs(B) => z \in NodeIDs(A))
      /\ \A z \in NodeIDs(A) : r[z] \in NodeIDs(B)
  BY RenamedNodes
<1>2. \A u, v \in M : r[u] = r[v] => u = v
  BY DEF Renames
<1>3. ASSUME NEW u \in NodeIDs(A), NEW v \in Children(A, u) PROVE v \in M /\ r[v] \in Children(B, r[u])
  <2>1. PICK e \in Edges(A) : e[1] = u /\ e[3] = v
    BY EdgesAre
  <2>2. Renamed(r, e) \in Edges(B) /\ Renamed(r, e)[1] = r[u] /\ Renamed(r, e)[3] = r[v] /\ v \in M
    BY <2>1, RenamedEdges DEF Renamed
  <2> QED BY <2>2, EdgesAre
<1>4. ASSUME NEW u \in NodeIDs(A), NEW z \in Children(B, r[u]) PROVE \E v \in Children(A, u) : v \in M /\ z = r[v]
  <2>1. PICK f \in Edges(B) : f[1] = r[u] /\ f[3] = z
    BY <1>1, EdgesAre
  <2>2. PICK e \in Edges(A) : f = Renamed(r, e)
    BY RenamedEdges
  <2>3. e[1] \in M /\ e[3] \in M /\ e[3] \in Children(A, e[1])
    BY RenamedEdges, EdgesAre
  <2>4. r[e[1]] = r[u] /\ r[e[3]] = z
    BY <2>1, <2>2 DEF Renamed
  <2>5. e[1] = u
    BY <1>1, <1>2, <2>3, <2>4
  <2> QED BY <2>3, <2>4, <2>5
<1>5. \A w, u : u \notin NodeIDs(w) => Children(w, u) = {}
  BY DEF Children, Defined
<1> HIDE DEF M
<1>6. ASSUME OnPath(A, x, y) PROVE OnPath(B, r[x], r[y])
  <2> DEFINE C == {z \in M : OnPath(B, r[x], r[z])}
  <2>1. Children(A, x) \subseteq C
    BY <1>3, PathsFrom
  <2>2. \A z \in C : Children(A, z) \subseteq C
    BY <1>3, <1>5, PathsFrom
  <2>3. y \in C
    <3> HIDE DEF C
    <3> QED BY <1>6, <2>1, <2>2, PathsFrom
  <2> QED BY <2>3
<1>7. ASSUME OnPath(B, r[x], r[y]) PROVE OnPath(A, x, y)
  <2> DEFINE C == {r[z] : z \in {v \in M : OnPath(A, x, v)}}
  <2>1. ASSUME NEW z \in Children(B, r[x]) PROVE z \in C
    <3>1. PICK v \in Children(A, x) : v \in M /\ z = r[v]
      BY <1>4
    <3>2. OnPath(A, x, v)
      BY PathsFrom
    <3> QED BY <3>1, <3>2
  <2>2. ASSUME NEW z \in C, NEW t \in Children(B, z) PROVE t \in C
    <3>1. PICK v \in M : OnPath(A, x, v) /\ z = r[v]
      OBVIOUS
    <3>2. v \in NodeIDs(A)
      BY <1>1, <1>5, <2>2, <3>1
    <3>3. PICK u \in Children(A, v) : u \in M /\ t = r[u]
      BY <1>4, <2>2, <3>1, <3>2
    <3>4. OnPath(A, x, u)
      BY <3>1, <3>3, PathsFrom
    <3> QED BY <3>3, <3>4
  <2>3. r[y] \in C
    <3> HIDE DEF C
    <3>1. Children(B, r[x]) \subseteq C /\ \A z \in C : Children(B, z) \subseteq C
      BY <2>1, <2>2
    <3> QED BY <1>7, <3>1, PathsFrom
  <2> QED BY <1>1, <1>2, <2>3
<1> QED BY <1>6, <1>7

(* What is supplied does not depend on the ids.                            *)
Supplied(w, initial) == \A n \in NodesOf(w) : Unsupplied(w, n, initial) = {}

LEMMA RenamedSupply ==
  ASSUME NEW A, IsParsed(A), Unique(A), NEW B, IsParsed(B), Unique(B), NEW r, Renames(A, B, r), NEW initial
  PROVE  Supplied(B, initial) <=> Supplied(A, initial)
PROOF
<1> DEFINE P == Positions(A)
<1>1. NodesOf(A) = {A.nodes[k] : k \in P} /\ NodesOf(B) = {B.nodes[k] : k \in P}
  BY DEF NodesOf, Positions, Renames
<1>2. \A k \in P : /\ B.nodes[k].id = r[A.nodes[k].id] /\ A.nodes[k].id \in NodeIDs(A)
                   /\ B.nodes[k].reads = A.nodes[k].reads /\ B.nodes[k].produces = A.nodes[k].produces
  BY <1>1 DEF Renames, NodeIDs
<1> HIDE DEF P
<1>3. ASSUME NEW k \in P, NEW l \in P
      PROVE  OnPath(B, B.nodes[l].id, B.nodes[k].id) <=> OnPath(A, A.nodes[l].id, A.nodes[k].id)
  BY <1>2, RenamedPaths
<1>4. Supplied(A, initial) <=> \A k \in P : \A f \in A.nodes[k].reads \ initial :
                                 \E l \in P : OnPath(A, A.nodes[l].id, A.nodes[k].id) /\ f \in A.nodes[l].produces
  BY <1>1 DEF Supplied, Unsupplied
<1>5. Supplied(B, initial) <=> \A k \in P : \A f \in B.nodes[k].reads \ initial :
                                 \E l \in P : OnPath(B, B.nodes[l].id, B.nodes[k].id) /\ f \in B.nodes[l].produces
  BY <1>1 DEF Supplied, Unsupplied
<1> QED BY <1>2, <1>3, <1>4, <1>5

(* What validation accepts, said without a search.                         *)
LEMMA AcceptedIs ==
  ASSUME NEW w, IsParsed(w), NEW d \in Dialects, NEW initial
  PROVE  ValidateWithSchema(d, w, initial) = {} <=> WellFormed(w) /\ (initial = NoSchema \/ Supplied(w, initial))
PROOF
<1>1. StructuralErrors(d, w) = {} <=> WellFormed(w)
  BY AcceptedIsWellFormed, WellFormedIsAccepted
<1>2. ValidateWithSchema(d, w, initial) = IF initial # NoSchema /\ StructuralErrors(d, w) = {}
                                          THEN DataFlowErrors(w, initial) ELSE StructuralErrors(d, w)
  BY DEF ValidateWithSchema, StructuralErrors
<1>3. ASSUME WellFormed(w) PROVE DataFlowErrors(w, initial) = {} <=> Supplied(w, initial)
  <2> DEFINE F(n) == {<<"reads", n.id, f>> : f \in Unsupplied(w, n, initial)}
  <2>1. DataFlowErrors(w, initial) = UNION {F(n) : n \in NodesOf(w)}
    BY <1>3, ReadsReported
  <2>2. \A n : F(n) = {} <=> Unsupplied(w, n, initial) = {}
    OBVIOUS
  <2> HIDE DEF F
  <2> QED BY <2>1, <2>2 DEF Supplied
<1> QED BY <1>1, <1>2, <1>3

-----------------------------------------------------------------------------
(* A node as the preview writes it, and as the SDK reads it.              *)
Written(n) ==
  [n EXCEPT !.next     = IF HasBranches(n) THEN NoNode ELSE @,
            !.branches = IF HasBranches(n) THEN @ ELSE <<>>]
Read(n) == parseNode(Written(n))

LEMMA WrittenIs ==
  ASSUME NEW n, NodeFields \subseteq DOMAIN n
  PROVE  /\ Written(n).id = n.id /\ Written(n).type = n.type /\ NodeFields \subseteq DOMAIN Written(n)
         /\ Written(n).reads = n.reads /\ Written(n).produces = n.produces
         /\ Written(n).next = IF HasBranches(n) THEN NoNode ELSE n.next
         /\ Written(n).branches = IF HasBranches(n) THEN n.branches ELSE <<>>
BY DEF Written, NodeFields

LEMMA ParsedNodeIs ==
  ASSUME NEW n, NodeFields \subseteq DOMAIN n
  PROVE  /\ parseNode(n).id = scalarString(n.id) /\ parseNode(n).type = n.type
         /\ parseNode(n).next = optionalString(n.next)
         /\ parseNode(n).branches = [i \in 1..Len(n.branches) |-> parseBranch(n.branches[i])]
         /\ parseNode(n).reads = {scalarString(f) : f \in n.reads}
         /\ parseNode(n).produces = {scalarString(f) : f \in n.produces}
BY DEF parseNode, NodeFields

LEMMA ReadIs ==
  ASSUME NEW n, NodeFields \subseteq DOMAIN n
  PROVE  /\ Read(n).id = scalarString(n.id) /\ Read(n).type = n.type
         /\ Read(n).next = IF HasBranches(n) THEN optionalString(NoNode) ELSE optionalString(n.next)
         /\ HasBranches(n) => Read(n).branches = [i \in 1..Len(n.branches) |-> parseBranch(n.branches[i])]
         /\ ~ HasBranches(n) => Read(n).branches = <<>>
         /\ Read(n).reads = {scalarString(f) : f \in n.reads}
         /\ Read(n).produces = {scalarString(f) : f \in n.produces}
PROOF
<1> DEFINE m == Written(n)
<1>1. /\ m.id = n.id /\ m.type = n.type /\ NodeFields \subseteq DOMAIN m
      /\ m.reads = n.reads /\ m.produces = n.produces
      /\ m.next = IF HasBranches(n) THEN NoNode ELSE n.next
      /\ m.branches = IF HasBranches(n) THEN n.branches ELSE <<>>
  BY WrittenIs
<1> HIDE DEF m
<1>2. /\ parseNode(m).id = scalarString(m.id) /\ parseNode(m).type = m.type
      /\ parseNode(m).next = optionalString(m.next)
      /\ parseNode(m).branches = [i \in 1..Len(m.branches) |-> parseBranch(m.branches[i])]
      /\ parseNode(m).reads = {scalarString(f) : f \in m.reads}
      /\ parseNode(m).produces = {scalarString(f) : f \in m.produces}
  BY <1>1, ParsedNodeIs
<1>3. ~ HasBranches(n) => parseNode(m).branches = <<>>
  <2> SUFFICES ASSUME ~ HasBranches(n) PROVE parseNode(m).branches = <<>>
    OBVIOUS
  <2>1. m.branches = <<>> /\ Len(m.branches) = 0
    BY <1>1
  <2> QED BY <1>2, <2>1
<1>4. Read(n) = parseNode(m)
  BY DEF Read, m
<1> QED BY <1>1, <1>2, <1>3, <1>4

(* And the one the SDK reads in the preview.                               *)
Shaped(w) == w.nodes # <<>> /\ \A m \in NodesOf(w) : m.type \in NodeTypes

LEMMA ReadBack ==
  ASSUME NEW w, IsParsed(w), HasFields(w)
  PROVE  LET B == parse(toYAML(w)) IN
         /\ IsParsed(B) /\ B.start = scalarString(w.start) /\ Positions(B) = Positions(w)
         /\ Len(B.nodes) = Len(w.nodes)
         /\ \A k \in Positions(w) : B.nodes[k] = Read(w.nodes[k])
         /\ Parses(toYAML(w)) <=> Shaped(w) /\ BranchesReadable(w)
PROOF
<1> DEFINE Y == toYAML(w)
           B == parse(Y)
           n == Len(w.nodes)
           P == Positions(w)
<1>1. n \in Nat /\ P = 1..n /\ (\A k \in P : w.nodes[k] \in NodesOf(w))
      /\ NodesOf(w) = {w.nodes[k] : k \in P}
  BY LenProperties DEF IsParsed, IsList, Positions, NodesOf
<1>2. \A m \in NodesOf(w) : NodeFields \subseteq DOMAIN m /\ IsList(m.branches)
  BY DEF HasFields, NodeFields, IsParsed
<1>3. Y = [w EXCEPT !.nodes = [k \in P |-> Written(w.nodes[k])]]
  BY DEF toYAML, Written
<1>4. Y.start = w.start /\ Y.nodes = [k \in P |-> Written(w.nodes[k])] /\ {"start", "nodes"} \subseteq DOMAIN Y
  BY <1>3 DEF HasFields
<1>5. B = [Y EXCEPT !.start = scalarString(@), !.nodes = [k \in Positions(Y) |-> parseNode(Y.nodes[k])]]
  BY DEF parse
<1> HIDE DEF Y
<1>6. B.start = scalarString(Y.start) /\ B.nodes = [k \in Positions(Y) |-> parseNode(Y.nodes[k])]
  BY <1>4, <1>5
<1> HIDE DEF B, n, P
<1>7. IsList(Y.nodes) /\ Len(Y.nodes) = n /\ Positions(Y) = P
  <2>1. Y.nodes = [k \in 1..n |-> Y.nodes[k]]
    BY <1>1, <1>4
  <2>2. IsList(Y.nodes) /\ Len(Y.nodes) = n
    BY <1>1, <2>1, ListOfAny
  <2> QED BY <1>1, <2>2 DEF Positions
<1>8. \A k \in P : B.nodes[k] = Read(w.nodes[k])
  BY <1>4, <1>6, <1>7 DEF Read
<1>9. IsList(B.nodes) /\ Len(B.nodes) = n /\ Positions(B) = P
  <2>1. B.nodes = [k \in 1..n |-> B.nodes[k]]
    BY <1>1, <1>6, <1>7
  <2>2. IsList(B.nodes) /\ Len(B.nodes) = n
    BY <1>1, <2>1, ListOfAny
  <2> QED BY <1>1, <2>2 DEF Positions
<1>10. NodesOf(B) = {Read(m) : m \in NodesOf(w)} /\ NodesOf(Y) = {Written(m) : m \in NodesOf(w)}
  <2>1. NodesOf(B) = {B.nodes[k] : k \in P} /\ NodesOf(Y) = {Y.nodes[k] : k \in P}
    BY <1>1, <1>7, <1>9 DEF NodesOf
  <2>2. \A k \in P : Y.nodes[k] = Written(w.nodes[k])
    BY <1>4
  <2>3. NodesOf(B) = {Read(m) : m \in NodesOf(w)}
    BY <1>1, <1>8, <2>1
  <2>4. NodesOf(Y) = {Written(m) : m \in NodesOf(w)}
    BY <1>1, <2>1, <2>2
  <2> QED BY <2>3, <2>4
<1>11. ASSUME NEW m \in NodesOf(w) PROVE IsList(Read(m).branches)
  <2>1. CASE HasBranches(m)
    <3> DEFINE b == Read(m).branches
    <3>1. Len(m.branches) \in Nat /\ b = [i \in 1..Len(m.branches) |-> parseBranch(m.branches[i])]
      BY <1>2, <2>1, ReadIs, ParsedNodes
    <3>2. b = [i \in 1..Len(m.branches) |-> b[i]]
      BY <3>1
    <3> HIDE DEF b
    <3>3. IsList(b)
      BY <3>1, <3>2, ListOfAny
    <3> QED BY <3>3 DEF b
  <2>2. CASE ~ HasBranches(m)
    <3>1. Read(m).branches = <<>>
      BY <1>2, <2>2, ReadIs
    <3> QED BY <3>1 DEF IsList
  <2> QED BY <2>1, <2>2
<1>12. IsParsed(B)
  BY <1>9, <1>10, <1>11 DEF IsParsed
<1>13. Parses(Y) <=> Shaped(w) /\ BranchesReadable(w)
  <2>1. \A m \in NodesOf(w) : Written(m).type = m.type
    BY <1>2, WrittenIs
  <2>2. Y.nodes = <<>> <=> w.nodes = <<>>
    <3>1. Y.nodes = <<>> <=> n = 0
      BY <1>7 DEF IsList
    <3>2. w.nodes = <<>> <=> n = 0
      BY DEF n, IsParsed, IsList
    <3> QED BY <3>1, <3>2
  <2>3. \A m \in NodesOf(w) :
          /\ HasBranches(m) => HasBranches(Written(m)) /\ Written(m).branches = m.branches
          /\ ~ HasBranches(m) => ~ HasBranches(Written(m))
    BY <1>2, <2>1, WrittenIs DEF HasBranches
  <2>4. BranchesReadable(Y) <=> BranchesReadable(w)
    BY <1>10, <2>3 DEF BranchesReadable
  <2> QED BY <1>10, <2>1, <2>2, <2>4 DEF Parses, Shaped
<1> QED BY <1>4, <1>6, <1>8, <1>9, <1>12, <1>13 DEF Y, B, n, P

(* A workflow whose filters have branches is the same workflow either way, *)
(* but for the ids.                                                        *)
Complete(w) == \A n \in NodesOf(w) : n.type \in NodeTypes /\ (n.type = "filter" => n.branches # <<>>)
Respelling(w) == [x \in Mentioned(w) |-> scalarString(x)]

LEMMA KeptSuccessors ==
  ASSUME NEW w, IsParsed(w), HasFields(w), NEW n \in NodesOf(w)
  PROVE  Successors(Exported(n)) = Successors(n)
PROOF
<1>1. /\ Exported(n).type = n.type
      /\ Exported(n).next = IF n.type # "filter" THEN n.next ELSE NoNode
      /\ Exported(n).branches = IF n.type = "filter" THEN n.branches ELSE <<>>
  <2>1. NodeFields \subseteq DOMAIN n
    BY DEF HasFields, NodeFields
  <2> QED BY <2>1, KeptIs
<1> QED BY <1>1 DEF Successors

LEMMA ReadSuccessors ==
  ASSUME NEW w, IsParsed(w), HasFields(w), Complete(w), KeptApart(w), NEW n \in NodesOf(w),
         NoNode \in NullWords, \A x \in Mentioned(w) : scalarString(x) # NoNode
  PROVE  /\ Len(Successors(Read(n))) = Len(Successors(n))
         /\ \A i \in 1..Len(Successors(n)) : Successors(Read(n))[i] = Respelling(w)[Successors(n)[i]]
         /\ WellShaped(Read(n)) /\ (WellShaped(Exported(n)) <=> \A i \in 1..Len(Successors(n)) : Successors(n)[i] # NoNode)
PROOF
<1>1. /\ NodeFields \subseteq DOMAIN n /\ n.type \in NodeTypes /\ Len(n.branches) \in Nat
      /\ \A i \in 1..Len(n.branches) : "next" \in DOMAIN n.branches[i]
  BY ParsedNodes DEF HasFields, NodeFields, Complete
<1>2. /\ Read(n).type = n.type
      /\ Read(n).next = IF HasBranches(n) THEN optionalString(NoNode) ELSE optionalString(n.next)
      /\ HasBranches(n) => Read(n).branches = [i \in 1..Len(n.branches) |-> parseBranch(n.branches[i])]
      /\ ~ HasBranches(n) => Read(n).branches = <<>>
  BY <1>1, ReadIs
<1>3. /\ Exported(n).type = n.type
      /\ Exported(n).next = IF n.type # "filter" THEN n.next ELSE NoNode
      /\ Exported(n).branches = IF n.type = "filter" THEN n.branches ELSE <<>>
  BY <1>1, KeptIs
<1>4. \A i \in 1..Len(Successors(n)) : Successors(n)[i] \in Mentioned(w)
  BY SuccessorsListed
<1>5. \A i \in 1..Len(n.branches) : parseBranch(n.branches[i]).next = scalarString(n.branches[i].next)
  BY <1>1 DEF parseBranch
<1>6. optionalString(NoNode) = NoNode
  BY DEF optionalString
<1>7. CASE n.type = "filter"
  <2>1. n.branches # <<>> /\ HasBranches(n)
    BY <1>7 DEF Complete, HasBranches
  <2> DEFINE b == Read(n).branches
  <2>2. b = [i \in 1..Len(n.branches) |-> parseBranch(n.branches[i])] /\ Read(n).next = NoNode
    BY <1>2, <1>6, <2>1
  <2>3. Len(b) = Len(n.branches)
    BY <1>1, <2>2
  <2> HIDE DEF b
  <2>4. Successors(Read(n)) = [i \in 1..Len(b) |-> b[i].next]
    BY <1>2, <1>7 DEF Successors, b
  <2>5. Successors(n) = [i \in 1..Len(n.branches) |-> n.branches[i].next]
    BY <1>7 DEF Successors
  <2>6. Len(Successors(n)) = Len(n.branches) /\ Len(Successors(Read(n))) = Len(n.branches)
    BY <1>1, <2>3, <2>4, <2>5
  <2>7. ASSUME NEW i \in 1..Len(n.branches)
        PROVE  Successors(Read(n))[i] = Respelling(w)[Successors(n)[i]]
    <3>1. Successors(n)[i] = n.branches[i].next /\ Successors(n)[i] \in Mentioned(w)
      BY <1>4, <2>5, <2>6
    <3>2. Successors(Read(n))[i] = scalarString(n.branches[i].next)
      BY <1>5, <2>2, <2>3, <2>4
    <3> QED BY <3>1, <3>2 DEF Respelling
  <2>8. b # <<>>
    <3>1. Len(n.branches) # 0
      BY <2>1, <2>6 DEF IsParsed, IsList
    <3> QED BY <2>3, <3>1
  <2>9. Successors(Read(n)) # <<>> /\ \A i \in 1..Len(b) : b[i].next # NoNode
    <3>1. \A i \in 1..Len(b) : b[i].next = scalarString(n.branches[i].next)
      BY <1>5, <2>2, <2>3
    <3>2. \A i \in 1..Len(b) : n.branches[i].next \in Mentioned(w)
      BY <1>4, <2>3, <2>5, <2>6
    <3>3. Len(b) # 0 /\ Len(b) \in Nat
      BY <1>1, <2>1, <2>3 DEF IsParsed, IsList
    <3> QED BY <2>3, <2>4, <2>6, <3>1, <3>2, <3>3
  <2>10. WellShaped(Read(n))
    BY <1>2, <1>7, <2>2, <2>8, <2>9 DEF WellShaped, b
  <2>11. WellShaped(Exported(n)) <=> \A i \in 1..Len(Successors(n)) : Successors(n)[i] # NoNode
    BY <1>3, <1>7, <2>1, <2>5, <2>6 DEF WellShaped, LinearTypes
  <2> QED BY <2>6, <2>7, <2>10, <2>11
<1>8. CASE n.type # "filter"
  <2>1. n.type \in LinearTypes /\ ~ HasBranches(n)
    BY <1>1, <1>8 DEF NodeTypes, HasBranches
  <2>2. WellShaped(Read(n)) /\ WellShaped(Exported(n))
    BY <1>2, <1>3, <1>8, <2>1 DEF WellShaped
  <2>3. CASE n.next = NoNode
    <3>1. Read(n).next = NoNode
      BY <1>2, <1>6, <2>1, <2>3
    <3>2. Successors(Read(n)) = <<>> /\ Successors(n) = <<>>
      BY <1>2, <1>8, <2>3, <3>1 DEF Successors
    <3> QED BY <2>2, <3>2
  <2>4. CASE n.next # NoNode
    <3>1. Successors(n) = <<n.next>>
      BY <1>8, <2>4 DEF Successors
    <3>2. n.next \in Mentioned(w) /\ Len(Successors(n)) = 1
      BY <1>4, <3>1
    <3>3. optionalString(n.next) = scalarString(n.next)
      BY <2>4 DEF KeptApart, optionalString, scalarString
    <3>4. Read(n).next = scalarString(n.next) /\ Read(n).next # NoNode
      BY <1>2, <2>1, <3>2, <3>3
    <3>5. Successors(Read(n)) = <<scalarString(n.next)>>
      BY <1>2, <1>8, <3>4 DEF Successors
    <3>6. Respelling(w)[n.next] = scalarString(n.next)
      BY <3>2 DEF Respelling
    <3> QED BY <2>2, <2>4, <3>1, <3>5, <3>6
  <2> QED BY <2>3, <2>4
<1> QED BY <1>7, <1>8

LEMMA ReadFields ==
  ASSUME NEW w, HasFields(w), KeptApart(w), NEW n \in NodesOf(w)
  PROVE  Read(n).reads = n.reads /\ Read(n).produces = n.produces
PROOF
<1>1. NodeFields \subseteq DOMAIN n
  BY DEF HasFields, NodeFields
<1>2. \A f \in n.reads \cup n.produces : scalarString(f) = f
  BY DEF KeptApart, Fields
<1>3. {scalarString(f) : f \in n.reads} = n.reads /\ {scalarString(f) : f \in n.produces} = n.produces
  BY <1>2
<1> QED BY <1>1, <1>3, ReadIs

LEMMA PreviewRenames ==
  ASSUME NEW w, IsParsed(w), HasFields(w), Complete(w), KeptApart(w),
         NoNode \in NullWords, \A x \in Mentioned(w) : scalarString(x) # NoNode
  PROVE  Renames(toWorkflowDef(w), parse(toYAML(w)), Respelling(w))
PROOF
<1> DEFINE A == toWorkflowDef(w)
           B == parse(toYAML(w))
           r == Respelling(w)
<1>1. /\ A.start = w.start /\ Len(A.nodes) = Len(w.nodes) /\ Positions(A) = Positions(w)
      /\ \A k \in Positions(w) : A.nodes[k] = Exported(w.nodes[k])
      /\ Mentioned(A) = Mentioned(w)
  BY HandedOver
<1>2. /\ B.start = scalarString(w.start) /\ Len(B.nodes) = Len(w.nodes)
      /\ \A k \in Positions(w) : B.nodes[k] = Read(w.nodes[k])
  BY ReadBack
<1> HIDE DEF A, B
<1>3. w.start \in Mentioned(w) /\ \A x \in Mentioned(w) : r[x] = scalarString(x)
  BY DEF Mentioned, Respelling
<1>4. ASSUME NEW k \in Positions(w)
      PROVE  /\ B.nodes[k].id = r[A.nodes[k].id]
             /\ B.nodes[k].reads = A.nodes[k].reads /\ B.nodes[k].produces = A.nodes[k].produces
             /\ Len(Successors(B.nodes[k])) = Len(Successors(A.nodes[k]))
             /\ \A i \in 1..Len(Successors(A.nodes[k])) :
                  Successors(B.nodes[k])[i] = r[Successors(A.nodes[k])[i]]
  <2> DEFINE n == w.nodes[k]
  <2>1. n \in NodesOf(w)
    BY DEF NodesOf, Positions
  <2>2. NodeFields \subseteq DOMAIN n /\ n.id \in Mentioned(w)
    BY <2>1 DEF HasFields, NodeFields, Mentioned, NodeIDs
  <2>3. A.nodes[k] = Exported(n) /\ B.nodes[k] = Read(n)
    BY <1>1, <1>2
  <2> HIDE DEF n
  <2>4. Exported(n).id = n.id /\ Exported(n).reads = n.reads /\ Exported(n).produces = n.produces
    BY <2>2, KeptIs
  <2>5. Read(n).id = scalarString(n.id)
    BY <2>2, ReadIs
  <2>6. Read(n).reads = n.reads /\ Read(n).produces = n.produces
    BY <2>1, ReadFields
  <2>7. Successors(Exported(n)) = Successors(n)
    BY <2>1, KeptSuccessors
  <2>8. /\ Len(Successors(Read(n))) = Len(Successors(n))
        /\ \A i \in 1..Len(Successors(n)) : Successors(Read(n))[i] = r[Successors(n)[i]]
    BY <2>1, ReadSuccessors
  <2> QED BY <1>3, <2>2, <2>3, <2>4, <2>5, <2>6, <2>7, <2>8
<1>5. \A x, y \in Mentioned(A) : r[x] = r[y] => x = y
  BY <1>1, <1>3 DEF KeptApart
<1> HIDE DEF r
<1> QED BY <1>1, <1>2, <1>3, <1>4, <1>5 DEF Renames, A, B, r

LEMMA PreviewSame ==
  ASSUME NEW w, IsParsed(w), HasFields(w), KeptApart(w), NEW initial,
         NoNode \in NullWords, \A x \in Mentioned(w) : scalarString(x) # NoNode
  PROVE  AcceptedAsText(w, initial) <=> AcceptedByButton(w, initial) /\ BranchesReadable(w)
PROOF
<1> DEFINE A == toWorkflowDef(w)
           B == parse(toYAML(w))
           r == Respelling(w)
           P == Positions(w)
<1>1. /\ IsParsed(A) /\ Positions(A) = P /\ NodeIDs(A) = NodeIDs(w) /\ Edges(A) = Edges(w)
      /\ Mentioned(A) = Mentioned(w) /\ A.start = w.start
      /\ \A k \in P : A.nodes[k] = Exported(w.nodes[k])
  BY HandedOver
<1>2. /\ IsParsed(B) /\ Positions(B) = P /\ \A k \in P : B.nodes[k] = Read(w.nodes[k])
      /\ Parses(toYAML(w)) <=> Shaped(w) /\ BranchesReadable(w)
  BY ReadBack
<1>3. /\ AcceptedByButton(w, initial) <=> WellFormed(A) /\ (initial = NoSchema \/ Supplied(A, initial))
      /\ AcceptedAsText(w, initial) <=>
           Shaped(w) /\ BranchesReadable(w) /\ WellFormed(B) /\ (initial = NoSchema \/ Supplied(B, initial))
  <2>1. "ts" \in Dialects
    BY DEF Dialects
  <2> QED BY <1>1, <1>2, <2>1, AcceptedIs DEF AcceptedByButton, AcceptedAsText
<1>4. /\ NodesOf(A) = {A.nodes[k] : k \in P} /\ NodesOf(B) = {B.nodes[k] : k \in P}
      /\ NodesOf(w) = {w.nodes[k] : k \in P}
  BY <1>1, <1>2 DEF NodesOf, Positions
<1> HIDE DEF A, B, P
<1>5. NodesOf(A) = {Exported(n) : n \in NodesOf(w)} /\ NodesOf(B) = {Read(n) : n \in NodesOf(w)}
  BY <1>1, <1>2, <1>4
<1>6. ASSUME NEW n \in NodesOf(w)
      PROVE  /\ NodeFields \subseteq DOMAIN n /\ Exported(n).type = n.type /\ Read(n).type = n.type
             /\ n.type = "filter" => Exported(n).branches = n.branches
             /\ ~ HasBranches(n) => Read(n).branches = <<>>
  <2>1. NodeFields \subseteq DOMAIN n
    BY DEF HasFields, NodeFields
  <2> QED BY <2>1, KeptIs, ReadIs
<1>7. ASSUME WellFormed(A) PROVE Complete(w)
  <2>1. \A n \in NodesOf(w) : WellShaped(Exported(n))
    BY <1>5, <1>7 DEF WellFormed
  <2> QED BY <1>6, <2>1 DEF Complete, WellShaped, LinearTypes, NodeTypes
<1>8. ASSUME WellFormed(B), Shaped(w) PROVE Complete(w)
  <2>1. \A n \in NodesOf(w) : WellShaped(Read(n)) /\ n.type \in NodeTypes
    BY <1>5, <1>8 DEF WellFormed, Shaped
  <2>2. ASSUME NEW n \in NodesOf(w), n.type = "filter" PROVE n.branches # <<>>
    BY <1>6, <2>1, <2>2 DEF WellShaped, LinearTypes, HasBranches
  <2> QED BY <2>1, <2>2 DEF Complete
<1>9. ASSUME Complete(w)
      PROVE  /\ WellFormed(A) <=> Shaped(w) /\ WellFormed(B)
             /\ WellFormed(A) => (Supplied(A, initial) <=> Supplied(B, initial))
  <2>1. Renames(A, B, r)
    BY <1>9, PreviewRenames DEF A, B
  <2>2. \A n \in NodesOf(w) :
          WellShaped(Read(n)) /\ (WellShaped(Exported(n)) <=> \A i \in 1..Len(Successors(n)) : Successors(n)[i] # NoNode)
    BY <1>9, ReadSuccessors
  <2> HIDE DEF r
  <2>3. Unique(B) <=> Unique(A)
    BY <2>1, RenamedUnique
  <2>4. /\ Defined(B, B.start) <=> Defined(A, A.start)
        /\ (\A e \in Edges(B) : Defined(B, e[3])) <=> \A e \in Edges(A) : Defined(A, e[3])
        /\ IsTree(B) <=> IsTree(A)
    BY <2>1, RenamedDefined
  <2>5. (\A e \in Edges(A) : Defined(A, e[3])) => (Ranked(B) <=> Ranked(A))
    BY <2>1, RenamedRanked
  <2>6. ASSUME \A e \in Edges(A) : Defined(A, e[3]) PROVE \A n \in NodesOf(A) : WellShaped(n)
    <3>1. ASSUME NEW n \in NodesOf(w), NEW i \in 1..Len(Successors(n)) PROVE Successors(n)[i] # NoNode
      <4>0. <<n.id, i, Successors(n)[i]>> \in Edges(w)
        BY <3>1 DEF Edges
      <4>1. <<n.id, i, Successors(n)[i]>> \in Edges(A)
        BY <1>1, <4>0
      <4>2. Successors(n)[i] \in NodeIDs(w)
        BY <1>1, <2>6, <4>1 DEF Defined
      <4> QED BY <4>2 DEF KeptApart
    <3> QED BY <1>5, <2>2, <3>1
  <2>7. \A n \in NodesOf(B) : WellShaped(n)
    BY <1>5, <2>2
  <2>8. Defined(A, A.start) => Shaped(w)
    <3>1. Defined(A, A.start) => w.nodes # <<>>
      <4>1. ASSUME w.nodes = <<>> PROVE NodesOf(w) = {}
        <5>1. Len(w.nodes) = 0
          BY <4>1
        <5>2. \A k \in 1..Len(w.nodes) : FALSE
          BY <5>1
        <5> QED BY <5>2 DEF NodesOf
      <4>2. NodesOf(w) = {} => NodeIDs(A) = {}
        BY <1>1 DEF NodeIDs
      <4> QED BY <4>1, <4>2 DEF Defined
    <3> QED BY <1>9, <3>1 DEF Complete, Shaped
  <2>9. WellFormed(A) <=> Shaped(w) /\ WellFormed(B)
    BY <2>3, <2>4, <2>5, <2>6, <2>7, <2>8 DEF WellFormed, Unique
  <2>10. ASSUME WellFormed(A) PROVE Supplied(A, initial) <=> Supplied(B, initial)
    <3>1. Unique(A) /\ Unique(B)
      BY <2>3, <2>10 DEF WellFormed, Unique
    <3> QED BY <1>1, <1>2, <2>1, <3>1, RenamedSupply
  <2> QED BY <2>9, <2>10
<1> QED BY <1>3, <1>7, <1>8, <1>9

(* The preview can be trusted where it can be read.                        *)
THEOREM PreviewTrusted == Spec => []PreviewIsValidated
PROOF
<1>1. Judged /\ KeptApart(wf) =>
        (AcceptedAsText(wf, fields) <=> AcceptedByButton(wf, fields) /\ BranchesReadable(wf))
  BY JudgedParsed, TextAssumption, PreviewSame DEF Judged
<1>2. Judged => PreviewIsValidated
  BY <1>1 DEF PreviewIsValidated
<1> QED BY <1>2, JudgedInductive, PTL

-----------------------------------------------------------------------------
(* The memory of computeWidth.                                             *)
LEMMA WidthSet ==
  ASSUME NEW A, NEW r \in [widths : [A -> Nat], seen : SUBSET A], NEW id \in A, NEW v \in Nat,
         NEW t, t = [r EXCEPT !.widths[id] = v]
  PROVE  /\ t \in [widths : [A -> Nat], seen : SUBSET A]
         /\ t.widths = [r.widths EXCEPT ![id] = v] /\ t.seen = r.seen
OBVIOUS

LEMMA SeenIs ==
  ASSUME NEW w, NEW m \in Memories(w), NEW id \in Mentioned(w)
  PROVE  Seen(m, id) \in Memories(w) /\ Seen(m, id).widths = m.widths /\ Seen(m, id).seen = m.seen \cup {id}
PROOF
<1> DEFINE A == Mentioned(w)
<1>1. Memories(w) = [widths : [A -> Nat], seen : SUBSET A] /\ id \in A
  BY DEF Memories
<1> HIDE DEF A
<1> QED BY <1>1 DEF Seen

LEMMA MemoryTyped ==
  ASSUME NEW w, NEW m \in Memories(w)
  PROVE  /\ m.widths \in [Mentioned(w) -> Nat] /\ m.seen \subseteq Mentioned(w)
         /\ \A x \in Mentioned(w) : m.widths[x] \in Nat /\ WidthOf(m.widths, x) \in Nat /\ WidthOf(m.widths, x) >= 1
PROOF
<1>1. m.widths \in [Mentioned(w) -> Nat] /\ m.seen \subseteq Mentioned(w)
  BY DEF Memories
<1>2. ASSUME NEW x \in Mentioned(w)
      PROVE  m.widths[x] \in Nat /\ WidthOf(m.widths, x) \in Nat /\ WidthOf(m.widths, x) >= 1
  <2>1. m.widths[x] \in Nat
    BY <1>1
  <2> QED BY <2>1 DEF WidthOf
<1> QED BY <1>1, <1>2

(* The sum over the successors, step by step, in definitions whose edges   *)
(* all lead somewhere.                                                     *)
Aimed(w) == \A e \in Edges(w) : e[3] # NoNode
Sums(w)  == [m : Memories(w), total : Nat]
Added(compute, to, s) ==
  [m |-> compute[to][s.m], total |-> s.total + WidthOf(compute[to][s.m].widths, to)]
Wide(m, id, total) == [m EXCEPT !.widths[id] = IF total > 1 THEN total ELSE 1]

LEMMA AimedSuccessors ==
  ASSUME NEW w, IsParsed(w), Aimed(w), NEW n \in NodesOf(w), NEW i \in 1..Len(Successors(n))
  PROVE  Successors(n)[i] # NoNode
PROOF
<1>1. <<n.id, i, Successors(n)[i]>> \in Edges(w)
  BY DEF Edges
<1>2. <<n.id, i, Successors(n)[i]>>[3] = Successors(n)[i]
  OBVIOUS
<1> QED BY <1>1, <1>2 DEF Aimed

LEMMA AddedIs ==
  ASSUME NEW compute, NEW to, NEW s
  PROVE  /\ Added(compute, to, s).m = compute[to][s.m]
         /\ Added(compute, to, s).total = s.total + WidthOf(compute[to][s.m].widths, to)
BY DEF Added

LEMMA AddedTyped ==
  ASSUME NEW w, NEW compute \in [Mentioned(w) -> [Memories(w) -> Memories(w)]], NEW to \in Mentioned(w),
         NEW s \in Sums(w)
  PROVE  Added(compute, to, s) \in Sums(w)
PROOF
<1>1. s.m \in Memories(w) /\ s.total \in Nat
  BY DEF Sums
<1>2. compute[to][s.m] \in Memories(w)
  BY <1>1
<1>3. WidthOf(compute[to][s.m].widths, to) \in Nat
  BY <1>2, MemoryTyped
<1> QED BY <1>1, <1>2, <1>3 DEF Added, Sums

LEMMA MeasuredSteps ==
  ASSUME NEW w, IsParsed(w), Aimed(w), NEW compute \in [Mentioned(w) -> [Memories(w) -> Memories(w)]],
         NEW id \in NodeIDs(w), NEW m \in Memories(w)
  PROVE  \E sum \in [0..Len(SuccsOf(w, id)) -> Sums(w)] :
           /\ sum[0] = [m |-> Seen(m, id), total |-> 0]
           /\ \A i \in 1..Len(SuccsOf(w, id)) : sum[i] = Added(compute, SuccsOf(w, id)[i], sum[i - 1])
           /\ Measured(w, compute, id, m) =
                Wide(sum[Len(SuccsOf(w, id))].m, id, sum[Len(SuccsOf(w, id))].total)
PROOF
<1> DEFINE succ == Successors(NodeMap(w)[id])
           n == Len(succ)
           S == Sums(w)
           a == [m |-> Seen(m, id), total |-> 0]
           g == [i \in 1..n |-> [x \in S |-> Added(compute, succ[i], x)]]
           Is(f) == f = [i \in 0..n |->
             IF i = 0 THEN [m |-> Seen(m, id), total |-> 0]
             ELSE IF succ[i] = NoNode THEN f[i - 1]
             ELSE LET next == compute[succ[i]][f[i - 1].m]
                  IN [m |-> next, total |-> f[i - 1].total + WidthOf(next.widths, succ[i])]]
<1>1. n \in Nat /\ n = Len(SuccsOf(w, id)) /\ \A i \in 1..n : succ[i] \in Mentioned(w)
  BY SuccessorsOf DEF SuccsOf
<1>2. id \in Mentioned(w) /\ NodeMap(w)[id] \in NodesOf(w)
  BY ParsedNodes DEF Mentioned
<1>3. a \in S
  BY <1>2, SeenIs DEF Sums
<1>4. ASSUME NEW i \in 1..n, NEW x \in S PROVE Added(compute, succ[i], x) \in S
  BY <1>1, AddedTyped
<1>5. g \in [1..n -> [S -> S]]
  BY <1>4
<1>6. \A i \in 1..n : succ[i] # NoNode
  BY <1>2, AimedSuccessors
<1> HIDE DEF succ, n
<1>7. PICK f : Steps(f, S, g, a, n)
  <2> HIDE DEF S, g, a
  <2> QED BY <1>1, <1>3, <1>5, Iterated
<1>8. Is(f)
  <2>1. ASSUME NEW i \in 0..n, i # 0 PROVE succ[i] # NoNode /\ f[i] = Added(compute, succ[i], f[i - 1])
    <3>1. i \in 1..n /\ i - 1 \in 0..n
      BY <1>1, <2>1
    <3>2. f[i - 1] \in S /\ f[i] = g[i][f[i - 1]]
      <4> HIDE DEF S, g, a
      <4> QED BY <1>7, <2>1, <3>1 DEF Steps
    <3> QED BY <1>6, <3>1, <3>2
  <2>2. f \in [0..n -> S] /\ (0 \in 0..n => f[0] = a)
    <3> HIDE DEF S, g, a
    <3> QED BY <1>7 DEF Steps
  <2> HIDE DEF S, g
  <2> QED BY <2>1, <2>2 DEF Added
<1> DEFINE sum == CHOOSE h : Is(h)
<1>9. Is(sum)
  <2> HIDE DEF Is
  <2> QED BY <1>8
<1>10. Measured(w, compute, id, m) = Wide(sum[n].m, id, sum[n].total)
  BY DEF Measured, Wide, n, succ
<1> HIDE DEF sum
<1>11. sum[0] = a /\ \A i \in 1..n : sum[i] = Added(compute, succ[i], sum[i - 1])
  <2>1. sum[0] = a
    BY <1>1, <1>9
  <2>2. ASSUME NEW i \in 1..n PROVE sum[i] = Added(compute, succ[i], sum[i - 1])
    <3>1. i \in 0..n /\ i # 0 /\ succ[i] # NoNode
      BY <1>1, <1>6
    <3>2. sum[i] = LET next == compute[succ[i]][sum[i - 1].m]
                   IN [m |-> next, total |-> sum[i - 1].total + WidthOf(next.widths, succ[i])]
      BY <1>9, <3>1
    <3> HIDE DEF Is, S, a
    <3> QED BY <3>2 DEF Added
  <2> HIDE DEF Is, S, a
  <2> QED BY <2>1, <2>2
<1> DEFINE U == {i \in 0..n : sum[i] \in S}
<1>12. 0 \in U /\ \A i \in 1..n : i - 1 \in U => i \in U
  <2> HIDE DEF S, Is, a
  <2> QED BY <1>1, <1>3, <1>4, <1>11
<1>13. \A i \in 0..n : i \in U
  <2> HIDE DEF U
  <2> QED BY <1>1, <1>12, UpTo
<1>14. sum \in [0..n -> S]
  <2> HIDE DEF S
  <2> QED BY <1>9, <1>13
<1> HIDE DEF Is
<1> QED BY <1>1, <1>10, <1>11, <1>14 DEF SuccsOf, succ

(* What a memory holds: the width of an id is the sum of those below it,   *)
(* all of them known; ids seen without a width are those being measured.   *)
Adds(sum, w, widths, x) ==
  /\ sum[0] = 0
  /\ \A i \in 1..Len(SuccsOf(w, x)) : sum[i] = sum[i - 1] + WidthOf(widths, SuccsOf(w, x)[i])
  /\ widths[x] = IF sum[Len(SuccsOf(w, x))] > 1 THEN sum[Len(SuccsOf(w, x))] ELSE 1
Fits(w, widths, x) == \E sum \in [0..Len(SuccsOf(w, x)) -> Nat] : Adds(sum, w, widths, x)

Settled(w, widths) ==
  \A x \in Mentioned(w) : widths[x] # 0 =>
    /\ x \in NodeIDs(w) /\ Fits(w, widths, x)
    /\ \A c \in Children(w, x) \cap NodeIDs(w) : widths[c] # 0
Open(w, m) == {x \in m.seen \cap NodeIDs(w) : m.widths[x] = 0}

Keeps(w, m, t) ==
  /\ m.seen \subseteq t.seen
  /\ \A x \in Mentioned(w) : m.widths[x] # 0 => t.widths[x] = m.widths[x]

(* ToSearch computeWidth is called with an id that everything being measured *)
(* leads to, and after it.                                                 *)
ToMeasure(w, m, id, k) ==
  /\ Settled(w, m.widths)
  /\ \A x \in Open(w, m) : OnPath(w, x, id)
  /\ Cardinality(NodeIDs(w) \ m.seen) <= k
WasMeasured(w, m, id, t) ==
  /\ Settled(w, t.widths) /\ Open(w, t) = Open(w, m) /\ Keeps(w, m, t)
  /\ id \in NodeIDs(w) => t.widths[id] # 0

Measuring(w, compute, k) ==
  /\ compute \in [Mentioned(w) -> [Memories(w) -> Memories(w)]]
  /\ \A id \in Mentioned(w), m \in Memories(w) :
       ToMeasure(w, m, id, k) => WasMeasured(w, m, id, compute[id][m])

(* While an id is measured, when its first i successors are.               *)
Along(w, m, id, i, t) ==
  /\ Settled(w, t.widths) /\ Open(w, t) = Open(w, m) \cup {id} /\ Keeps(w, Seen(m, id), t)
  /\ \A j \in 1..i : SuccsOf(w, id)[j] \in NodeIDs(w) => t.widths[SuccsOf(w, id)[j]] # 0

LEMMA OneSeen ==
  ASSUME NEW w, IsParsed(w), NEW m \in Memories(w), NEW id \in NodeIDs(w), id \notin m.seen,
         NEW k \in Nat, Cardinality(NodeIDs(w) \ m.seen) <= k + 1, NEW t, m.seen \cup {id} \subseteq t.seen
  PROVE  Cardinality(NodeIDs(w) \ t.seen) <= k
PROOF
<1> DEFINE D == NodeIDs(w)
           A == D \ m.seen
           B == D \ t.seen
<1>1. IsFiniteSet(D)
  BY NodeIDsBounded DEF IsParsed, IsList
<1>2. IsFiniteSet(A) /\ B \subseteq A \ {id} /\ id \in A
  BY <1>1, FS_Subset
<1> HIDE DEF A, B, D
<1>3. IsFiniteSet(A \ {id}) /\ Cardinality(A \ {id}) = Cardinality(A) - 1
  BY <1>2, FS_RemoveElement
<1>4. Cardinality(B) <= Cardinality(A \ {id}) /\ IsFiniteSet(B)
  BY <1>2, <1>3, FS_Subset
<1>5. Cardinality(B) \in Nat /\ Cardinality(A) \in Nat
  BY <1>2, <1>4, FS_CardinalityType
<1>6. Cardinality(A) <= k + 1
  BY DEF A, D
<1>7. Cardinality(B) <= k
  BY <1>3, <1>4, <1>5, <1>6
<1> QED BY <1>7 DEF B, D

(* One more successor is measured.                                         *)
LEMMA AlongStep ==
  ASSUME NEW w, IsParsed(w), ~ HasCycle(w), NEW k \in Nat, NEW compute, Measuring(w, compute, k),
         NEW id \in NodeIDs(w), NEW m \in Memories(w), ToMeasure(w, m, id, k + 1), id \notin m.seen,
         NEW i \in 1..Len(SuccsOf(w, id)), NEW s \in Memories(w), Along(w, m, id, i - 1, s)
  PROVE  LET t == compute[SuccsOf(w, id)[i]][s] IN
         t \in Memories(w) /\ Along(w, m, id, i, t) /\ Keeps(w, s, t)
PROOF
<1> DEFINE to == SuccsOf(w, id)[i]
           t  == compute[to][s]
<1>1. /\ to \in Mentioned(w) /\ to \in Children(w, id) /\ Len(SuccsOf(w, id)) \in Nat
      /\ \A j \in 1..Len(SuccsOf(w, id)) : SuccsOf(w, id)[j] \in Mentioned(w)
      /\ id \in Mentioned(w)
  BY SuccessorsOf DEF Mentioned
<1>2. t \in Memories(w)
  BY <1>1 DEF Measuring
<1>3. Seen(m, id).seen = m.seen \cup {id}
  BY <1>1, SeenIs
<1>4. ToMeasure(w, s, to, k)
  <2>1. ASSUME NEW x \in Open(w, s) PROVE OnPath(w, x, to)
    <3>1. CASE x = id
      BY <1>1, <3>1, PathsFrom
    <3>2. CASE x # id
      <4>1. OnPath(w, x, id)
        BY <2>1, <3>2 DEF Along, ToMeasure
      <4> QED BY <1>1, <4>1, PathsFrom
    <3> QED BY <3>1, <3>2
  <2>2. m.seen \cup {id} \subseteq s.seen
    BY <1>3 DEF Along, Keeps
  <2>3. Cardinality(NodeIDs(w) \ s.seen) <= k
    BY <2>2, OneSeen DEF ToMeasure
  <2> QED BY <2>1, <2>3 DEF ToMeasure, Along
<1>5. WasMeasured(w, s, to, t)
  BY <1>1, <1>4 DEF Measuring
<1> HIDE DEF t
<1>6. ASSUME NEW j \in 1..i, SuccsOf(w, id)[j] \in NodeIDs(w) PROVE t.widths[SuccsOf(w, id)[j]] # 0
  <2>1. CASE j = i
    BY <1>5, <1>6, <2>1 DEF WasMeasured
  <2>2. CASE j # i
    <3>1. j \in 1..(i - 1) /\ j \in 1..Len(SuccsOf(w, id))
      BY <1>1, <2>2
    <3>2. s.widths[SuccsOf(w, id)[j]] # 0 /\ SuccsOf(w, id)[j] \in Mentioned(w)
      BY <1>1, <1>6, <3>1 DEF Along
    <3> QED BY <1>5, <3>2 DEF WasMeasured, Keeps
  <2> QED BY <2>1, <2>2
<1>7. Keeps(w, Seen(m, id), t)
  <2>1. Keeps(w, Seen(m, id), s) /\ Keeps(w, s, t)
    BY <1>5 DEF Along, WasMeasured
  <2> QED BY <2>1 DEF Keeps
<1>8. Along(w, m, id, i, t)
  BY <1>5, <1>6, <1>7 DEF Along, WasMeasured
<1> QED BY <1>2, <1>5, <1>8 DEF t, WasMeasured

(* Widths that are kept leave a sum as it is.                              *)
LEMMA SumKept ==
  ASSUME NEW w, IsParsed(w), NEW widths, NEW later, NEW x \in NodeIDs(w), Fits(w, widths, x),
         later[x] = widths[x],
         \A i \in 1..Len(SuccsOf(w, x)) : WidthOf(later, SuccsOf(w, x)[i]) = WidthOf(widths, SuccsOf(w, x)[i])
  PROVE  Fits(w, later, x)
PROOF
<1>1. PICK sum \in [0..Len(SuccsOf(w, x)) -> Nat] : Adds(sum, w, widths, x)
  BY DEF Fits
<1>2. Adds(sum, w, later, x)
  BY <1>1 DEF Adds
<1> QED BY <1>2 DEF Fits

(* No id leads back to itself.                                             *)
LEMMA NotItsChild ==
  ASSUME NEW w, IsParsed(w), ~ HasCycle(w), NEW id \in NodeIDs(w) PROVE id \notin Children(w, id)
BY PathsFrom DEF HasCycle

LEMMA MeasuredFits ==
  ASSUME NEW w, IsParsed(w), Aimed(w), ~ HasCycle(w), NEW k \in Nat, NEW compute, Measuring(w, compute, k),
         NEW id \in NodeIDs(w), NEW m \in Memories(w), ToMeasure(w, m, id, k + 1), id \notin m.seen,
         m.widths[id] = 0
  PROVE  WasMeasured(w, m, id, Measured(w, compute, id, m))
PROOF
<1> DEFINE n == Len(SuccsOf(w, id))
           succ(i) == SuccsOf(w, id)[i]
<1>1. /\ n \in Nat /\ id \in Mentioned(w)
      /\ \A i \in 1..n : succ(i) \in Mentioned(w) /\ succ(i) \in Children(w, id) /\ succ(i) # id
  BY SuccessorsOf, NotItsChild DEF Mentioned
<1>2. PICK sum \in [0..n -> Sums(w)] :
        /\ sum[0] = [m |-> Seen(m, id), total |-> 0]
        /\ \A i \in 1..n : sum[i] = Added(compute, succ(i), sum[i - 1])
        /\ Measured(w, compute, id, m) = Wide(sum[n].m, id, sum[n].total)
  BY MeasuredSteps DEF Measuring
<1> HIDE DEF n
<1>3. \A i \in 0..n : sum[i].m \in Memories(w) /\ sum[i].total \in Nat
  BY <1>2 DEF Sums
<1> DEFINE U == {i \in 0..n : Along(w, m, id, i, sum[i].m)}
<1>4. 0 \in U
  <2> DEFINE t == Seen(m, id)
  <2>1. /\ sum[0].m = t /\ t \in Memories(w) /\ t.widths = m.widths /\ t.seen = m.seen \cup {id}
    BY <1>1, <1>2, SeenIs
  <2> HIDE DEF t
  <2>2. Open(w, t) = Open(w, m) \cup {id}
    BY <2>1 DEF Open
  <2>3. Keeps(w, Seen(m, id), t)
    BY DEF Keeps, t
  <2>4. Along(w, m, id, 0, t)
    BY <2>1, <2>2, <2>3 DEF Along, ToMeasure
  <2> QED BY <1>1, <2>1, <2>4
<1>5. ASSUME NEW i \in 1..n, i - 1 \in U PROVE i \in U
  <2> DEFINE s == sum[i - 1].m
  <2>1. s \in Memories(w) /\ Along(w, m, id, i - 1, s)
    BY <1>1, <1>3, <1>5
  <2>2. sum[i].m = compute[succ(i)][s]
    BY <1>2, AddedIs
  <2> HIDE DEF s
  <2>3. Along(w, m, id, i, compute[succ(i)][s])
    BY <2>1, AlongStep DEF n
  <2> QED BY <1>1, <2>2, <2>3
<1>6. \A i \in 0..n : i \in U
  <2> HIDE DEF U
  <2> QED BY <1>1, <1>4, <1>5, UpTo
<1>7. \A i \in 0..n : Along(w, m, id, i, sum[i].m)
  BY <1>6
<1> HIDE DEF U
<1> DEFINE last == sum[n].m
           total == sum[n].total
           t == Measured(w, compute, id, m)
           v == IF total > 1 THEN total ELSE 1
<1>8. last \in Memories(w) /\ total \in Nat /\ Along(w, m, id, n, last) /\ v \in Nat /\ v >= 1
  BY <1>1, <1>3, <1>7
<1>9. t \in Memories(w) /\ t.widths = [last.widths EXCEPT ![id] = v] /\ t.seen = last.seen
  <2> DEFINE A == Mentioned(w)
  <2>1. last \in [widths : [A -> Nat], seen : SUBSET A] /\ t = [last EXCEPT !.widths[id] = v]
    BY <1>2, <1>8 DEF Memories, Wide
  <2>2. id \in A /\ Memories(w) = [widths : [A -> Nat], seen : SUBSET A]
    BY <1>1 DEF Memories
  <2> HIDE DEF A, last, t, v
  <2> QED BY <1>8, <2>1, <2>2, WidthSet
<1>10. last.widths \in [Mentioned(w) -> Nat]
  BY <1>8, MemoryTyped
<1> HIDE DEF last, t, v, total
<1>11. t.widths[id] = v /\ \A x \in Mentioned(w) : x # id => t.widths[x] = last.widths[x]
  BY <1>1, <1>9, <1>10
<1>12. last.widths[id] = 0
  BY <1>8 DEF Along, Open
<1>13. Keeps(w, m, t)
  <2>1. Seen(m, id).widths = m.widths /\ Seen(m, id).seen = m.seen \cup {id}
    BY <1>1, SeenIs
  <2> QED BY <1>8, <1>9, <1>11, <2>1 DEF Along, Keeps
<1>14. Open(w, t) = Open(w, m)
  <2>1. Open(w, last) = Open(w, m) \cup {id} /\ id \notin Open(w, m) /\ NodeIDs(w) \subseteq Mentioned(w)
    BY <1>8 DEF Along, Open, Mentioned
  <2>2. Open(w, t) = Open(w, last) \ {id}
    BY <1>8, <1>9, <1>11, <2>1 DEF Open
  <2> QED BY <2>1, <2>2
<1>15. ASSUME NEW x \in Mentioned(w), t.widths[x] # 0, x # id
       PROVE  /\ x \in NodeIDs(w) /\ Fits(w, t.widths, x)
              /\ \A c \in Children(w, x) \cap NodeIDs(w) : t.widths[c] # 0
  <2>1. /\ last.widths[x] = t.widths[x] /\ x \in NodeIDs(w) /\ Fits(w, last.widths, x)
        /\ \A c \in Children(w, x) \cap NodeIDs(w) : last.widths[c] # 0
    BY <1>8, <1>11, <1>15 DEF Along, Settled
  <2>2. id \notin Children(w, x)
    BY <1>12, <2>1
  <2>3. \A i \in 1..Len(SuccsOf(w, x)) : SuccsOf(w, x)[i] \in Mentioned(w) /\ SuccsOf(w, x)[i] \in Children(w, x)
    BY <2>1, SuccessorsOf
  <2>4. \A i \in 1..Len(SuccsOf(w, x)) : WidthOf(t.widths, SuccsOf(w, x)[i]) = WidthOf(last.widths, SuccsOf(w, x)[i])
    BY <1>11, <2>2, <2>3 DEF WidthOf
  <2>5. Fits(w, t.widths, x)
    BY <2>1, <2>4, SumKept
  <2>6. NodeIDs(w) \subseteq Mentioned(w)
    BY DEF Mentioned
  <2> QED BY <1>11, <2>1, <2>2, <2>5, <2>6
<1>16. Fits(w, t.widths, id)
  <2> DEFINE tot == [i \in 0..n |-> sum[i].total]
  <2>1. tot \in [0..n -> Nat] /\ tot[0] = 0 /\ tot[n] = total
    BY <1>1, <1>2, <1>3 DEF total
  <2>2. ASSUME NEW i \in 1..n PROVE tot[i] = tot[i - 1] + WidthOf(t.widths, succ(i))
    <3>1. i \in 0..n /\ i - 1 \in 0..n
      BY <1>1
    <3>2. sum[i].m = compute[succ(i)][sum[i - 1].m]
          /\ sum[i].total = sum[i - 1].total + WidthOf(sum[i].m.widths, succ(i))
      BY <1>2, AddedIs
    <3>3. sum[i].m.widths[succ(i)] = last.widths[succ(i)]
      <4> DEFINE a == sum[i].m.widths
                 W == {j \in 0..n : j < i \/ \A x \in Mentioned(w) : a[x] # 0 => sum[j].m.widths[x] = a[x]}
      <4>1. 0 \in W
        BY <1>1
      <4>2. ASSUME NEW j \in 1..n, j - 1 \in W PROVE j \in W
        <5>1. CASE j <= i
          BY <5>1
        <5>2. CASE j > i
          <6>1. j - 1 \in 0..n /\ ~ (j - 1 < i)
            BY <1>1, <5>2
          <6>2. Along(w, m, id, j - 1, sum[j - 1].m) /\ sum[j - 1].m \in Memories(w)
            BY <1>3, <1>7, <6>1
          <6>3. Keeps(w, sum[j - 1].m, compute[SuccsOf(w, id)[j]][sum[j - 1].m])
            <7> DEFINE s == sum[j - 1].m
            <7>1. s \in Memories(w) /\ Along(w, m, id, j - 1, s)
              BY <6>2
            <7> HIDE DEF s
            <7>2. Keeps(w, s, compute[SuccsOf(w, id)[j]][s])
              BY <7>1, AlongStep DEF n
            <7> QED BY <7>2 DEF s
          <6>4. sum[j].m = compute[SuccsOf(w, id)[j]][sum[j - 1].m]
            BY <1>2, AddedIs
          <6>5. \A x \in Mentioned(w) : a[x] # 0 => sum[j - 1].m.widths[x] = a[x]
            BY <4>2, <6>1
          <6>6. \A x \in Mentioned(w) : a[x] # 0 => sum[j].m.widths[x] = a[x]
            BY <6>3, <6>4, <6>5 DEF Keeps
          <6> QED BY <1>1, <6>6
        <5> QED BY <1>1, <5>1, <5>2
      <4>3. n \in W
        <5> HIDE DEF W
        <5>1. \A j \in 0..n : j \in W
          BY <1>1, <4>1, <4>2, UpTo
        <5> QED BY <1>1, <5>1
      <4>4. \A x \in Mentioned(w) : a[x] # 0 => last.widths[x] = a[x]
        <5>1. ~ (n < i)
          BY <1>1
        <5> QED BY <4>3, <5>1 DEF last
      <4>5. CASE a[succ(i)] # 0
        BY <1>1, <4>4, <4>5
      <4>6. CASE a[succ(i)] = 0
        <5>1. succ(i) \notin NodeIDs(w)
          <6>1. Along(w, m, id, i, sum[i].m) /\ i \in 1..i
            BY <1>7, <3>1
          <6> QED BY <4>6, <6>1 DEF Along
        <5>2. last.widths[succ(i)] = 0
          BY <1>1, <1>8, <5>1 DEF Along, Settled
        <5> QED BY <4>6, <5>2
      <4> QED BY <4>5, <4>6
    <3>4. t.widths[succ(i)] = last.widths[succ(i)]
      BY <1>1, <1>11
    <3>5. WidthOf(t.widths, succ(i)) = WidthOf(sum[i].m.widths, succ(i))
      BY <3>3, <3>4 DEF WidthOf
    <3> QED BY <3>1, <3>2, <3>5
  <2>3. t.widths[id] = IF tot[n] > 1 THEN tot[n] ELSE 1
    BY <1>11, <2>1 DEF v
  <2> HIDE DEF tot
  <2>4. Adds(tot, w, t.widths, id)
    BY <2>1, <2>2, <2>3 DEF Adds, n
  <2> QED BY <2>1, <2>4 DEF Fits, n
<1>17. \A c \in Children(w, id) \cap NodeIDs(w) : t.widths[c] # 0
  <2> TAKE c \in Children(w, id) \cap NodeIDs(w)
  <2>1. PICK i \in 1..n : c = succ(i)
    BY SuccessorsOf DEF n
  <2>2. last.widths[c] # 0 /\ c # id /\ c \in Mentioned(w)
    BY <1>1, <1>8, <2>1 DEF Along
  <2> QED BY <1>11, <2>2
<1>18. Settled(w, t.widths)
  BY <1>15, <1>16, <1>17 DEF Settled
<1>19. t.widths[id] # 0
  BY <1>8, <1>11
<1> QED BY <1>13, <1>14, <1>18, <1>19 DEF t, WasMeasured

LEMMA MeasuredTyped ==
  ASSUME NEW w, IsParsed(w), Aimed(w), NEW compute \in [Mentioned(w) -> [Memories(w) -> Memories(w)]],
         NEW id \in NodeIDs(w), NEW m \in Memories(w)
  PROVE  Measured(w, compute, id, m) \in Memories(w)
PROOF
<1> DEFINE n == Len(SuccsOf(w, id))
           A == Mentioned(w)
<1>1. n \in Nat /\ id \in A
  BY SuccessorsOf DEF Mentioned
<1>2. PICK sum \in [0..n -> Sums(w)] : Measured(w, compute, id, m) = Wide(sum[n].m, id, sum[n].total)
  BY MeasuredSteps
<1> DEFINE last == sum[n].m
           v == IF sum[n].total > 1 THEN sum[n].total ELSE 1
<1>3. last \in Memories(w) /\ v \in Nat
  BY <1>1, <1>2 DEF Sums
<1>4. Measured(w, compute, id, m) = [last EXCEPT !.widths[id] = v]
  BY <1>2 DEF Wide
<1>5. Memories(w) = [widths : [A -> Nat], seen : SUBSET A]
  BY DEF Memories
<1> HIDE DEF A, last, v
<1> QED BY <1>1, <1>3, <1>4, <1>5, WidthSet

(* The levels of computeWidth.                                             *)
Width1(w, below, deep, id, m) ==
  IF m.widths[id] # 0 \/ id \in m.seen THEN m
  ELSE IF Defined(w, id) /\ deep THEN Measured(w, below, id, m) ELSE Seen(m, id)

LEMMA WidthLevels ==
  ASSUME NEW w, IsParsed(w), Aimed(w)
  PROVE  \E compute :
           /\ \A k \in 0..Len(w.nodes) : compute[k] \in [Mentioned(w) -> [Memories(w) -> Memories(w)]]
           /\ \A id \in Mentioned(w), m \in Memories(w) :
                /\ compute[0][id][m] = Width1(w, compute[0], FALSE, id, m)
                /\ \A k \in 1..Len(w.nodes) : compute[k][id][m] = Width1(w, compute[k - 1], TRUE, id, m)
           /\ ComputeWidth(w) = compute[Len(w.nodes)]
PROOF
<1> DEFINE n == Len(w.nodes)
           M == Mentioned(w)
           S == Memories(w)
           H == [M -> [S -> S]]
           a == [id \in M |-> [m \in S |-> IF m.widths[id] # 0 \/ id \in m.seen THEN m ELSE Seen(m, id)]]
           Higher(h) == [id \in M |-> [m \in S |-> Width1(w, h, TRUE, id, m)]]
           g == [k \in 1..n |-> [h \in H |-> Higher(h)]]
           Level(f, k) == [id \in Mentioned(w) |-> [m \in Memories(w) |->
             IF m.widths[id] # 0 \/ id \in m.seen THEN m
             ELSE IF Defined(w, id) /\ k > 0 THEN Measured(w, f[k - 1], id, m)
             ELSE Seen(m, id)]]
           Is(f) == f = [k \in 0..n |-> [id \in Mentioned(w) |-> [m \in Memories(w) |->
             IF m.widths[id] # 0 \/ id \in m.seen THEN m
             ELSE IF Defined(w, id) /\ k > 0 THEN Measured(w, f[k - 1], id, m)
             ELSE Seen(m, id)]]]
<1>1. n \in Nat
  BY LenProperties DEF IsParsed, IsList
<1>2. \A id \in M, m \in S : Seen(m, id) \in S
  BY SeenIs
<1>3. a \in H
  <2> HIDE DEF M, S
  <2> QED BY <1>2
<1>4. ASSUME NEW h \in H PROVE Higher(h) \in H
  <2>1. ASSUME NEW id \in M, NEW m \in S PROVE Width1(w, h, TRUE, id, m) \in S
    <3>1. Defined(w, id) => Measured(w, h, id, m) \in S
      BY MeasuredTyped DEF Defined
    <3> HIDE DEF M, S, H
    <3> QED BY <1>2, <2>1, <3>1 DEF Width1
  <2> HIDE DEF M, S
  <2> QED BY <2>1
<1>5. g \in [1..n -> [H -> H]]
  <2> HIDE DEF H, Higher
  <2> QED BY <1>4
<1> HIDE DEF n
<1>6. PICK f : Steps(f, H, g, a, n)
  <2> HIDE DEF H, g, a
  <2> QED BY <1>1, <1>3, <1>5, Iterated
<1>7. Is(f)
  <2>1. ASSUME NEW k \in 0..n PROVE f[k] = Level(f, k)
    <3>1. CASE k = 0
      <4>1. f[k] = a
        <5> HIDE DEF H, g, a
        <5> QED BY <1>1, <1>6, <3>1 DEF Steps
      <4>2. ~ k > 0
        BY <3>1
      <4> HIDE DEF H, g
      <4> QED BY <4>1, <4>2
    <3>2. CASE k # 0
      <4>1. k \in 1..n /\ k - 1 \in 0..n
        BY <1>1, <3>2
      <4>2. f[k - 1] \in H /\ f[k] = g[k][f[k - 1]]
        <5> HIDE DEF H, g, a
        <5> QED BY <1>6, <3>2, <4>1 DEF Steps
      <4>3. f[k] = Higher(f[k - 1])
        <5> HIDE DEF H, Higher
        <5> QED BY <4>1, <4>2
      <4>4. k > 0
        BY <4>1
      <4> HIDE DEF H, g, a
      <4> QED BY <4>3, <4>4 DEF Width1
    <3> QED BY <3>1, <3>2
  <2>2. f = [k \in 0..n |-> f[k]]
    <3> HIDE DEF H, g, a
    <3> QED BY <1>6 DEF Steps
  <2> HIDE DEF Level
  <2>3. f = [k \in 0..n |-> Level(f, k)]
    BY <2>1, <2>2
  <2> QED BY <2>3 DEF Level
<1> DEFINE compute == CHOOSE h : Is(h)
<1>8. Is(compute)
  <2> HIDE DEF Is
  <2> QED BY <1>7
<1>9. ComputeWidth(w) = compute[n]
  BY DEF ComputeWidth, n
<1> HIDE DEF compute
<1>10. compute[0] = a /\ \A k \in 1..n : compute[k] = Higher(compute[k - 1])
  <2>1. ASSUME NEW k \in 0..n PROVE compute[k] = Level(compute, k)
    <3> HIDE DEF H, g, a
    <3> QED BY <1>8
  <2>2. compute[0] = a
    <3>1. 0 \in 0..n /\ ~ 0 > 0
      BY <1>1
    <3>2. compute[0] = Level(compute, 0)
      BY <2>1, <3>1
    <3> HIDE DEF H, g
    <3> QED BY <3>1, <3>2
  <2>3. ASSUME NEW k \in 1..n PROVE compute[k] = Higher(compute[k - 1])
    <3>1. k \in 0..n /\ k > 0
      BY <1>1
    <3>2. compute[k] = Level(compute, k)
      BY <2>1, <3>1
    <3> HIDE DEF H, g, a
    <3> QED BY <3>1, <3>2 DEF Width1
  <2> QED BY <2>2, <2>3
<1> HIDE DEF Is, Level
<1> DEFINE U == {k \in 0..n : compute[k] \in H}
<1>11. 0 \in U /\ \A k \in 1..n : k - 1 \in U => k \in U
  <2> HIDE DEF H, a, Higher
  <2> QED BY <1>1, <1>3, <1>4, <1>10
<1>12. \A k \in 0..n : k \in U
  <2> HIDE DEF U
  <2> QED BY <1>1, <1>11, UpTo
<1>13. \A k \in 0..n : compute[k] \in [Mentioned(w) -> [Memories(w) -> Memories(w)]]
  BY <1>12
<1>14. \A id \in M, m \in S :
         /\ compute[0][id][m] = Width1(w, compute[0], FALSE, id, m)
         /\ \A k \in 1..n : compute[k][id][m] = Width1(w, compute[k - 1], TRUE, id, m)
  <2>1. ASSUME NEW id \in M, NEW m \in S PROVE compute[0][id][m] = Width1(w, compute[0], FALSE, id, m)
    <3> HIDE DEF M, S
    <3> QED BY <1>10 DEF Width1
  <2>2. ASSUME NEW id \in M, NEW m \in S, NEW k \in 1..n
        PROVE  compute[k][id][m] = Width1(w, compute[k - 1], TRUE, id, m)
    <3>1. compute[k] = Higher(compute[k - 1])
      BY <1>10
    <3> HIDE DEF M, S
    <3> QED BY <3>1
  <2> QED BY <2>1, <2>2
<1> QED BY <1>9, <1>13, <1>14 DEF n

(* As many levels as nodes are enough.                                     *)
LEMMA ComputeMeasures ==
  ASSUME NEW w, IsParsed(w), Aimed(w), ~ HasCycle(w)
  PROVE  Measuring(w, ComputeWidth(w), Len(w.nodes))
PROOF
<1> DEFINE n == Len(w.nodes)
<1>1. n \in Nat
  BY LenProperties DEF IsParsed, IsList
<1>2. PICK compute :
        /\ \A k \in 0..n : compute[k] \in [Mentioned(w) -> [Memories(w) -> Memories(w)]]
        /\ \A id \in Mentioned(w), m \in Memories(w) :
             /\ compute[0][id][m] = Width1(w, compute[0], FALSE, id, m)
             /\ \A k \in 1..n : compute[k][id][m] = Width1(w, compute[k - 1], TRUE, id, m)
        /\ ComputeWidth(w) = compute[n]
  BY WidthLevels
<1> HIDE DEF n
<1> DEFINE U == {k \in 0..n : Measuring(w, compute[k], k)}
<1>3. ASSUME NEW k \in Nat, NEW id \in Mentioned(w), NEW m \in Memories(w), ToMeasure(w, m, id, k),
             m.widths[id] # 0 \/ id \in m.seen
      PROVE  WasMeasured(w, m, id, m)
  <2>1. CASE m.widths[id] # 0
    BY <1>3, <2>1 DEF ToMeasure, WasMeasured, Keeps
  <2>2. CASE m.widths[id] = 0 /\ id \in m.seen
    <3>1. id \notin NodeIDs(w)
      <4> SUFFICES ASSUME id \in NodeIDs(w) PROVE FALSE
        OBVIOUS
      <4>1. id \in Open(w, m)
        BY <2>2 DEF Open
      <4>2. OnPath(w, id, id)
        BY <1>3, <4>1 DEF ToMeasure
      <4> QED BY <4>2 DEF HasCycle
    <3> QED BY <1>3, <3>1 DEF ToMeasure, WasMeasured, Keeps
  <2> QED BY <1>3, <2>1, <2>2
<1>4. ASSUME NEW k \in Nat, NEW id \in Mentioned(w), NEW m \in Memories(w), ToMeasure(w, m, id, k),
             id \notin NodeIDs(w)
      PROVE  WasMeasured(w, m, id, Seen(m, id))
  <2> DEFINE t == Seen(m, id)
  <2>1. t.widths = m.widths /\ t.seen = m.seen \cup {id}
    BY SeenIs
  <2> HIDE DEF t
  <2>2. Open(w, t) = Open(w, m)
    BY <1>4, <2>1 DEF Open
  <2>3. WasMeasured(w, m, id, t)
    BY <1>4, <2>1, <2>2 DEF ToMeasure, WasMeasured, Keeps
  <2> QED BY <2>3 DEF t
<1>5. 0 \in U
  <2>1. ASSUME NEW id \in Mentioned(w), NEW m \in Memories(w), ToMeasure(w, m, id, 0)
        PROVE  WasMeasured(w, m, id, compute[0][id][m])
    <3>1. compute[0][id][m] = Width1(w, compute[0], FALSE, id, m)
      BY <1>2
    <3>2. CASE m.widths[id] # 0 \/ id \in m.seen
      BY <1>3, <2>1, <3>1, <3>2 DEF Width1
    <3>3. CASE ~ (m.widths[id] # 0 \/ id \in m.seen)
      <4>1. compute[0][id][m] = Seen(m, id)
        BY <3>1, <3>3 DEF Width1
      <4>2. id \notin NodeIDs(w)
        <5> SUFFICES ASSUME id \in NodeIDs(w) PROVE FALSE
          OBVIOUS
        <5> DEFINE D == NodeIDs(w) \ m.seen
        <5>1. IsFiniteSet(NodeIDs(w))
          BY NodeIDsBounded DEF IsParsed, IsList
        <5>2. id \in D /\ IsFiniteSet(D) /\ Cardinality(D) <= 0
          BY <2>1, <3>3, <5>1, FS_Subset DEF ToMeasure
        <5> HIDE DEF D
        <5>3. Cardinality(D) = 0
          BY <5>2, FS_CardinalityType
        <5> QED BY <5>2, <5>3, FS_EmptySet
      <4> QED BY <1>4, <2>1, <4>1, <4>2
    <3> QED BY <3>2, <3>3
  <2> QED BY <1>1, <1>2, <2>1 DEF Measuring
<1>6. ASSUME NEW k \in 1..n, k - 1 \in U PROVE k \in U
  <2>1. k \in 0..n /\ k - 1 \in Nat /\ k - 1 + 1 = k /\ k \in Nat /\ Measuring(w, compute[k - 1], k - 1)
    BY <1>1, <1>6
  <2>2. ASSUME NEW id \in Mentioned(w), NEW m \in Memories(w), ToMeasure(w, m, id, k)
        PROVE  WasMeasured(w, m, id, compute[k][id][m])
    <3>1. compute[k][id][m] = Width1(w, compute[k - 1], TRUE, id, m)
      BY <1>2
    <3>2. CASE m.widths[id] # 0 \/ id \in m.seen
      BY <1>3, <2>1, <2>2, <3>1, <3>2 DEF Width1
    <3>3. CASE ~ (m.widths[id] # 0 \/ id \in m.seen) /\ id \notin NodeIDs(w)
      <4>1. compute[k][id][m] = Seen(m, id)
        BY <3>1, <3>3 DEF Width1, Defined
      <4> QED BY <1>4, <2>1, <2>2, <3>3, <4>1
    <3>4. CASE ~ (m.widths[id] # 0 \/ id \in m.seen) /\ id \in NodeIDs(w)
      <4> DEFINE j == k - 1
                 calls == compute[k - 1]
      <4>1. compute[k][id][m] = Measured(w, calls, id, m)
        BY <3>1, <3>4 DEF Width1, Defined
      <4>2. j \in Nat /\ Measuring(w, calls, j) /\ ToMeasure(w, m, id, j + 1)
        BY <2>1, <2>2
      <4> HIDE DEF j, calls
      <4>3. WasMeasured(w, m, id, Measured(w, calls, id, m))
        BY <3>4, <4>2, MeasuredFits
      <4> QED BY <4>1, <4>3
    <3> QED BY <3>2, <3>3, <3>4
  <2> QED BY <1>2, <2>1, <2>2 DEF Measuring
<1>7. n \in U
  <2> HIDE DEF U
  <2>1. \A k \in 0..n : k \in U
    BY <1>1, <1>5, <1>6, UpTo
  <2> QED BY <1>1, <2>1
<1> QED BY <1>2, <1>7 DEF n

(* What the widths are when a definition is laid out.                      *)
LEMMA WidthsFit ==
  ASSUME NEW w, IsParsed(w), Aimed(w), ~ HasCycle(w), Defined(w, w.start)
  PROVE  /\ Widths(w) \in [Mentioned(w) -> Nat]
         /\ Settled(w, Widths(w)) /\ Widths(w)[w.start] # 0
PROOF
<1> DEFINE m == [widths |-> [id \in Mentioned(w) |-> 0], seen |-> {}]
           t == ComputeWidth(w)[w.start][m]
<1>1. w.start \in Mentioned(w) /\ w.start \in NodeIDs(w)
  BY DEF Mentioned, Defined
<1>2. m \in Memories(w)
  BY DEF Memories
<1>3. ToMeasure(w, m, w.start, Len(w.nodes))
  <2>1. Settled(w, m.widths)
    BY DEF Settled
  <2>2. Open(w, m) = {}
    BY DEF Open
  <2>3. Cardinality(NodeIDs(w)) <= Len(w.nodes) /\ NodeIDs(w) \ m.seen = NodeIDs(w)
    BY NodeIDsBounded DEF IsParsed, IsList
  <2> HIDE DEF m
  <2> QED BY <2>1, <2>2, <2>3 DEF ToMeasure
<1>4. Widths(w) = t.widths
  BY DEF Widths
<1> HIDE DEF m
<1>5. WasMeasured(w, m, w.start, t) /\ t \in Memories(w)
  BY <1>1, <1>2, <1>3, ComputeMeasures DEF Measuring
<1> HIDE DEF t
<1> QED BY <1>1, <1>4, <1>5, MemoryTyped DEF WasMeasured

-----------------------------------------------------------------------------
(* Boxes between two columns, from a row on, none of which hides another.  *)
Neat(boxes, left, right, row) ==
  /\ \A p \in boxes : p.depth >= row /\ 2 * left + 1 <= p.centre /\ p.centre <= 2 * right - 1
  /\ \A p, q \in boxes : Overlap(p, q) => p = q

LEMMA NeatPart ==
  ASSUME NEW A, NEW B, B \subseteq A, NEW l, NEW r, NEW d, Neat(A, l, r, d)
  PROVE  Neat(B, l, r, d)
BY DEF Neat

LEMMA OverlapTwoWays ==
  ASSUME NEW p, NEW q, p.centre \in Nat, q.centre \in Nat, Overlap(p, q) PROVE Overlap(q, p)
BY DEF Overlap

(* Boxes side by side.                                                     *)
LEMMA NeatTogether ==
  ASSUME NEW w, NEW A \in SUBSET Boxes(w), NEW B \in SUBSET Boxes(w),
         NEW l \in Nat, NEW m \in Nat, NEW r \in Nat, l <= m, m <= r, NEW d,
         Neat(A, l, m, d), Neat(B, m, r, d)
  PROVE  Neat(A \cup B, l, r, d)
PROOF
<1>1. \A p \in A \cup B : p.centre \in Nat
  BY DEF Boxes
<1>2. ASSUME NEW p \in A, NEW q \in B PROVE ~ Overlap(p, q)
  <2>1. /\ p.centre \in Nat /\ q.centre \in Nat
        /\ p.centre <= 2 * m - 1 /\ 2 * m + 1 <= q.centre
    BY <1>1 DEF Neat
  <2>2. ~ p.centre > q.centre /\ q.centre - p.centre >= 2
    BY <2>1
  <2> QED BY <2>1, <2>2 DEF Overlap, NodeW, ColGap
<1>3. ASSUME NEW p \in A, NEW q \in B PROVE ~ Overlap(q, p)
  BY <1>1, <1>2, OverlapTwoWays
<1>4. ASSUME NEW p \in A \cup B
      PROVE  p.depth >= d /\ 2 * l + 1 <= p.centre /\ p.centre <= 2 * r - 1
  <2>1. p.centre \in Nat
    BY <1>1
  <2>2. CASE p \in A
    <3>1. p.depth >= d /\ 2 * l + 1 <= p.centre /\ p.centre <= 2 * m - 1
      BY <2>2 DEF Neat
    <3> QED BY <2>1, <3>1
  <2>3. CASE p \in B
    <3>1. p.depth >= d /\ 2 * m + 1 <= p.centre /\ p.centre <= 2 * r - 1
      BY <2>3 DEF Neat
    <3> QED BY <2>1, <3>1
  <2> QED BY <2>2, <2>3
<1>5. ASSUME NEW p \in A \cup B, NEW q \in A \cup B, Overlap(p, q) PROVE p = q
  BY <1>2, <1>3, <1>5 DEF Neat
<1> QED BY <1>4, <1>5 DEF Neat

(* A box over boxes of later rows.                                         *)
LEMMA NeatUnder ==
  ASSUME NEW w, NEW A \in SUBSET Boxes(w), NEW b \in Boxes(w), NEW l \in Nat, NEW r \in Nat, NEW s \in Nat,
         r <= s, NEW d \in Nat, Neat(A, l, r, d + 1), b.depth = d, 2 * l + 1 <= b.centre, b.centre <= 2 * s - 1
  PROVE  Neat(A \cup {b}, l, s, d)
PROOF
<1>1. \A p \in A \cup {b} : p.centre \in Nat /\ p.depth \in Int
  BY DEF Boxes
<1>2. ASSUME NEW p \in A PROVE ~ Overlap(p, b) /\ ~ Overlap(b, p)
  <2>1. p.depth >= d + 1 /\ p.depth \in Int
    BY <1>1 DEF Neat
  <2> QED BY <2>1 DEF Overlap
<1>3. ASSUME NEW p \in A PROVE p.depth >= d /\ 2 * l + 1 <= p.centre /\ p.centre <= 2 * s - 1
  <2>1. /\ p.depth >= d + 1 /\ 2 * l + 1 <= p.centre /\ p.centre <= 2 * r - 1
        /\ p.centre \in Nat /\ p.depth \in Int
    BY <1>1 DEF Neat
  <2> QED BY <2>1
<1>4. ASSUME NEW p \in A \cup {b}, NEW q \in A \cup {b}, Overlap(p, q) PROVE p = q
  BY <1>2, <1>4 DEF Neat
<1>5. b.depth >= d
  OBVIOUS
<1> QED BY <1>3, <1>4, <1>5 DEF Neat

Calls(w) == [Mentioned(w) -> [Nat -> [SUBSET Boxes(w) -> SUBSET Boxes(w)]]]

LEMMA CallTyped ==
  ASSUME NEW w, NEW calls \in Calls(w), NEW id \in Mentioned(w), NEW left \in Nat, NEW placed \in SUBSET Boxes(w)
  PROVE  calls[id][left][placed] \in SUBSET Boxes(w)
PROOF
<1> DEFINE P == SUBSET Boxes(w)
<1>1. calls \in [Mentioned(w) -> [Nat -> [P -> P]]] /\ placed \in P
  BY DEF Calls
<1> HIDE DEF P
<1>2. calls[id] \in [Nat -> [P -> P]]
  BY <1>1
<1>3. calls[id][left] \in [P -> P]
  BY <1>2
<1>4. calls[id][left][placed] \in P
  BY <1>1, <1>3
<1> QED BY <1>4 DEF P

(* What assign does below a row, with widths that fit: it adds boxes       *)
(* within the columns of the id it is called with.                         *)
Placing(w, widths, calls, row) ==
  /\ calls \in Calls(w)
  /\ \A id \in Mentioned(w), left \in Nat, placed \in SUBSET Boxes(w) :
       (id \in NodeIDs(w) => widths[id] # 0) =>
         LET t == calls[id][left][placed]
         IN placed \subseteq t /\ Neat(t \ placed, left, left + WidthOf(widths, id), row)

LEMMA AddedPart ==
  ASSUME NEW A, NEW B, NEW C, A \subseteq B, B \subseteq C
  PROVE  C \ A = (B \ A) \cup (C \ B)
OBVIOUS

Rows(w) == [placed : SUBSET Boxes(w), cursor : Nat]
Beside(widths, calls, b, s) ==
  [placed |-> IF b.next = NoNode THEN s.placed ELSE calls[b.next][s.cursor][s.placed],
   cursor |-> s.cursor + ColumnsOf(widths, b)]

LEMMA BesideIs ==
  ASSUME NEW w, NEW widths \in [Mentioned(w) -> Nat],
         NEW calls \in Calls(w),
         NEW b, b.next \in Mentioned(w), NEW s \in Rows(w)
  PROVE  LET t == Beside(widths, calls, b, s) IN
         /\ t \in Rows(w) /\ t.cursor = s.cursor + WidthOf(widths, b.next)
         /\ t.placed = IF b.next = NoNode THEN s.placed ELSE calls[b.next][s.cursor][s.placed]
PROOF
<1> DEFINE P == SUBSET Boxes(w)
           c == s.cursor + WidthOf(widths, b.next)
           p == IF b.next = NoNode THEN s.placed ELSE calls[b.next][s.cursor][s.placed]
<1>1. s.placed \in P /\ s.cursor \in Nat /\ widths[b.next] \in Nat
  BY DEF Rows
<1>2. p \in P
  <2>1. calls[b.next][s.cursor][s.placed] \in P
    BY <1>1, CallTyped
  <2> HIDE DEF P
  <2> QED BY <1>1, <2>1
<1>3. c \in Nat
  BY <1>1 DEF WidthOf
<1>4. Beside(widths, calls, b, s) = [placed |-> p, cursor |-> c]
  BY DEF Beside, ColumnsOf
<1>5. Rows(w) = [placed : P, cursor : Nat]
  BY DEF Rows
<1> HIDE DEF P, p, c
<1>6. LET t == Beside(widths, calls, b, s) IN t \in Rows(w) /\ t.cursor = c /\ t.placed = p
  BY <1>2, <1>3, <1>4, <1>5
<1> QED BY <1>6 DEF c, p

(* The loop over the branches of a filter, step by step.                   *)
Tiles(row, widths, calls, n, left, placed) ==
  /\ row[0] = [placed |-> placed, cursor |-> left]
  /\ \A i \in 1..Len(n.branches) : row[i] = Beside(widths, calls, n.branches[i], row[i - 1])
  /\ AssignedBelow(widths, calls, n, left, placed) = row[Len(n.branches)].placed

LEMMA RowSteps ==
  ASSUME NEW w, IsParsed(w), NEW widths \in [Mentioned(w) -> Nat],
         NEW calls \in Calls(w),
         NEW n \in NodesOf(w), n.type = "filter", NEW left \in Nat, NEW placed \in SUBSET Boxes(w)
  PROVE  \E row \in [0..Len(n.branches) -> Rows(w)] : Tiles(row, widths, calls, n, left, placed)
PROOF
<1> DEFINE m == Len(n.branches)
           S == Rows(w)
           a == [placed |-> placed, cursor |-> left]
           g == [i \in 1..m |-> [x \in S |-> Beside(widths, calls, n.branches[i], x)]]
           Is(f) == f = [i \in 0..Len(n.branches) |->
             IF i = 0 THEN [placed |-> placed, cursor |-> left]
             ELSE LET b == n.branches[i]
                      s == f[i - 1]
                  IN [placed |-> IF b.next = NoNode THEN s.placed
                                 ELSE calls[b.next][s.cursor][s.placed],
                      cursor |-> s.cursor + ColumnsOf(widths, b)]]
<1>1. m \in Nat /\ \A i \in 1..m : n.branches[i].next \in Mentioned(w)
  <2>1. Successors(n) = [i \in 1..m |-> n.branches[i].next] /\ m \in Nat
    BY ParsedNodes DEF Successors
  <2>2. Len(Successors(n)) = m
    BY <2>1
  <2> QED BY <2>1, <2>2, SuccessorsListed
<1>2. a \in S
  BY DEF Rows
<1>3. ASSUME NEW i \in 1..m, NEW x \in S PROVE Beside(widths, calls, n.branches[i], x) \in S
  BY <1>1, BesideIs
<1>4. g \in [1..m -> [S -> S]]
  <2> HIDE DEF S
  <2> QED BY <1>3
<1>5. PICK f : Steps(f, S, g, a, m)
  <2> HIDE DEF S, g, a, m
  <2> QED BY <1>1, <1>2, <1>4, Iterated
<1>6. Is(f)
  <2>1. ASSUME NEW i \in 0..m, i # 0 PROVE f[i] = Beside(widths, calls, n.branches[i], f[i - 1])
    <3>1. i \in 1..m /\ i - 1 \in 0..m
      BY <1>1, <2>1
    <3>2. f[i - 1] \in S /\ f[i] = g[i][f[i - 1]]
      <4> HIDE DEF S, g, a, m
      <4> QED BY <1>5, <2>1, <3>1 DEF Steps
    <3> HIDE DEF S, m, a
    <3> QED BY <3>1, <3>2
  <2>2. f \in [0..m -> S] /\ (0 \in 0..m => f[0] = a)
    <3> HIDE DEF S, g, a, m
    <3> QED BY <1>5 DEF Steps
  <2> HIDE DEF S, g
  <2> QED BY <2>1, <2>2 DEF Beside
<1> DEFINE row == CHOOSE h : Is(h)
<1>7. Is(row)
  <2> HIDE DEF Is
  <2> QED BY <1>6
<1>8. AssignedBelow(widths, calls, n, left, placed) = row[Len(n.branches)].placed
  BY DEF AssignedBelow
<1> HIDE DEF row, m
<1>9. row[0] = a
  <2>1. 0 \in 0..Len(n.branches)
    BY <1>1 DEF m
  <2>2. row[0] = IF 0 = 0 THEN [placed |-> placed, cursor |-> left] ELSE row[0]
    BY <1>7, <2>1
  <2> QED BY <2>2
<1>10. ASSUME NEW i \in 1..m PROVE row[i] = Beside(widths, calls, n.branches[i], row[i - 1])
  <2>1. i \in 0..Len(n.branches) /\ i # 0
    BY <1>1 DEF m
  <2> HIDE DEF a, S
  <2> QED BY <1>7, <2>1 DEF Beside
<1>11. row = [i \in 0..m |-> row[i]]
  BY <1>7 DEF m
<1> HIDE DEF Is
<1> DEFINE U == {i \in 0..m : row[i] \in S}
<1>12. 0 \in U /\ \A i \in 1..m : i - 1 \in U => i \in U
  <2> HIDE DEF S, a
  <2> QED BY <1>1, <1>2, <1>3, <1>9, <1>10
<1>13. \A i \in 0..m : i \in U
  <2> HIDE DEF U
  <2> QED BY <1>1, <1>12, UpTo
<1>14. row \in [0..m -> S]
  <2> HIDE DEF S
  <2> QED BY <1>11, <1>13
<1> QED BY <1>8, <1>9, <1>10, <1>14 DEF m, Tiles

LEMMA AssignedTyped ==
  ASSUME NEW w, IsParsed(w), NEW widths \in [Mentioned(w) -> Nat], NEW calls \in Calls(w),
         NEW n \in NodesOf(w), NEW left \in Nat, NEW placed \in SUBSET Boxes(w)
  PROVE  AssignedBelow(widths, calls, n, left, placed) \in SUBSET Boxes(w)
PROOF
<1>1. CASE n.type = "filter"
  <2>1. Len(n.branches) \in Nat
    BY ParsedNodes
  <2>2. PICK row \in [0..Len(n.branches) -> Rows(w)] : Tiles(row, widths, calls, n, left, placed)
    BY <1>1, RowSteps
  <2>3. row[Len(n.branches)] \in Rows(w)
    BY <2>1
  <2> QED BY <2>2, <2>3 DEF Rows, Tiles
<1>2. CASE n.type # "filter" /\ n.next # NoNode
  <2>1. Successors(n) = <<n.next>>
    BY <1>2 DEF Successors
  <2>2. 1 \in 1..Len(Successors(n)) /\ Successors(n)[1] = n.next
    BY <2>1
  <2>3. n.next \in Mentioned(w)
    BY <2>2, SuccessorsListed
  <2>4. AssignedBelow(widths, calls, n, left, placed) = calls[n.next][left][placed]
    BY <1>2 DEF AssignedBelow
  <2> QED BY <2>3, <2>4, CallTyped
<1>3. CASE n.type # "filter" /\ n.next = NoNode
  BY <1>3 DEF AssignedBelow
<1> QED BY <1>1, <1>2, <1>3

(* The boxes below a node lie within its columns.                          *)
LEMMA AssignedNeat ==
  ASSUME NEW w, IsParsed(w), Aimed(w), NEW widths \in [Mentioned(w) -> Nat], Settled(w, widths),
         NEW row \in Nat, NEW calls, Placing(w, widths, calls, row),
         NEW id \in NodeIDs(w), widths[id] # 0, NEW left \in Nat, NEW placed \in SUBSET Boxes(w)
  PROVE  LET t == AssignedBelow(widths, calls, NodeMap(w)[id], left, placed) IN
         /\ t \in SUBSET Boxes(w) /\ placed \subseteq t
         /\ \E right \in Nat : left <= right /\ right <= left + widths[id] /\ Neat(t \ placed, left, right, row)
PROOF
<1> DEFINE n == NodeMap(w)[id]
           succ == SuccsOf(w, id)
           m == Len(succ)
           t == AssignedBelow(widths, calls, n, left, placed)
<1>1. /\ n \in NodesOf(w) /\ id \in Mentioned(w) /\ m \in Nat /\ succ = Successors(n)
      /\ \A i \in 1..m : succ[i] \in Mentioned(w) /\ succ[i] \in Children(w, id) /\ succ[i] # NoNode
  BY ParsedNodes, SuccessorsOf, AimedSuccessors DEF Mentioned, SuccsOf
<1>2. /\ Fits(w, widths, id)
      /\ \A i \in 1..m : succ[i] \in NodeIDs(w) => widths[succ[i]] # 0
  BY <1>1 DEF Settled
<1>3. PICK sum \in [0..m -> Nat] : Adds(sum, w, widths, id)
  BY <1>2 DEF Fits
<1>4. calls \in Calls(w)
  BY DEF Placing
<1>5. t \in SUBSET Boxes(w)
  BY <1>1, <1>4, AssignedTyped
<1> HIDE DEF n, succ, m, t
<1>6. /\ sum[0] = 0 /\ \A i \in 1..m : sum[i] = sum[i - 1] + WidthOf(widths, succ[i])
      /\ widths[id] = IF sum[m] > 1 THEN sum[m] ELSE 1
  BY <1>3 DEF Adds, m, succ
<1>7. \A i \in 0..m : sum[i] \in Nat
  BY <1>3
<1>8. left + sum[m] \in Nat /\ left <= left + sum[m] /\ left + sum[m] <= left + widths[id]
  <2>1. sum[m] \in Nat
    BY <1>1, <1>7
  <2> QED BY <1>6, <2>1
<1>9. CASE n.type = "filter"
  <2>1. PICK r \in [0..Len(n.branches) -> Rows(w)] : Tiles(r, widths, calls, n, left, placed)
    BY <1>1, <1>4, <1>9, RowSteps
  <2>11. /\ r[0] = [placed |-> placed, cursor |-> left]
         /\ \A i \in 1..Len(n.branches) : r[i] = Beside(widths, calls, n.branches[i], r[i - 1])
         /\ t = r[Len(n.branches)].placed
    BY <2>1 DEF Tiles, t
  <2>2. Len(n.branches) = m /\ \A i \in 1..m : n.branches[i].next = succ[i]
    <3>1. Len(n.branches) \in Nat
      BY <1>1, ParsedNodes
    <3>2. succ = [i \in 1..Len(n.branches) |-> n.branches[i].next]
      BY <1>1, <1>9 DEF Successors
    <3>3. Len(succ) = Len(n.branches)
      BY <3>1, <3>2
    <3> QED BY <3>2, <3>3 DEF m
  <2> DEFINE U == {i \in 0..m : /\ placed \subseteq r[i].placed /\ r[i].cursor = left + sum[i]
                                /\ Neat(r[i].placed \ placed, left, left + sum[i], row)}
  <2>3. 0 \in U
    <3>1. r[0].placed = placed /\ r[0].cursor = left /\ placed \ placed = {}
      BY <2>11
    <3>2. left + sum[0] = left /\ 0 \in 0..m
      BY <1>1, <1>6
    <3>3. Neat({}, left, left, row)
      BY DEF Neat
    <3>4. placed \subseteq r[0].placed /\ Neat(r[0].placed \ placed, left, left + sum[0], row)
      BY <3>1, <3>2, <3>3
    <3> QED BY <3>1, <3>2, <3>4
  <2>4. ASSUME NEW i \in 1..m, i - 1 \in U PROVE i \in U
    <3> DEFINE s == r[i - 1]
               u == r[i]
               l == left + sum[i - 1]
               k == left + sum[i]
    <3>1. i \in 0..m /\ i - 1 \in 0..m /\ succ[i] \in Mentioned(w) /\ succ[i] # NoNode
      BY <1>1
    <3>2. s \in Rows(w) /\ s.placed \in SUBSET Boxes(w) /\ s.cursor \in Nat
      BY <2>1, <2>2, <3>1 DEF Rows
    <3>3. s.cursor = l /\ placed \subseteq s.placed /\ Neat(s.placed \ placed, left, l, row)
      BY <2>4
    <3>4. u = Beside(widths, calls, n.branches[i], s) /\ n.branches[i].next = succ[i]
      BY <2>2, <2>11
    <3>5. sum[i] = sum[i - 1] + WidthOf(widths, succ[i]) /\ widths[succ[i]] \in Nat
          /\ sum[i] \in Nat /\ sum[i - 1] \in Nat
      BY <1>6, <1>7, <3>1
    <3>6. WidthOf(widths, succ[i]) \in Nat
      BY <3>5 DEF WidthOf
    <3>7. l \in Nat /\ k \in Nat /\ k = l + WidthOf(widths, succ[i]) /\ left <= l /\ l <= k
      BY <3>5, <3>6
    <3> HIDE DEF s, u, l, k, U
    <3>8. u \in Rows(w) /\ u.cursor = k /\ u.placed = calls[succ[i]][l][s.placed]
      <4> DEFINE b == n.branches[i]
      <4>1. b.next \in Mentioned(w) /\ b.next = succ[i] /\ u = Beside(widths, calls, b, s)
        BY <3>1, <3>4
      <4> HIDE DEF b
      <4>2. /\ u \in Rows(w) /\ u.cursor = s.cursor + WidthOf(widths, b.next)
            /\ u.placed = IF b.next = NoNode THEN s.placed ELSE calls[b.next][s.cursor][s.placed]
        BY <1>4, <3>2, <4>1, BesideIs
      <4> QED BY <3>1, <3>3, <3>7, <4>1, <4>2
    <3>9. s.placed \subseteq u.placed /\ Neat(u.placed \ s.placed, l, k, row)
      BY <1>2, <3>1, <3>2, <3>7, <3>8 DEF Placing
    <3>10. u.placed \in SUBSET Boxes(w)
      BY <3>8 DEF Rows
    <3>11. Neat(u.placed \ placed, left, k, row)
      <4> DEFINE A == s.placed \ placed
                 B == u.placed \ s.placed
      <4>1. A \in SUBSET Boxes(w) /\ B \in SUBSET Boxes(w) /\ u.placed \ placed = A \cup B
        BY <3>2, <3>3, <3>9, <3>10
      <4>2. Neat(A, left, l, row) /\ Neat(B, l, k, row)
        BY <3>3, <3>9
      <4> HIDE DEF A, B
      <4>3. Neat(A \cup B, left, k, row)
        BY <3>7, <4>1, <4>2, NeatTogether
      <4> QED BY <4>1, <4>3
    <3> QED BY <3>1, <3>3, <3>8, <3>9, <3>11 DEF U, s, u, l, k
  <2>5. m \in U
    <3> HIDE DEF U
    <3>1. \A i \in 0..m : i \in U
      BY <1>1, <2>3, <2>4, UpTo
    <3> QED BY <1>1, <3>1
  <2>6. placed \subseteq t /\ Neat(t \ placed, left, left + sum[m], row)
    BY <2>2, <2>5, <2>11
  <2> QED BY <1>5, <1>8, <2>6 DEF t, n
<1>10. CASE n.type # "filter" /\ n.next # NoNode
  <2>1. succ = <<n.next>> /\ m = 1
    BY <1>1, <1>10 DEF Successors, m
  <2>2. t = calls[n.next][left][placed]
    BY <1>10 DEF t, AssignedBelow
  <2>3. succ[1] = n.next /\ 1 \in 1..m
    BY <2>1
  <2>4. sum[m] = WidthOf(widths, n.next)
    <3>1. sum[1] = sum[1 - 1] + WidthOf(widths, n.next) /\ n.next \in Mentioned(w)
      BY <1>1, <1>6, <2>3
    <3>2. widths[n.next] \in Nat
      BY <3>1
    <3>3. WidthOf(widths, n.next) \in Nat
      BY <3>2 DEF WidthOf
    <3> QED BY <1>6, <2>1, <3>1, <3>3
  <2>5. placed \subseteq t /\ Neat(t \ placed, left, left + WidthOf(widths, n.next), row)
    <3>1. n.next \in Mentioned(w) /\ (n.next \in NodeIDs(w) => widths[n.next] # 0)
      BY <1>1, <1>2, <2>3
    <3> QED BY <2>2, <3>1 DEF Placing
  <2>6. Neat(t \ placed, left, left + sum[m], row)
    BY <2>4, <2>5
  <2> QED BY <1>5, <1>8, <2>5, <2>6 DEF t, n
<1>11. CASE n.type # "filter" /\ n.next = NoNode
  <2>1. t = placed /\ t \ placed = {}
    BY <1>11 DEF t, AssignedBelow
  <2>2. Neat(t \ placed, left, left + sum[m], row)
    BY <2>1 DEF Neat
  <2> QED BY <1>5, <1>8, <2>1, <2>2 DEF t, n
<1> QED BY <1>9, <1>10, <1>11

(* The levels of assign.                                                   *)
BoxOf(w, widths, id, left, k) ==
  [id |-> id, depth |-> Len(w.nodes) - k, centre |-> 2 * left + WidthOf(widths, id)]
Assign1(w, widths, calls, k, id, left, placed) ==
  IF ~ Defined(w, id) \/ Drawn(placed, id) \/ k = 0 THEN placed
  ELSE AssignedBelow(widths, calls, NodeMap(w)[id], left, placed \cup {BoxOf(w, widths, id, left, k)})

LEMMA BoxIs ==
  ASSUME NEW w, IsParsed(w), NEW widths \in [Mentioned(w) -> Nat], NEW id \in NodeIDs(w),
         NEW left \in Nat, NEW k \in 0..Len(w.nodes),
         NEW row, row = Len(w.nodes) - k, NEW centre, centre = 2 * left + WidthOf(widths, id)
  PROVE  LET b == BoxOf(w, widths, id, left, k) IN b \in Boxes(w) /\ b.depth = row /\ b.centre = centre
PROOF
<1> DEFINE n == Len(w.nodes)
           c == 2 * left + WidthOf(widths, id)
<1>1. n \in Nat
  BY LenProperties DEF IsParsed, IsList
<1>2. widths[id] \in Nat
  BY DEF Mentioned
<1>3. WidthOf(widths, id) \in Nat
  BY <1>2 DEF WidthOf
<1> HIDE DEF n
<1>4. n - k \in 0..n
  BY <1>1 DEF n
<1>5. c \in Nat
  BY <1>3
<1> HIDE DEF c
<1>6. BoxOf(w, widths, id, left, k) = [id |-> id, depth |-> n - k, centre |-> c]
  BY DEF BoxOf, n, c
<1>7. Boxes(w) = [id : NodeIDs(w), depth : 0..n, centre : Nat]
  BY DEF Boxes, n
<1>8. LET b == BoxOf(w, widths, id, left, k) IN b \in Boxes(w) /\ b.depth = n - k /\ b.centre = c
  BY <1>4, <1>5, <1>6, <1>7
<1> QED BY <1>8 DEF n, c

LEMMA AssignLevels ==
  ASSUME NEW w, IsParsed(w), NEW widths \in [Mentioned(w) -> Nat]
  PROVE  \E assign :
           /\ \A k \in 0..Len(w.nodes) : assign[k] \in Calls(w)
           /\ \A id \in Mentioned(w), left \in Nat, placed \in SUBSET Boxes(w) :
                /\ assign[0][id][left][placed] = placed
                /\ \A k \in 1..Len(w.nodes) :
                     assign[k][id][left][placed] = Assign1(w, widths, assign[k - 1], k, id, left, placed)
           /\ Assign(w, widths) = assign[Len(w.nodes)]
PROOF
<1> DEFINE n == Len(w.nodes)
           M == Mentioned(w)
           P == SUBSET Boxes(w)
           H == Calls(w)
           a == [id \in M |-> [left \in Nat |-> [placed \in P |-> placed]]]
           Higher(h, k) == [id \in M |-> [left \in Nat |-> [placed \in P |->
             Assign1(w, widths, h, k, id, left, placed)]]]
           g == [k \in 1..n |-> [h \in H |-> Higher(h, k)]]
           Level(f, k) == [id \in Mentioned(w) |-> [left \in Nat |-> [placed \in SUBSET Boxes(w) |->
             IF ~ Defined(w, id) \/ Drawn(placed, id) \/ k = 0 THEN placed
             ELSE AssignedBelow(widths, f[k - 1], NodeMap(w)[id], left,
                    placed \cup {[id |-> id, depth |-> Len(w.nodes) - k,
                                   centre |-> 2 * left + WidthOf(widths, id)]})]]]
           Is(f) == f = [k \in 0..Len(w.nodes) |->
             [id \in Mentioned(w) |-> [left \in Nat |-> [placed \in SUBSET Boxes(w) |->
             IF ~ Defined(w, id) \/ Drawn(placed, id) \/ k = 0 THEN placed
             ELSE AssignedBelow(widths, f[k - 1], NodeMap(w)[id], left,
                    placed \cup {[id |-> id, depth |-> Len(w.nodes) - k,
                                   centre |-> 2 * left + WidthOf(widths, id)]})]]]]
<1>1. n \in Nat
  BY LenProperties DEF IsParsed, IsList
<1>2. H = [M -> [Nat -> [P -> P]]]
  BY DEF Calls
<1>3. a \in H
  <2> HIDE DEF M, P, H
  <2> QED BY <1>2
<1>4. ASSUME NEW h \in H, NEW k \in 0..n PROVE Higher(h, k) \in H
  <2>1. ASSUME NEW id \in M, NEW left \in Nat, NEW placed \in P
        PROVE  Assign1(w, widths, h, k, id, left, placed) \in P
    <3>1. CASE ~ Defined(w, id) \/ Drawn(placed, id) \/ k = 0
      BY <3>1 DEF Assign1
    <3>2. CASE ~ (~ Defined(w, id) \/ Drawn(placed, id) \/ k = 0)
      <4> DEFINE b == BoxOf(w, widths, id, left, k)
                 q == placed \cup {b}
      <4>1. id \in NodeIDs(w)
        BY <3>2 DEF Defined
      <4>2. b \in Boxes(w)
        <5> DEFINE row == Len(w.nodes) - k
                   centre == 2 * left + WidthOf(widths, id)
        <5> HIDE DEF b, row, centre
        <5>1. row = Len(w.nodes) - k /\ centre = 2 * left + WidthOf(widths, id)
          BY DEF row, centre
        <5>2. BoxOf(w, widths, id, left, k) \in Boxes(w)
          BY <4>1, <5>1, BoxIs
        <5> QED BY <5>2 DEF b
      <4> HIDE DEF b
      <4>3. q \in SUBSET Boxes(w) /\ NodeMap(w)[id] \in NodesOf(w)
        BY <4>1, <4>2, ParsedNodes
      <4>4. Assign1(w, widths, h, k, id, left, placed) = AssignedBelow(widths, h, NodeMap(w)[id], left, q)
        BY <3>2 DEF Assign1, b
      <4> HIDE DEF q
      <4> QED BY <4>3, <4>4, AssignedTyped
    <3> QED BY <3>1, <3>2
  <2> HIDE DEF M, P, H
  <2> QED BY <1>2, <2>1
<1>5. g \in [1..n -> [H -> H]]
  <2>1. \A k \in 1..n : k \in 0..n
    BY <1>1
  <2> HIDE DEF H, Higher, n
  <2> QED BY <1>4, <2>1
<1> HIDE DEF n
<1>6. PICK f : Steps(f, H, g, a, n)
  <2> HIDE DEF H, g, a
  <2> QED BY <1>1, <1>3, <1>5, Iterated
<1>7. Is(f)
  <2>1. ASSUME NEW k \in 0..n PROVE f[k] = Level(f, k)
    <3>1. CASE k = 0
      <4>1. f[k] = a
        <5> HIDE DEF H, g, a
        <5> QED BY <1>1, <1>6, <3>1 DEF Steps
      <4> HIDE DEF H, g
      <4> QED BY <3>1, <4>1
    <3>2. CASE k # 0
      <4>1. k \in 1..n /\ k - 1 \in 0..n
        BY <1>1, <3>2
      <4>2. f[k - 1] \in H /\ f[k] = g[k][f[k - 1]]
        <5> HIDE DEF H, g, a
        <5> QED BY <1>6, <3>2, <4>1 DEF Steps
      <4>3. f[k] = Higher(f[k - 1], k)
        <5> HIDE DEF H, Higher
        <5> QED BY <4>1, <4>2
      <4> HIDE DEF H, g, a
      <4> QED BY <4>3 DEF Assign1, BoxOf
    <3> QED BY <3>1, <3>2
  <2>2. f = [k \in 0..n |-> f[k]]
    <3> HIDE DEF H, g, a
    <3> QED BY <1>6 DEF Steps
  <2> HIDE DEF Level
  <2>3. f = [k \in 0..n |-> Level(f, k)]
    BY <2>1, <2>2
  <2> QED BY <2>3 DEF Level, n
<1> DEFINE assign == CHOOSE h : Is(h)
<1>8. Is(assign)
  <2> HIDE DEF Is
  <2> QED BY <1>7
<1>9. Assign(w, widths) = assign[n]
  BY DEF Assign, n
<1> HIDE DEF assign
<1>10. assign[0] = a /\ \A k \in 1..n : assign[k] = Higher(assign[k - 1], k)
  <2>1. ASSUME NEW k \in 0..n PROVE assign[k] = Level(assign, k)
    <3> HIDE DEF H, g, a
    <3> QED BY <1>8 DEF n
  <2>2. assign[0] = a
    <3>1. 0 \in 0..n
      BY <1>1
    <3>2. assign[0] = Level(assign, 0)
      BY <2>1, <3>1
    <3> HIDE DEF H, g
    <3> QED BY <3>2
  <2>3. ASSUME NEW k \in 1..n PROVE assign[k] = Higher(assign[k - 1], k)
    <3>1. k \in 0..n
      BY <1>1
    <3>2. assign[k] = Level(assign, k)
      BY <2>1, <3>1
    <3> HIDE DEF H, g, a
    <3> QED BY <3>2 DEF Assign1, BoxOf
  <2> QED BY <2>2, <2>3
<1> HIDE DEF Is, Level
<1> DEFINE U == {k \in 0..n : assign[k] \in H}
<1>11. 0 \in U /\ \A k \in 1..n : k - 1 \in U => k \in U
  <2> HIDE DEF H, a, Higher
  <2>1. 0 \in 0..n /\ \A k \in 1..n : k \in 0..n
    BY <1>1
  <2> QED BY <1>3, <1>4, <1>10, <2>1
<1>12. \A k \in 0..n : k \in U
  <2> HIDE DEF U
  <2> QED BY <1>1, <1>11, UpTo
<1>13. ASSUME NEW id \in M, NEW left \in Nat, NEW placed \in P
       PROVE  /\ assign[0][id][left][placed] = placed
              /\ \A k \in 1..n :
                   assign[k][id][left][placed] = Assign1(w, widths, assign[k - 1], k, id, left, placed)
  <2>1. assign[0][id][left][placed] = placed
    <3> HIDE DEF M, P
    <3> QED BY <1>10
  <2>2. ASSUME NEW k \in 1..n
        PROVE  assign[k][id][left][placed] = Assign1(w, widths, assign[k - 1], k, id, left, placed)
    <3>1. assign[k] = Higher(assign[k - 1], k)
      BY <1>10
    <3> HIDE DEF M, P
    <3> QED BY <3>1
  <2> QED BY <2>1, <2>2
<1> QED BY <1>9, <1>12, <1>13 DEF n

(* Each level keeps what a level promises, from its row on.                *)
LEMMA AssignPlaces ==
  ASSUME NEW w, IsParsed(w), Aimed(w), NEW widths \in [Mentioned(w) -> Nat], Settled(w, widths)
  PROVE  Placing(w, widths, Assign(w, widths), 0)
PROOF
<1> DEFINE n == Len(w.nodes)
<1>1. n \in Nat
  BY LenProperties DEF IsParsed, IsList
<1>2. PICK assign :
        /\ \A k \in 0..n : assign[k] \in Calls(w)
        /\ \A id \in Mentioned(w), left \in Nat, placed \in SUBSET Boxes(w) :
             /\ assign[0][id][left][placed] = placed
             /\ \A k \in 1..n :
                  assign[k][id][left][placed] = Assign1(w, widths, assign[k - 1], k, id, left, placed)
        /\ Assign(w, widths) = assign[n]
  BY AssignLevels
<1> HIDE DEF n
<1>3. ASSUME NEW id \in Mentioned(w), NEW left \in Nat, NEW placed, NEW k
      PROVE  Neat(placed \ placed, left, left + WidthOf(widths, id), k)
  BY DEF Neat
<1> DEFINE U == {k \in 0..n : Placing(w, widths, assign[k], n - k)}
<1>4. 0 \in U
  <2>1. 0 \in 0..n /\ assign[0] \in Calls(w)
    BY <1>1, <1>2
  <2>2. ASSUME NEW id \in Mentioned(w), NEW left \in Nat, NEW placed \in SUBSET Boxes(w)
        PROVE  LET t == assign[0][id][left][placed]
               IN placed \subseteq t /\ Neat(t \ placed, left, left + WidthOf(widths, id), n - 0)
    <3>1. assign[0][id][left][placed] = placed
      BY <1>2
    <3> QED BY <1>3, <3>1
  <2> QED BY <2>1, <2>2 DEF Placing
<1>5. ASSUME NEW k \in 1..n, k - 1 \in U PROVE k \in U
  <2>1. /\ k \in 0..n /\ assign[k] \in Calls(w) /\ n - k \in Nat /\ n - (k - 1) = n - k + 1 /\ k # 0
        /\ n - k + 1 \in Nat /\ Placing(w, widths, assign[k - 1], n - (k - 1))
    BY <1>1, <1>2, <1>5
  <2> DEFINE calls == assign[k - 1]
             d == n - k
  <2>2. Placing(w, widths, calls, d + 1) /\ d \in Nat /\ d + 1 \in Nat
    BY <2>1
  <2> HIDE DEF d
  <2>3. ASSUME NEW id \in Mentioned(w), NEW left \in Nat, NEW placed \in SUBSET Boxes(w),
               id \in NodeIDs(w) => widths[id] # 0
        PROVE  LET t == assign[k][id][left][placed]
               IN placed \subseteq t /\ Neat(t \ placed, left, left + WidthOf(widths, id), d)
    <3> DEFINE t == assign[k][id][left][placed]
    <3>1. t = Assign1(w, widths, calls, k, id, left, placed)
      BY <1>2
    <3> HIDE DEF calls, t
    <3>2. CASE ~ Defined(w, id) \/ Drawn(placed, id) \/ k = 0
      <4>1. t = placed
        BY <3>1, <3>2 DEF Assign1
      <4> QED BY <1>3, <4>1 DEF t
    <3>3. CASE ~ (~ Defined(w, id) \/ Drawn(placed, id) \/ k = 0)
      <4> DEFINE b == BoxOf(w, widths, id, left, k)
                 q == placed \cup {b}
                 v == widths[id]
      <4>1. id \in NodeIDs(w) /\ v # 0 /\ v \in Nat /\ WidthOf(widths, id) = v
        BY <2>3, <3>3 DEF Defined, WidthOf
      <4>2. b \in Boxes(w) /\ b.depth = d /\ b.centre = 2 * left + v
        <5> DEFINE c == 2 * left + v
        <5>1. k \in 0..Len(w.nodes) /\ d = Len(w.nodes) - k /\ c = 2 * left + WidthOf(widths, id)
          BY <2>1, <4>1 DEF d, n
        <5> HIDE DEF v, b, c
        <5>2. BoxOf(w, widths, id, left, k) \in Boxes(w) /\ BoxOf(w, widths, id, left, k).depth = d
              /\ BoxOf(w, widths, id, left, k).centre = c
          BY <4>1, <5>1, BoxIs
        <5> QED BY <5>2 DEF b, c
      <4>3. t = AssignedBelow(widths, calls, NodeMap(w)[id], left, q)
        BY <3>1, <3>3 DEF Assign1
      <4> HIDE DEF b
      <4>4. q \in SUBSET Boxes(w) /\ placed \subseteq q
        BY <4>2
      <4> HIDE DEF q
      <4>5. /\ t \in SUBSET Boxes(w) /\ q \subseteq t
            /\ \E right \in Nat : left <= right /\ right <= left + v /\ Neat(t \ q, left, right, d + 1)
        <5> DEFINE e == d + 1
        <5>1. e \in Nat /\ Placing(w, widths, calls, e)
          BY <2>2
        <5> HIDE DEF e
        <5>2. LET x == AssignedBelow(widths, calls, NodeMap(w)[id], left, q) IN
              /\ x \in SUBSET Boxes(w) /\ q \subseteq x
              /\ \E right \in Nat : left <= right /\ right <= left + widths[id] /\ Neat(x \ q, left, right, e)
          BY <4>1, <4>4, <5>1, AssignedNeat
        <5> QED BY <4>3, <5>2 DEF e
      <4>6. PICK right \in Nat : left <= right /\ right <= left + v /\ Neat(t \ q, left, right, d + 1)
        BY <4>5
      <4> DEFINE A == t \ q
      <4>7. A \in SUBSET Boxes(w) /\ Neat(A, left, right, d + 1)
        BY <4>5, <4>6
      <4>8. t \ placed \subseteq A \cup {b}
        BY DEF q
      <4> HIDE DEF A, v
      <4>9. left + v \in Nat /\ 2 * left + 1 <= b.centre /\ b.centre <= 2 * (left + v) - 1
        BY <4>1, <4>2
      <4>10. Neat(A \cup {b}, left, left + v, d)
        <5> DEFINE s == left + v
        <5>1. s \in Nat /\ right <= s /\ b.centre <= 2 * s - 1
          BY <4>6, <4>9
        <5> HIDE DEF s
        <5>2. Neat(A \cup {b}, left, s, d)
          BY <2>2, <4>2, <4>6, <4>7, <4>9, <5>1, NeatUnder
        <5> QED BY <5>2 DEF s
      <4>11. Neat(t \ placed, left, left + v, d)
        BY <4>8, <4>10, NeatPart
      <4> QED BY <4>1, <4>4, <4>5, <4>11 DEF t
    <3> QED BY <3>2, <3>3
  <2>4. Placing(w, widths, assign[k], d)
    BY <2>1, <2>3 DEF Placing
  <2> QED BY <2>1, <2>4 DEF d
<1>6. n \in U
  <2> HIDE DEF U
  <2>1. \A k \in 0..n : k \in U
    BY <1>1, <1>4, <1>5, UpTo
  <2> QED BY <1>1, <2>1
<1>7. n - n = 0
  BY <1>1
<1> QED BY <1>2, <1>6, <1>7

LEMMA PlacedApart ==
  ASSUME NEW w, IsParsed(w), Aimed(w), ~ HasCycle(w), Defined(w, w.start),
         NEW p \in Placed(w), NEW q \in Placed(w), Overlap(p, q)
  PROVE  p = q
PROOF
<1> DEFINE W == Widths(w)
           placed == {}
           t == Assign(w, W)[w.start][0][placed]
<1>1. W \in [Mentioned(w) -> Nat] /\ Settled(w, W) /\ W[w.start] # 0
  BY WidthsFit
<1>2. w.start \in Mentioned(w) /\ 0 \in Nat /\ placed \in SUBSET Boxes(w)
  BY DEF Mentioned
<1>3. Placed(w) = t
  BY DEF Placed
<1>4. t \ placed = t
  OBVIOUS
<1> HIDE DEF W, placed
<1>5. Placing(w, W, Assign(w, W), 0)
  BY <1>1, AssignPlaces
<1>6. Neat(t \ placed, 0, 0 + WidthOf(W, w.start), 0)
  BY <1>1, <1>2, <1>5 DEF Placing
<1> QED BY <1>3, <1>4, <1>6 DEF Neat

(* No box of the tree of a definition without a cycle hides another, merged*)
(* edges and undefined references included: what the editor draws can be   *)
(* read and clicked on.                                                    *)
THEOREM BoxesStayApart == Spec => []BoxesApart
PROOF
<1>1. ASSUME Judged PROVE BoxesApart
  <2> DEFINE w == toWorkflowDef(wf)
  <2>1. IsParsed(w)
    BY <1>1, JudgedParsed, HandedOver
  <2> HIDE DEF w
  <2>2. ASSUME Defined(w, w.start), ~ HasCycle(w), \A e \in Edges(w) : e[3] # NoNode
        PROVE  \A p, q \in Placed(w) : Overlap(p, q) => p = q
    BY <2>1, <2>2, PlacedApart DEF Aimed
  <2> QED BY <2>2 DEF BoxesApart, w
<1> QED BY <1>1, JudgedInductive, PTL
=============================================================================
