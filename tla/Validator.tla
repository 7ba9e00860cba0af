------------------------------ MODULE Validator ------------------------------
(***************************************************************************)
(* The rules a definition is validated by: internal/model's                *)
(* ValidateWithSchema and ValidateDataFlow ("go"), behind `steppr          *)
(* validate` and `steppr run`, and the SDK's validator.ts ("ts"), behind   *)
(* the simulator's buttons.  The two take the same steps but in one place. *)
(* An error is a tuple of its kind and the ids its message names.          *)
(***************************************************************************)
EXTENDS Workflow

CONSTANT NoSchema   \* initialFields left out: no data-flow check is asked for

Dialects == {"go", "ts"}

Positions(w) == 1..Len(w.nodes)

(* The ids a definition speaks of, and those one step from an id, where    *)
(* the code looks the id up in the node map.                               *)
Mentioned(w) == NodeIDs(w) \cup {w.start} \cup {e[3] : e \in Edges(w)}
Children(w, id) ==
  IF Defined(w, id)
  THEN LET succ == Successors(NodeMap(w)[id]) IN {succ[i] : i \in 1..Len(succ)}
  ELSE {}

-----------------------------------------------------------------------------
(* Rules 1 to 4.                                                           *)

DuplicateErrors(w) ==
  {<<"duplicate", w.nodes[k].id>> :
     k \in {l \in Positions(w) : \E m \in 1..(l - 1) : w.nodes[m].id = w.nodes[l].id}}

StartErrors(w) == IF Defined(w, w.start) THEN {} ELSE {<<"start", w.start>>}

StructureErrors(w) ==
  LET bad(n) ==
        IF n.type \notin NodeTypes THEN {"type"}
        ELSE IF n.type = "filter"
             THEN {e \in {"no branch", "next on filter", "branch to nowhere"} :
                     \/ e = "no branch" /\ n.branches = <<>>
                     \/ e = "next on filter" /\ n.next # NoNode
                     \/ /\ e = "branch to nowhere"
                        /\ \E i \in 1..Len(n.branches) : n.branches[i].next = NoNode}
             ELSE IF n.branches # <<>> THEN {"branches on linear"} ELSE {}
  IN UNION {{<<e, n.id>> : e \in bad(n)} : n \in NodesOf(w)}

ReferenceErrors(w) ==
  {<<"undefined", e[1], e[3]>> : e \in {f \in Edges(w) : ~ Defined(w, f[3])}}

-----------------------------------------------------------------------------
(* Rule 5: inDegree counts every occurrence, so two branches of one filter *)
(* that name the same node count twice.                                    *)
InDegree(w, id) ==
  Cardinality(UNION {{<<k, i>> : i \in {j \in 1..Len(Successors(w.nodes[k])) :
                                           Successors(w.nodes[k])[j] = id}} :
                       k \in Positions(w)})

(* The slip: counting the predecessors and not the edges.                  *)
PredecessorErrors(w) ==
  {<<"merging", e[3]>> : e \in {f \in Edges(w) :
     Cardinality({k \in Positions(w) : \E i \in 1..Len(Successors(w.nodes[k])) :
                    Successors(w.nodes[k])[i] = f[3]}) > 1}}
MergingErrors(w) ==
  {<<"merging", e[3]>> : e \in {f \in Edges(w) : InDegree(w, f[3]) > 1}}

(* Rule 6: three-colour depth-first search.  An undefined id is coloured   *)
(* gray and stays so; when a cycle is found the search unwinds and leaves  *)
(* the ids of its path gray.                                               *)
Searches(w) ==
  [gray : SUBSET Mentioned(w), black : SUBSET NodeIDs(w),
   cycles : SUBSET ({"cycle"} \X NodeIDs(w) \X Mentioned(w)), found : BOOLEAN]
Unsearched  == [gray |-> {}, black |-> {}, cycles |-> {}, found |-> FALSE]

Grayed(s, id)    == [s EXCEPT !.gray = @ \cup {id}]
Blackened(s, id) == [gray |-> s.gray \ {id}, black |-> s.black \cup {id},
                     cycles |-> s.cycles, found |-> FALSE]
CycleFound(s, id, to) == [gray |-> s.gray, black |-> s.black,
                          cycles |-> s.cycles \cup {<<"cycle", id, to>>}, found |-> TRUE]

(* The successor to of id is looked at, and the loop over all of them;     *)
(* calls are what dfs does of an id and a state of the search.             *)
Look(calls, id, to, s) ==
  IF s.found THEN s
  ELSE IF to \in s.gray THEN CycleFound(s, id, to)
  ELSE IF to \in s.black THEN s ELSE calls[to][s]

Scan(w, calls, id, s) ==
  LET succ == Successors(NodeMap(w)[id])
      scan[i \in 0..Len(succ)] ==
        IF i = 0 THEN Grayed(s, id) ELSE Look(calls, id, succ[i], scan[i - 1])
      last == scan[Len(succ)]
  IN IF last.found THEN last ELSE Blackened(last, id)

(* dfs nests one call deeper for each id on its path, so as many levels as *)
(* nodes and one for an undefined id are enough.                           *)
Dfs(w) ==
  LET dfs[depth \in 0..Len(w.nodes)] ==
        [id \in Mentioned(w) |-> [s \in Searches(w) |->
           IF Defined(w, id) /\ depth > 0 THEN Scan(w, dfs[depth - 1], id, s)
           ELSE Grayed(s, id)]]
  IN dfs[Len(w.nodes)]

SearchFrom(dfs, id, s) ==
  IF id \in s.gray \cup s.black THEN s ELSE dfs[id][[s EXCEPT !.found = FALSE]]

(* The slip: searching from the start node only.                           *)
SearchedFromStart(w) == Dfs(w)[w.start][Unsearched].cycles
CycleErrors(w) ==
  LET dfs == Dfs(w)
      search[k \in 0..Len(w.nodes)] ==
        IF k = 0 THEN Unsearched ELSE SearchFrom(dfs, w.nodes[k].id, search[k - 1])
  IN search[Len(w.nodes)].cycles

(* Rule 7: the walk, from the start.                                       *)
Walk(w, seen) ==
  LET walked[k \in 0..Len(w.nodes)] ==
        IF k = 0 THEN seen
        ELSE walked[k - 1] \cup UNION {Children(w, id) : id \in walked[k - 1]}
  IN walked[Len(w.nodes)]

(* Without a start nothing is reached in Go; TypeScript skips the rule.    *)
UnreachableErrors(d, w) ==
  IF Defined(w, w.start)
  THEN {<<"unreachable", id>> : id \in NodeIDs(w) \ Walk(w, {w.start})}
  ELSE {<<"unreachable", id>> : id \in {i \in NodeIDs(w) : d = "go"}}

-----------------------------------------------------------------------------
(* Rule 8, ValidateDataFlow: visit(node) with the fields available to it.  *)
(* A node's produces are added for its descendants whatever its type.      *)
VisitsBelow(w, v) ==
  {<<id, v[2] \cup NodeMap(w)[v[1]].produces>> : id \in Children(w, v[1]) \cap NodeIDs(w)}
Visits(w, initial) ==
  LET visits[k \in 0..Len(w.nodes)] ==
        IF k = 0 THEN {<<w.start, initial>>}
        ELSE visits[k - 1] \cup UNION {VisitsBelow(w, v) : v \in visits[k - 1]}
  IN visits[Len(w.nodes)]

(* The slip: adding them before the node's own reads are looked up.        *)
MissingLate(n, available) == n.reads \ (available \cup n.produces)
Missing(n, available)     == n.reads \ available

DataFlowErrors(w, initial) ==
  IF Defined(w, w.start)
  THEN UNION {{<<"reads", v[1], f>> : f \in Missing(NodeMap(w)[v[1]], v[2])} :
                v \in Visits(w, initial)}
  ELSE {}

ValidateWithSchema(d, w, initial) ==
  LET structural == DuplicateErrors(w) \cup StartErrors(w) \cup StructureErrors(w)
                    \cup ReferenceErrors(w) \cup MergingErrors(w)
                    \cup CycleErrors(w) \cup UnreachableErrors(d, w)
  IN IF initial # NoSchema /\ structural = {} THEN DataFlowErrors(w, initial) ELSE structural

-----------------------------------------------------------------------------
(* A well-formed definition, said without a search: ids are unique, each   *)
(* node has the shape of its type, edges lead to defined nodes, no id has  *)
(* two incoming edges, and the nodes can be ranked so that the start alone *)
(* has rank 0 and every edge goes down one rank to a node that has one.    *)
WellShaped(n) ==
  \/ n.type \in LinearTypes /\ n.branches = <<>>
  \/ /\ n.type = "filter" /\ n.branches # <<>> /\ n.next = NoNode
     /\ \A i \in 1..Len(n.branches) : n.branches[i].next # NoNode

Ranked(w) ==
  \E rank \in [NodeIDs(w) -> 0..Len(w.nodes)] :
    /\ \A id \in NodeIDs(w) : rank[id] = 0 <=> id = w.start
    /\ \A e \in Edges(w) : rank[e[3]] = rank[e[1]] + 1
    /\ \A id \in NodeIDs(w) \ {w.start} : \E e \in Edges(w) : e[3] = id

WellFormed(w) ==
  /\ \A k, l \in Positions(w) : w.nodes[k].id = w.nodes[l].id => k = l
  /\ Defined(w, w.start)
  /\ \A n \in NodesOf(w) : WellShaped(n)
  /\ \A e \in Edges(w) : Defined(w, e[3])
  /\ IsTree(w)
  /\ Ranked(w)

(* Proper ancestors of an id, by the edges.                                *)
OnPath(w, a, b) == b \in Walk(w, Children(w, a))

HasCycle(w) == \E id \in NodeIDs(w) : OnPath(w, id, id)
=============================================================================
