------------------------------ MODULE Workflow ------------------------------
(***************************************************************************)
(* A workflow definition as the Go packages model and engine see it after  *)
(* parsing: a start id and a list of nodes.  A node is a record            *)
(*     [id, type, worker, branches, next, reads, produces]                 *)
(* where branches is a sequence of [cond, next] records.  Ids are strings  *)
(* and NoNode, the empty string, stands for an absent next_node, exactly   *)
(* as the zero value does in Go.                                           *)
(***************************************************************************)
EXTENDS Naturals, Sequences, FiniteSets

NoNode   == ""
NoWorker == ""

LinearTypes == {"enhancer", "action"}
NodeTypes   == LinearTypes \cup {"filter"}

NodesOf(w) == {w.nodes[k] : k \in 1..Len(w.nodes)}

(* What parsing guarantees of any definition: its lists are lists.         *)
IsList(s)  == s \in Seq({s[k] : k \in DOMAIN s})
IsParsed(w) == IsList(w.nodes) /\ \A n \in NodesOf(w) : IsList(n.branches)

(* And of its records: they have their fields.                             *)
HasFields(w) ==
  /\ {"start", "nodes"} \subseteq DOMAIN w
  /\ \A n \in NodesOf(w) :
       /\ {"id", "type", "branches", "next", "reads", "produces"} \subseteq DOMAIN n
       /\ \A i \in 1..Len(n.branches) : "next" \in DOMAIN n.branches[i]

(* What filtering a list keeps: the elements at some places, in their order. *)
Picked(list, places) ==
  [j \in 1..Cardinality(places) |->
     list[CHOOSE k \in places : Cardinality({l \in places : l <= k}) = j]]

(* Node.Successors: a filter has one edge per branch, any other node has   *)
(* the edge of its next_node when there is one.                            *)
Successors(n) ==
  IF n.type = "filter"
  THEN [i \in 1..Len(n.branches) |-> n.branches[i].next]
  ELSE IF n.next = NoNode THEN <<>> ELSE <<n.next>>

NodeIDs(w) == {n.id : n \in NodesOf(w)}

(* NodeMap dedupes silently: of two nodes with one id the later one wins.  *)
NodeMap(w) ==
  [id \in NodeIDs(w) |->
     w.nodes[CHOOSE k \in 1..Len(w.nodes) :
               /\ w.nodes[k].id = id
               /\ \A l \in (k + 1)..Len(w.nodes) : w.nodes[l].id # id]]

Defined(w, id) == id \in NodeIDs(w)

(* The edges of a definition: the i-th successor of node n.                *)
Edges(w) == UNION {{<<n.id, i, Successors(n)[i]>> :
                       i \in 1..Len(Successors(n))} : n \in NodesOf(w)}

(* What README.md calls a non-merging workflow, and what the validator is  *)
(* to guarantee to the engine: every id has at most one incoming edge and  *)
(* the start has none.                                                     *)
IsTree(w) ==
  /\ \A e, f \in Edges(w) : e[3] = f[3] => e = f
  /\ \A e \in Edges(w) : e[3] # w.start
=============================================================================
