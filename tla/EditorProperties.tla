-------------------------- MODULE EditorProperties --------------------------
(***************************************************************************)
(* What editing promises of the definition under edit.                     *)
(***************************************************************************)
EXTENDS WorkflowEditor

UniqueIds(w) == \A j, k \in 1..Len(w.nodes) : w.nodes[j].id = w.nodes[k].id => j = k
Acyclic(w)   == \A id \in NodeIDs(w) : \A s \in Onward(w, id) : id \notin Reach(w, s)

ASSUME AcyclicExamples == \A e \in Examples : Acyclic(e)

(* Only filters have branches and only other nodes a next node, in the     *)
(* store and in a draft, whatever types a node had before.                 *)
TypeOK ==
  /\ wf \in Definition /\ \A n \in NodesOf(wf) : Fits(n)
  /\ wiring \in Names \cup {NoNode}
  /\ dialog.open => /\ dialog.draft \in Node /\ Fits(dialog.draft)
                    /\ dialog.opened = NoNode <=> dialog.isNew

(* Deleting, renaming and replacing nodes leaves a start as long as there  *)
(* are nodes: without one renderGraph draws nothing, so nothing could be   *)
(* clicked any more.                                                       *)
StartDefined == IF wf.nodes = <<>> THEN wf.start = NoNode ELSE Defined(wf, wf.start)

(* connect "no-ops if it would create a self-loop or cycle"; nor does the  *)
(* automatic wiring of a registered handler close one.  Only a draft can.  *)
GesturesKeepAcyclic ==
  [][~ dialog.open /\ UniqueIds(wf) /\ Acyclic(wf) => Acyclic(wf')]_vars

(* autoWireNewNode connects a new node "so it shows up in the graph        *)
(* immediately": it hangs below the start whenever there was an open end.  *)
OpenEnds(w) == {id \in Reach(w, w.start) \cap NodeIDs(w) :
                  NodeMap(w)[id].type # "filter" /\ Onward(w, id) = {}}
AddedIsReachable ==
  [][Len(wf'.nodes) = Len(wf.nodes) + 1 /\ UniqueIds(wf)
       /\ (wf.nodes = <<>> \/ OpenEnds(wf) # {})
     => \A id \in NodeIDs(wf') \ NodeIDs(wf) : id \in Reach(wf', wf'.start)]_vars

(* References are kept up: one that names no node appears only when a node *)
(* is saved under a new id with its former id as a target.                 *)
Targets(ns)  == (UNION {Range(Successors(ns[k])) : k \in 1..Len(ns)}) \ {NoNode}
Dangling(w)  == Targets(w.nodes) \ NodeIDs(w)
NamesItsFormerSelf ==
  dialog.open /\ dialog.draft.id # dialog.opened /\ dialog.opened \in Targets(<<dialog.draft>>)
ReferencesKept ==
  [][Dangling(wf') \subseteq Dangling(wf) \/ NamesItsFormerSelf]_vars

(* graph.ts:10, "Click any node to invoke onSelect", and with it the node's*)
(* dialog: every node can be opened.                                       *)
NoNodeHidden ==
  \A k \in 1..Len(wf.nodes) : \E id \in Drawn(wf) : Position(wf, id) = k
=============================================================================
