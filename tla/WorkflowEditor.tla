--------------------------- MODULE WorkflowEditor ---------------------------
(***************************************************************************)
(* The web editor: the definition under edit (workflow-store.ts), the node *)
(* dialog (node-editor.ts) and the gestures on the graph (main.ts).  It    *)
(* runs on one thread, so each listener is one action; every change of the *)
(* store redraws the graph and is written to localStorage in that action,  *)
(* hence a reload keeps the definition and drops dialog and wiring.  An    *)
(* open dialog covers the page.                                            *)
(*                                                                         *)
(* Conditions, labels, schemas and stub outputs are left out; a removed    *)
(* edge, which the code finds by target and label, is any with its target. *)
(***************************************************************************)
EXTENDS Workflow, SequencesExt

CONSTANTS
  Examples,         \* definitions that may be loaded, one of them at first
  Handlers,         \* [id, type] of the registered handlers
  TypedIds,         \* what a user may type as a node's id
  Numbered(_, _),   \* the id made of a type and a number
  MaxNodes, MaxBranches,   \* bounds on a definition
  MaxEdits                 \* bound on the changes made to it and to drafts

VARIABLES
  wf,       \* the definition: start and nodes
  wiring,   \* wiringSourceId, NoNode when not wiring
  dialog,   \* the open node editor
  edits     \* how often wf or a draft was changed, for the bound

vars == <<wf, wiring, dialog, edits>>

NoDialog == [open |-> FALSE]
Names == TypedIds \cup {h.id : h \in Handlers} \cup (UNION {NodeIDs(e) : e \in Examples})
         \cup {Numbered(t, k) : t \in NodeTypes, k \in 1..(2 * MaxNodes + 1)}

(* Only filters have branches and only other nodes a next node.            *)
Node   == [id : Names, type : NodeTypes, next : Names \cup {NoNode},
           branches : Seq([next : Names \cup {NoNode}])]
Fits(n) == IF n.type = "filter" THEN n.next = NoNode ELSE n.branches = <<>>
Definition == [start : Names \cup {NoNode}, nodes : Seq(Node)]

Small(w) ==
  Len(w.nodes) <= MaxNodes /\ \A n \in NodesOf(w) : Len(n.branches) <= MaxBranches

(* What is known of the examples and the registered handlers.              *)
ASSUME EditorAssumption ==
  /\ MaxNodes \in Nat
  /\ \A e \in Examples :
       /\ e \in Definition /\ Small(e) /\ Defined(e, e.start)
       /\ \A n \in NodesOf(e) :
            Fits(n) /\ n.id # NoNode /\ Range(Successors(n)) \subseteq NodeIDs(e) \cup {NoNode}
  /\ \A h \in Handlers : h.type \in LinearTypes /\ h.id # NoNode
  /\ \A t \in NodeTypes : \A j, k \in 1..(2 * MaxNodes + 1) :
       Numbered(t, j) = Numbered(t, k) => j = k

-----------------------------------------------------------------------------
(* Lookups.  find and findIndex take the first of two nodes with one id,   *)
(* maps by id take the last.                                               *)
Position(w, id) == SelectInSeq(w.nodes, LAMBDA n : n.id = id)
Found(w, id)    == w.nodes[Position(w, id)]
Onward(w, id) == IF Defined(w, id) THEN Range(Successors(NodeMap(w)[id])) \ {NoNode} ELSE {}

Reach(w, id) ==
  LET far[k \in 0..Len(w.nodes)] ==
        IF k = 0 THEN {id} ELSE far[k - 1] \cup UNION {Onward(w, x) : x \in far[k - 1]}
  IN far[Len(w.nodes)]

(* What renderGraph draws: the tree below the start and, apart, all other  *)
(* nodes, a box for each id; and nothing at all without a start.           *)
Drawn(w) == IF Defined(w, w.start) THEN NodeIDs(w) ELSE {}
DrawnEdges(w) ==
  {e \in (Reach(w, w.start) \cap Drawn(w)) \X Drawn(w) : e[2] \in Onward(w, e[1])}

-----------------------------------------------------------------------------
(* The operations of WorkflowStore.                                        *)
Redirect(ref, old, new) == IF ref = old THEN new ELSE ref

(* Every reference to old becomes one to new.  The slip: forgetting the    *)
(* branches.                                                               *)
NextsRedirected(ns, old, new) ==
  [k \in 1..Len(ns) |-> [ns[k] EXCEPT !.next = Redirect(@, old, new)]]
Redirected(ns, old, new) ==
  [k \in 1..Len(ns) |->
     [ns[k] EXCEPT !.next = Redirect(@, old, new),
                   !.branches = [i \in 1..Len(@) |-> [next |-> Redirect(@[i].next, old, new)]]]]

Put(w, id, n) ==
  IF Defined(w, id) THEN [w EXCEPT !.nodes[Position(w, id)] = n]
  ELSE [w EXCEPT !.nodes = Append(@, n)]

upsertNode(w, n, old) ==
  IF old = NoNode \/ old = n.id THEN Put(w, n.id, n)
  ELSE Put([start |-> Redirect(w.start, old, n.id),
            nodes |-> Redirected(w.nodes, old, n.id)], old, n)

(* The slip: looking one step ahead only.                                  *)
wouldCloseTriangle(w, s, t) == s \in {t} \cup Onward(w, t)
wouldCreateCycle(w, s, t) == s \in Reach(w, t)

connect(w, s, t) ==
  IF s = t \/ ~ Defined(w, s) \/ ~ Defined(w, t) \/ wouldCreateCycle(w, s, t) THEN w
  ELSE IF Found(w, s).type = "filter"
  THEN [w EXCEPT !.nodes[Position(w, s)].branches = Append(@, [next |-> t])]
  ELSE [w EXCEPT !.nodes[Position(w, s)].next = t]

(* The definitions that disconnecting t from s may leave.                  *)
disconnect(w, s, t) ==
  LET n == Found(w, s)
  IN IF ~ Defined(w, s) THEN {w}
     ELSE IF n.type = "filter"
     THEN {[w EXCEPT !.nodes[Position(w, s)].branches = RemoveAt(@, i)] :
             i \in {i \in 1..Len(n.branches) : n.branches[i].next = t}}
     ELSE {[w EXCEPT !.nodes[Position(w, s)].next = Redirect(@, t, NoNode)]}

(* The slip: leaving the start to dangle.                                  *)
Without(ns, id) == Redirected(Picked(ns, {k \in 1..Len(ns) : ns[k].id # id}), id, NoNode)
StartKept(w, id) == [w EXCEPT !.nodes = Without(@, id)]
deleteNode(w, id) ==
  LET ns == Without(w.nodes, id)
  IN [start |-> IF w.start # id THEN w.start ELSE IF ns = <<>> THEN NoNode ELSE ns[1].id,
      nodes |-> ns]

-----------------------------------------------------------------------------
(* Adding a node: its id, and the edge that leads to it.                   *)
uniqueId(w, type) ==
  LET size == Cardinality(NodeIDs(w))
      free == {i \in (size + 1)..(2 * size + 1) : Numbered(type, i) \notin NodeIDs(w)}
  IN Numbered(type, CHOOSE i \in free : \A j \in free : i <= j)

(* The ids findTerminal is called with, in the order of the first calls:   *)
(* depth first from the start, not going past newId.  The slip: not going  *)
(* back to a filter's other branches.                                      *)
FirstBranchVisited(w, newId) ==
  LET visit[todo \in Seq(Names \cup {NoNode}), seen \in Seq(Names \cup {NoNode})] ==
        LET id == todo[1]
        IN IF todo = <<>> \/ id \in Range(seen) THEN seen
           ELSE visit[IF id = newId \/ Onward(w, id) = {} THEN <<>>
                      ELSE <<Successors(NodeMap(w)[id])[1]>>, Append(seen, id)]
  IN visit[<<w.start>>, <<>>]
Visited(w, newId) ==
  LET visit[todo \in Seq(Names \cup {NoNode}), seen \in Seq(Names \cup {NoNode})] ==
        LET id     == Head(todo)
            onward == IF id = newId \/ ~ Defined(w, id) THEN <<>>
                      ELSE Successors(NodeMap(w)[id])
        IN IF todo = <<>> THEN seen
           ELSE IF id \in Range(seen) THEN visit[Tail(todo), seen]
           ELSE visit[onward \o Tail(todo), Append(seen, id)]
  IN visit[<<w.start>>, <<>>]

(* The first of them that is an open end.                                  *)
IsTerminal(w, newId, id) ==
  /\ id # newId /\ Defined(w, id)
  /\ NodeMap(w)[id].type # "filter" /\ NodeMap(w)[id].next = NoNode
findTerminal(w, newId) ==
  LET ids  == Visited(w, newId)
      ends == {k \in 1..Len(ids) : IsTerminal(w, newId, ids[k])}
  IN IF ends = {} THEN NoNode ELSE ids[Min(ends)]

autoWireNewNode(w, newId) ==
  LET t == findTerminal(w, newId)
  IN IF t = NoNode THEN w
     ELSE upsertNode(w, [NodeMap(w)[t] EXCEPT !.next = newId], NoNode)

Added(w, n) ==
  LET u == upsertNode(w, n, NoNode)
  IN IF Len(u.nodes) = 1 THEN [u EXCEPT !.start = n.id] ELSE autoWireNewNode(u, n.id)

Edit == edits < MaxEdits /\ edits' = edits + 1
Change(w) == Edit /\ wf' = w /\ Small(w)

-----------------------------------------------------------------------------
Init ==
  /\ wf \in Examples
  /\ wiring = NoNode /\ dialog = NoDialog /\ edits = 0

loadExample(e) ==
  /\ ~ dialog.open
  /\ Change(e)
  /\ UNCHANGED <<wiring, dialog>>

(* The browser reloads the page, or crashes and comes back.                *)
Reload ==
  /\ wiring' = NoNode /\ dialog' = NoDialog
  /\ UNCHANGED <<wf, edits>>

(* onSelect: a click on a drawn node opens the first node of that id.      *)
Candidates(d) == NodeIDs(wf) \ {d.id}
OpenEditor(id) ==
  /\ ~ dialog.open /\ wiring = NoNode /\ id \in Drawn(wf) /\ edits < MaxEdits
  /\ dialog' = [open |-> TRUE, isNew |-> FALSE, opened |-> id, draft |-> Found(wf, id),
                offered |-> NodeIDs(wf) \ {id}]
  /\ UNCHANGED <<wf, wiring, edits>>

openCustomEditor(type) ==
  LET n == [id |-> uniqueId(wf, type), type |-> type, next |-> NoNode, branches |-> <<>>]
  IN /\ ~ dialog.open /\ edits < MaxEdits
     /\ dialog' = [open |-> TRUE, isNew |-> TRUE, opened |-> NoNode, draft |-> n,
                   offered |-> NodeIDs(wf) \ {n.id}]
     /\ UNCHANGED <<wf, wiring, edits>>

(* Changes to the draft.  Some render the dialog anew, and only then does  *)
(* it offer other targets.                                                 *)
Draft(d) ==
  /\ dialog.open /\ Edit
  /\ dialog' = [dialog EXCEPT !.draft = d]
  /\ UNCHANGED <<wf, wiring>>
DraftAndRender(d) ==
  /\ dialog.open /\ Edit
  /\ dialog' = [dialog EXCEPT !.draft = d, !.offered = Candidates(d)]
  /\ UNCHANGED <<wf, wiring>>

TypeId(id) == Draft([dialog.draft EXCEPT !.id = id])

(* The slip: keeping next_node when a node becomes a filter.               *)
Retyped(d, t) == [d EXCEPT !.type = t, !.branches = IF t = "filter" THEN @ ELSE <<>>]
OfType(d, t) ==
  [d EXCEPT !.type = t, !.branches = IF t = "filter" THEN @ ELSE <<>>,
            !.next = IF t = "filter" THEN NoNode ELSE @]
PickType(t) == DraftAndRender(OfType(dialog.draft, t))

PickHandler(h) ==
  /\ dialog.draft.type = h.type
  /\ DraftAndRender([dialog.draft EXCEPT !.id = h.id])

PickNext(id) ==
  /\ dialog.draft.type # "filter"
  /\ id \in dialog.offered \cup {NoNode}
  /\ Draft([dialog.draft EXCEPT !.next = id])

AddBranch ==
  /\ dialog.draft.type = "filter" /\ Len(dialog.draft.branches) < MaxBranches
  /\ DraftAndRender([dialog.draft EXCEPT !.branches = Append(@, [next |-> NoNode])])

RemoveBranch(i) ==
  DraftAndRender([dialog.draft EXCEPT !.branches = RemoveAt(@, i)])

PickTarget(i, id) ==
  /\ id \in dialog.offered
  /\ Draft([dialog.draft EXCEPT !.branches[i].next = id])

Save ==
  /\ dialog.open /\ dialog.draft.id # NoNode
  /\ Change(IF dialog.isNew THEN Added(wf, dialog.draft)
            ELSE upsertNode(wf, dialog.draft, dialog.opened))
  /\ dialog' = NoDialog
  /\ UNCHANGED wiring

DeleteNode ==
  /\ dialog.open /\ ~ dialog.isNew
  /\ Change(deleteNode(wf, dialog.opened))
  /\ dialog' = NoDialog
  /\ UNCHANGED wiring

MakeStart ==
  /\ dialog.open /\ ~ dialog.isNew /\ wf.start # dialog.opened
  /\ Change([wf EXCEPT !.start = dialog.opened])
  /\ dialog' = NoDialog
  /\ UNCHANGED wiring

Cancel ==
  /\ dialog.open /\ dialog' = NoDialog
  /\ UNCHANGED <<wf, wiring, edits>>

(* Gestures on the graph, and the list of registered handlers.             *)
addHandlerToWorkflow(h) ==
  /\ ~ dialog.open /\ ~ Defined(wf, h.id)
  /\ Change(Added(wf, [id |-> h.id, type |-> h.type, next |-> NoNode, branches |-> <<>>]))
  /\ UNCHANGED <<wiring, dialog>>

StartWiring(id) ==
  /\ ~ dialog.open /\ id \in Drawn(wf) /\ edits < MaxEdits
  /\ wiring' = id
  /\ UNCHANGED <<wf, dialog, edits>>

CompleteWiring(id) ==
  /\ ~ dialog.open /\ id \in Drawn(wf) /\ wiring \notin {NoNode, id}
  /\ Change(connect(wf, wiring, id))
  /\ wiring' = NoNode
  /\ UNCHANGED dialog

CancelWiring ==
  /\ wiring # NoNode /\ wiring' = NoNode
  /\ UNCHANGED <<wf, dialog, edits>>

DeleteEdge(e) ==
  /\ ~ dialog.open
  /\ \E w \in disconnect(wf, e[1], e[2]) : Change(w)
  /\ UNCHANGED <<wiring, dialog>>

-----------------------------------------------------------------------------
InDialog ==
  /\ dialog.open
  /\ \/ \E id \in TypedIds : TypeId(id)
     \/ \E t \in NodeTypes : PickType(t)
     \/ \E h \in Handlers : PickHandler(h)
     \/ \E id \in dialog.offered \cup {NoNode} : PickNext(id)
     \/ AddBranch
     \/ \E i \in 1..Len(dialog.draft.branches) :
          RemoveBranch(i) \/ \E id \in dialog.offered : PickTarget(i, id)
     \/ Save \/ DeleteNode \/ MakeStart \/ Cancel

OnGraph ==
  /\ ~ dialog.open
  /\ \/ \E id \in Drawn(wf) : OpenEditor(id) \/ StartWiring(id) \/ CompleteWiring(id)
     \/ \E t \in NodeTypes : openCustomEditor(t)
     \/ \E h \in Handlers : addHandlerToWorkflow(h)
     \/ \E e \in DrawnEdges(wf) : DeleteEdge(e)
     \/ \E e \in Examples : loadExample(e)

Next == InDialog \/ OnGraph \/ CancelWiring \/ Reload

Spec == Init /\ [][Next]_vars
=============================================================================
