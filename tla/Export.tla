-------------------------------- MODULE Export --------------------------------
(***************************************************************************)
(* The two ways a workflow leaves the editor's store: toWorkflowDef hands  *)
(* it to the simulator's validator and engine, toYAML writes the text of   *)
(* the preview, which the SDK's parser.ts reads.  A workflow of the editor *)
(* has the shape of a definition.  Of a branch's label and condition, both *)
(* written bare, only this matters here: whether the parser can read them. *)
(* What a condition that can be read means is module Condition's.          *)
(***************************************************************************)
EXTENDS Validator

CONSTANTS
  Respelled(_),   \* a bare text as String prints what YAML resolves it to
  NullWords,      \* texts that YAML resolves to null, the empty one among them
  Readable(_)     \* the parser reads a branch's label and condition, written bare

(* The slip: the next node a filter keeps from its time as an action.      *)
NextKept(w) ==
  [w EXCEPT !.nodes = [k \in Positions(w) |->
     [w.nodes[k] EXCEPT !.branches = IF w.nodes[k].type = "filter" THEN @ ELSE <<>>]]]
toWorkflowDef(w) ==
  [w EXCEPT !.nodes = [k \in Positions(w) |->
     [w.nodes[k] EXCEPT
        !.next     = IF w.nodes[k].type # "filter" THEN @ ELSE NoNode,
        !.branches = IF w.nodes[k].type = "filter" THEN @ ELSE <<>>]]]

(* toYAML writes the branches of a filter that has some, and else the      *)
(* next_node of a node that has one.                                       *)
HasBranches(n) == n.type = "filter" /\ n.branches # <<>>
toYAML(w) ==
  [w EXCEPT !.nodes = [k \in Positions(w) |->
     [w.nodes[k] EXCEPT
        !.next     = IF HasBranches(w.nodes[k]) THEN NoNode ELSE @,
        !.branches = IF HasBranches(w.nodes[k]) THEN @ ELSE <<>>]]]

-----------------------------------------------------------------------------
(* parse.  A required scalar is printed whatever it resolved to, null too; *)
(* an optional one that is null counts as absent.  Texts are written bare. *)
scalarString(s)   == IF s \in NullWords THEN "null" ELSE Respelled(s)
optionalString(s) == IF s \in NullWords THEN NoNode ELSE Respelled(s)

parseBranch(b) == [b EXCEPT !.next = scalarString(@)]
parseNode(n) ==
  [n EXCEPT !.id       = scalarString(@),
            !.next     = optionalString(@),
            !.branches = [i \in 1..Len(@) |-> parseBranch(@[i])],
            !.reads    = {scalarString(f) : f \in @},
            !.produces = {scalarString(f) : f \in @}]

BranchesReadable(w) ==
  \A n \in NodesOf(w) : HasBranches(n) => \A i \in 1..Len(n.branches) : Readable(n.branches[i])
Parses(y) ==
  y.nodes # <<>> /\ BranchesReadable(y) /\ \A n \in NodesOf(y) : n.type \in NodeTypes
parse(y)  == [y EXCEPT !.start = scalarString(@),
                       !.nodes = [k \in Positions(y) |-> parseNode(y.nodes[k])]]

(* What the simulator's Validate button says of a workflow, and what the   *)
(* SDK says of its preview.                                                *)
AcceptedByButton(w, initial) == ValidateWithSchema("ts", toWorkflowDef(w), initial) = {}
AcceptedAsText(w, initial) ==
  Parses(toYAML(w)) /\ ValidateWithSchema("ts", parse(toYAML(w)), initial) = {}

-----------------------------------------------------------------------------
(* Texts that keep their meaning when written bare: every node has an id,  *)
(* as the dialog requires, the ids a workflow mentions stay apart from each*)
(* other and from null, and the fields stay themselves.  An empty target of*)
(* a branch is another matter: it becomes the text null.                   *)
Fields(w)    == UNION {n.reads \cup n.produces : n \in NodesOf(w)}
KeptApart(w) ==
  /\ NoNode \notin NodeIDs(w)
  /\ \A i, j \in Mentioned(w) : scalarString(i) = scalarString(j) => i = j
  /\ \A n \in NodesOf(w) : n.next \in NullWords => n.next = NoNode
  /\ \A f \in Fields(w) : scalarString(f) = f
=============================================================================
