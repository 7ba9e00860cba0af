----------------------------- MODULE Validation -----------------------------
(***************************************************************************)
(* A definition is validated by the Go orchestrator and by the TypeScript  *)
(* SDK, exported by the editor and laid out by its graph.                  *)
(***************************************************************************)
EXTENDS Validator, Export, GraphLayout

CONSTANTS
  Workflows,     \* definitions to validate
  Schemas        \* values of initialFields: sets of fields, or NoSchema

(* A definition comes out of a parser or the editor's store, whatever it   *)
(* says.                                                                   *)
ASSUME ValidationAssumption == \A w \in Workflows : IsParsed(w) /\ HasFields(w)

(* The empty text is null, and nothing a required text resolves to prints  *)
(* as the empty one: null is printed as a word.                            *)
ASSUME TextAssumption ==
  /\ NoNode \in NullWords
  /\ \A w \in Workflows : \A id \in Mentioned(w) : scalarString(id) # NoNode

VARIABLES wf, fields, errs

vars == <<wf, fields, errs>>

Unchecked == [d \in Dialects |-> {<<"unchecked">>}]
Checked   == errs # Unchecked

Init == wf \in Workflows /\ fields \in Schemas /\ errs = Unchecked

Validate ==
  /\ errs = Unchecked
  /\ errs' = [d \in Dialects |-> ValidateWithSchema(d, wf, fields)]
  /\ UNCHANGED <<wf, fields>>

Spec == Init /\ [][Validate]_vars

-----------------------------------------------------------------------------
(* The structural rules of both accept exactly the well-formed             *)
(* definitions; in particular the engines are only ever handed trees by    *)
(* `steppr run` and by the simulator.                                      *)
AcceptsExactlyTrees ==
  Checked /\ fields = NoSchema => \A d \in Dialects : errs[d] = {} <=> WellFormed(wf)

(* A cycle is reported exactly when there is one, or when one undefined id *)
(* is referred to twice: the search colours it and never takes the colour  *)
(* back, so the second reference looks like an edge back.                  *)
ReferredTwice(w, id) ==
  \E m, n \in {NodeMap(w)[k] : k \in NodeIDs(w)} :
    \E i \in 1..Len(Successors(m)), j \in 1..Len(Successors(n)) :
      Successors(m)[i] = id /\ Successors(n)[j] = id /\ <<m, i>> # <<n, j>>

CyclesAreReported ==
  Checked /\ fields = NoSchema => \A d \in Dialects :
    (\E e \in errs[d] : e[1] = "cycle") <=>
      \/ HasCycle(wf)
      \/ \E e \in Edges(wf) : ~ Defined(wf, e[3]) /\ ReferredTwice(wf, e[3])

(* The data-flow check reports a read exactly when no proper ancestor      *)
(* declares the field and the input does not have it: siblings contribute  *)
(* nothing to each other, and neither do a node's own outputs to itself.   *)
Unsupplied(w, n, initial) ==
  {f \in n.reads \ initial :
     \A a \in NodesOf(w) : OnPath(w, a.id, n.id) => f \notin a.produces}

ReadsAreAncestral ==
  Checked /\ fields # NoSchema /\ WellFormed(wf) =>
    \A d \in Dialects :
      errs[d] = UNION {{<<"reads", n.id, f>> : f \in Unsupplied(wf, n, fields)} : n \in NodesOf(wf)}

(* What passes the data-flow check is in the payload when it is read.      *)
(* Only linear nodes have a worker whose output the engine merges.         *)
ReadsAreSupplied ==
  errs["go"] = {} /\ fields # NoSchema =>
    \A n \in NodesOf(wf) : \A f \in n.reads :
      \/ f \in fields
      \/ \E a \in NodesOf(wf) :
           a.type \in LinearTypes /\ OnPath(wf, a.id, n.id) /\ f \in a.produces

(* The preview can be trusted: the SDK accepts the text of a workflow      *)
(* exactly when the Validate button accepts the workflow and the labels and*)
(* conditions of its filters can be read, whatever is missing from it, as  *)
(* long as its ids and fields mean the same when written bare.             *)
PreviewIsValidated ==
  Checked /\ KeptApart(wf) =>
    (AcceptedAsText(wf, fields) <=> AcceptedByButton(wf, fields) /\ BranchesReadable(wf))

(* No box of the tree hides another, so every node can be read and clicked *)
(* on, in any definition without a cycle, merging edges and undefined ids  *)
(* included.  Only a branch whose target is not chosen yet takes a column  *)
(* that is not counted in the width of its filter.                         *)
BoxesApart ==
  LET w == toWorkflowDef(wf) IN
  /\ Checked /\ fields = NoSchema /\ Defined(w, w.start) /\ ~ HasCycle(w)
  /\ \A e \in Edges(w) : e[3] # NoNode
  => \A p, q \in Placed(w) : Overlap(p, q) => p = q
=============================================================================
