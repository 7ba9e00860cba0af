------------------------------ MODULE Simulation ------------------------------
(***************************************************************************)
(* What the simulator's buttons call: validator.ts and, with its           *)
(* InMemoryResolver, engine.ts on the definition toWorkflowDef returns.    *)
(* No handler awaits anything, so an execution is a function of the        *)
(* definition and the payload: the set of its node executions.             *)
(***************************************************************************)
EXTENDS Export

CONSTANT Evaluate(_, _)   \* condition, payload -> "true" / "false" / "error"

(* A payload is whatever JSON value but null: its kind, which a condition  *)
(* can tell, and the fields a copy of it by { ...payload } has.            *)
Payload(kind, fields) == [kind |-> kind, fields |-> fields]

(* validate throws nothing; opts is <<>> or <<initialFields>>.  The slip:  *)
(* leaving the data flow out.                                              *)
StructureOnly(w, opts) == ValidateWithSchema("ts", toWorkflowDef(w), NoSchema) = {}
validate(w, opts) ==
  ValidateWithSchema("ts", toWorkflowDef(w), IF opts = <<>> THEN NoSchema ELSE opts[1]) = {}

(* Stubs: the JSON text a node answers with.  One that is an object has    *)
(* its entries; a value is a text, or another JSON value by its text.      *)
parseStubOutput(stub) ==
  LET es == IF stub.kind = "object" THEN stub.entries ELSE <<>>
      at(f) == {i \in 1..Len(es) : es[i].key = f}
  IN [f \in {es[i].key : i \in 1..Len(es)} |->
        es[CHOOSE i \in at(f) : \A j \in at(f) : j <= i].value]

(* The handlers runWorkflow registers, one for each node but filters.      *)
Handlers(w) ==
  [id \in {n.id : n \in {m \in NodesOf(w) : m.type # "filter"}} |->
     parseStubOutput(NodeMap(w)[id].stub)]

Merged(p, out) ==
  Payload("object", [f \in DOMAIN p.fields \cup DOMAIN out |->
                       IF f \in DOMAIN out THEN out[f] ELSE p.fields[f]])

-----------------------------------------------------------------------------
(* Executing a node leaves its execution and calls others: each call is an *)
(* id and the payload it is handed.                                        *)
Execution(id, p, status, error) ==
  [id |-> id, input |-> p.fields, status |-> status, error |-> error]
Leaves(execution, calls)        == [execution |-> execution, calls |-> calls]

(* The branches a filter may stop at.                                      *)
Failing(w, n, p) ==
  {i \in 1..Len(n.branches) :
     \/ Evaluate(n.branches[i].cond, p) = "error"
     \/ Evaluate(n.branches[i].cond, p) = "true" /\ ~ Defined(w, n.branches[i].next)}

executeFilter(w, n, p) ==
  LET hits == {i \in 1..Len(n.branches) : Evaluate(n.branches[i].cond, p) = "true"}
      stop == CHOOSE i \in Failing(w, n, p) : \A j \in Failing(w, n, p) : i <= j
  IN IF Failing(w, n, p) = {}
     THEN Leaves(Execution(n.id, p, "completed", "none"), {<<n.branches[i].next, p>> : i \in hits})
     ELSE Leaves(Execution(n.id, p, "failed", IF Evaluate(n.branches[stop].cond, p) = "error"
                                              THEN "CONDITION_ERROR" ELSE "MISSING_NODE"), {})

executeLinear(w, n, p) ==
  IF n.id \notin DOMAIN Handlers(w) THEN Leaves(Execution(n.id, p, "failed", "NO_WORKER"), {})
  ELSE IF n.next # NoNode /\ ~ Defined(w, n.next)
       THEN Leaves(Execution(n.id, p, "completed", "MISSING_NODE"), {})
  ELSE Leaves(Execution(n.id, p, "completed", "none"),
              IF n.next = NoNode THEN {} ELSE {<<n.next, Merged(p, Handlers(w)[n.id])>>})

executeNode(w, id, p) ==
  LET n == NodeMap(w)[id]
  IN IF n.type = "filter" THEN executeFilter(w, n, p) ELSE executeLinear(w, n, p)

(* A definition validation lets pass is a tree: its calls are at most as   *)
(* deep as it has nodes.                                                   *)
execute(w, p) ==
  LET def == toWorkflowDef(w)
      calls[depth \in 0..Len(def.nodes)] ==
        IF depth = 0 THEN {<<def.start, p>>}
        ELSE LET made == calls[depth - 1]
             IN made \cup UNION {executeNode(def, c[1], c[2]).calls : c \in made}
  IN {executeNode(def, c[1], c[2]).execution : c \in calls[Len(def.nodes)]}

(* showResult.                                                             *)
statuses(w, p) ==
  [id \in {x.id : x \in execute(w, p)} |->
     IF \A x \in execute(w, p) : x.id = id => x.status = "completed" THEN "ok" ELSE "fail"]

(* The stubs answer with what their nodes declare to produce, and filters  *)
(* declare nothing.                                                        *)
StubsKeepTheirWord(w) ==
  \A n \in NodesOf(w) : n.produces \subseteq
    IF n.type = "filter" THEN {} ELSE DOMAIN parseStubOutput(n.stub)
=============================================================================
