--------------------------------- MODULE Cli ---------------------------------
(***************************************************************************)
(* cmd/steppr: `steppr run` validates the definition, without a check of   *)
(* the data flow, asks the registry for a worker of every node when        *)
(* --workers is given, and only then executes.                             *)
(***************************************************************************)
EXTENDS EngineProperties, Validator

CONSTANT WorkersGiven   \* whether --workers names any

(* Blank entries of --workers are dropped before discovery.                *)
ASSUME CliAssumption ==
  \A id \in DOMAIN Handlers : \A k \in 1..Len(Handlers[id]) : Handlers[id][k] # NoWorker

(* The preflight, which looks at the registry and not at worker fields.    *)
(* The slip: only the start node is asked for.                             *)
StartUnserved(w) == {n.id : n \in {m \in NodesOf(w) : m.id = w.start /\ m.type # "filter" /\ ~ Known(m.id)}}
Unserved(w) == {n.id : n \in {m \in NodesOf(w) : m.type # "filter" /\ ~ Known(m.id)}}

Refused(w) ==
  \/ ValidateWithSchema("go", w, NoSchema) # {}
  \/ WorkersGiven /\ Unserved(w) # {}

(* What steppr run executes under --workers fails, if at all, for what     *)
(* workers answer or conditions meet: never because the definition is      *)
(* broken or nobody serves a node, however deep in the workflow the node   *)
(* is and whichever branches are taken.                                    *)
DefinitionErrors == {"NO_WORKER", "INVALID_TYPE", "MISSING_NODE"}
CheckedRunsFailAtWorkers ==
  WorkersGiven /\ (result.status = "error" \/ \E c \in DOMAIN args : exec[c].error \in DefinitionErrors)
    => Refused(wf)
=============================================================================
