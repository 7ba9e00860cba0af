-------------------------- MODULE EngineProperties --------------------------
(***************************************************************************)
(* What one execution of a workflow promises, stated over Engine.          *)
(***************************************************************************)
EXTENDS Engine, Lineages

CONSTANT MaxBranches   \* no filter of Workflows has more branches

ASSUME BranchesAssumption ==
  /\ MaxBranches \in Nat \ {0}
  /\ \A w \in Workflows : \A n \in NodesOf(w) : Len(n.branches) <= MaxBranches

Bodies   == UNION {Replies(id) : id \in UNION {NodeIDs(w) : w \in Workflows}}
Sources  == Inputs \cup {r.output : r \in Bodies}
Field    == UNION {DOMAIN p : p \in Sources}
Value    == UNION {{p[f] : f \in DOMAIN p} : p \in Sources}
Payloads == UNION {[S -> Value] : S \in SUBSET Field}

CallStatus == {"running", "completed", "failed"}
ErrorCode  == {"none", "INVALID_TYPE", "NO_WORKER", "DISPATCH_ERROR", "WORKER_ERROR",
               "MONOTONICITY_VIOLATION", "MISSING_NODE", "CONDITION_ERROR"}
TraceType  == [nodes : Seq(DOMAIN args), status : CallStatus]

ExecType(c) ==
  [pc     : {"ready", "await", "called", "done"},
   status : CallStatus,
   error  : ErrorCode,
   hits   : SUBSET (1..Len(Succ(c))),
   joined : SUBSET (1..Len(Succ(c))),
   traces : Seq(TraceType)]

TypeOK ==
  /\ wf \in Workflows /\ input \in Inputs /\ strict \in StrictModes
  /\ DOMAIN args \subseteq Seq(Nat) /\ DOMAIN exec = DOMAIN args
  /\ \A c \in DOMAIN args :
       /\ Node(c) \in NodesOf(wf)
       /\ args[c].payload \in DOMAIN maps
       /\ args[c].parents.arr \in DOMAIN arrays
       /\ args[c].parents.len \in 0..Len(arrays[args[c].parents.arr])
       /\ exec[c] \in ExecType(c)
  /\ \A a \in DOMAIN maps : maps[a] \in Payloads
  /\ \A a \in DOMAIN arrays : arrays[a] \in Seq(NodeIDs(wf) \cup {""})
  /\ next \in [DOMAIN Handlers -> Counters]
  /\ DOMAIN wire \subseteq DOMAIN args
  /\ \A c \in DOMAIN wire : wire[c].reply \in Bodies \cup {NoReply}
  /\ result.status \in CallStatus \cup {"none", "error"}
  /\ result.traces \in Seq(TraceType)

-----------------------------------------------------------------------------
(* Engine implements WorkflowRun.  A call is settled when executeNode has  *)
(* decided its NodeExecution, even if it has yet to return.                *)
Progress(c) ==
  IF exec[c].pc \in {"ready", "await"} THEN "busy"
  ELSE IF exec[c].error \in {"none", "MONOTONICITY_VIOLATION"} /\ exec[c].status = "completed"
       THEN "ok" ELSE "failed"

DueBelow(c) == IF Linear(c) THEN {i \in {1} : Started(Append(c, i))} ELSE exec[c].hits

Progressed == [c \in DOMAIN args |-> Progress(c)]
Due        == [c \in DOMAIN args |-> DueBelow(c)]
Outcome    == IF result.status = "running" THEN "pending" ELSE result.status

Run == INSTANCE WorkflowRun WITH
         Fanout <- MaxBranches, call <- Progressed, due <- Due, verdict <- Outcome

(* Calls begin once and below a success, settle once, and the verdict is   *)
(* given only when nothing is left to run.                                 *)
ImplementsWorkflowRun == Run!Spec

Final == result.status \in {"completed", "failed"}

(* A worker is never called twice for one node of a non-merging workflow,  *)
(* however branches interleave and whatever fails: executeNode is entered  *)
(* at most once per node id, and a call that entered it POSTs at most once,*)
(* whatever became of the request.                                         *)
EnteredOnce ==
  IsTree(wf) =>
    \A c, d \in DOMAIN args : Node(c).id = Node(d).id => c = d
AtMostOnce == EnteredOnce /\ \A c \in DOMAIN wire : wire[c].posts = 1

(* Branches do not see each other's output.  Every payload handed to       *)
(* executeNode is determined by the call's own ancestors: a field has the  *)
(* value of the nearest ancestor that returned it, else the input's.       *)
Ancestry(c) == {k \in 0..(Len(c) - 1) : Linear(Prefix(c, k))}
OutputsAbove(c) == [k \in Ancestry(c) |-> Output(Prefix(c, k))]
Lineage(c) == Overlaid(input, OutputsAbove(c))
BranchIsolation == \A c \in DOMAIN args : Payload(c) = Lineage(c)

(* When Execute returns, no goroutine is left behind: every call has       *)
(* returned, every activated branch was executed, and the result holds     *)
(* exactly one trace per leaf of the calls made, none lost in the joins.   *)
Leaves == {c \in DOMAIN args : \A d \in DOMAIN args : Len(d) = Len(c) + 1 => Prefix(d, Len(c)) # c}
PathTo(c) == [k \in 1..(Len(c) + 1) |-> Prefix(c, k - 1)]
OneTracePerLeaf ==
  Final =>
    /\ \A c \in DOMAIN args :
         exec[c].pc = "done" /\ \A i \in exec[c].hits : Started(Append(c, i))
    /\ {result.traces[k].nodes : k \in 1..Len(result.traces)} = {PathTo(c) : c \in Leaves}
    /\ Len(result.traces) = Cardinality(Leaves)

(* The verdict can be trusted: an execution is reported completed exactly  *)
(* when no call failed, each linear node's worker ran and did not report a *)
(* failure, and every edge taken led to a defined node.  A failed trace    *)
(* ends with the call that failed, and only with that one.                 *)
CallSucceeded(c) ==
  /\ exec[c].status = "completed" /\ exec[c].error \in {"none", "MONOTONICITY_VIOLATION"}
  /\ Linear(c) => Posted(c) /\ wire[c].reply.status \notin {"none", "failure"}
SoundVerdict ==
  Final =>
    /\ result.status = "completed" <=> \A c \in DOMAIN args : CallSucceeded(c)
    /\ \A k \in 1..Len(result.traces) : LET t == result.traces[k] IN
         /\ \A j \in 1..(Len(t.nodes) - 1) : CallSucceeded(t.nodes[j])
         /\ t.status = "completed" <=> CallSucceeded(t.nodes[Len(t.nodes)])

(* What was reported stays: a call that returned, timed out included, is   *)
(* never revised by a reply that arrives later.                            *)
SettledForGood ==
  [][\A c \in DOMAIN exec : exec[c].pc = "done" => exec'[c] = exec[c]]_vars

(* The parent_nodes a worker is sent are the ids on the path from the      *)
(* start to its node.                                                      *)
ParentsAreAncestors ==
  \A c \in DOMAIN wire :
    wire[c].parents = [k \in 1..Len(c) |-> Node(Prefix(c, k - 1)).id]

(* What remains of that when branches share a backing array: the list is   *)
(* as long as the path, the ids up to the first filter on it are right, and*)
(* any other entry is the id of some call at that depth below that filter. *)
ToFirstFilter(c) == Cardinality({k \in 1..Len(c) : \A j \in 0..(k - 1) : Linear(Prefix(c, j))})
ParentsUpToSplit ==
  \A c \in DOMAIN wire :
    /\ Len(wire[c].parents) = Len(c)
    /\ \A k \in 1..Len(c) : \E d \in DOMAIN args :
         /\ Len(d) = k - 1 /\ Node(d).id = wire[c].parents[k]
         /\ \A j \in 1..(k - 1) : j <= ToFirstFilter(c) => d[j] = c[j]

(* What a worker of a strict run is handed stays with its descendants: a   *)
(* field of a call's payload is in the payload of every call below it, and *)
(* prints as it did, whatever outputs were merged on the way down and      *)
(* whatever the branches beside it return.                                 *)
StrictKeepsForms ==
  strict => \A c \in DOMAIN args : \A k \in 0..(Len(c) - 1) :
    LET above == Payload(Prefix(c, k)) IN
    \A f \in DOMAIN above : f \in DOMAIN Payload(c) /\ Shown(Payload(c)[f]) = Shown(above[f])

(* In strict mode no output that overwrites an input field with another    *)
(* value is ever merged.                                                   *)
StrictNeverOverwrites ==
  strict => \A c \in DOMAIN args :
    \A f \in DOMAIN Payload(c) :
      Linear(c) /\ exec[c].status = "completed" /\ f \in DOMAIN Output(c)
        => Output(c)[f] = Payload(c)[f]

(* Every execution ends, whatever the workers do.                          *)
Termination == <>(result.status \in {"completed", "failed", "error"})
=============================================================================
