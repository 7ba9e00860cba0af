------------------------- MODULE TsEngineProperties -------------------------
(***************************************************************************)
(* What an execution by the TypeScript engine promises.                    *)
(***************************************************************************)
EXTENDS TsEngine, Lineages

CONSTANT MaxBranches   \* no filter of Workflows has more branches

ASSUME BranchesAssumption ==
  /\ MaxBranches \in Nat \ {0}
  /\ \A w \in Workflows : \A n \in NodesOf(w) : Len(n.branches) <= MaxBranches

TypeOK ==
  /\ wf \in Workflows /\ input \in Inputs /\ strict \in StrictModes
  /\ found \in 0..Len(WorkerURLs)
  /\ registry \in [Ids -> Seq({WorkerURLs[k] : k \in 1..Len(WorkerURLs)})]
  /\ \A id \in Ids : counter[id] \in 0..Len(registry[id])
  /\ DOMAIN exec = DOMAIN args
  /\ DOMAIN got \subseteq DOMAIN sent /\ DOMAIN sent \subseteq DOMAIN args
  /\ \A c \in DOMAIN args :
       /\ exec[c].pc \in {"ready", "await", "called", "done", "threw"}
       /\ exec[c].hits \subseteq 1..Len(Succ(c))
  /\ result.status \in {"none", "running", "completed", "failed", "rejected"}

Final == result.status \in {"completed", "failed"}

(* TsEngine implements the abstract run that the Go engine implements.  A  *)
(* call that threw never settles, and a rejected execution has no verdict. *)
Progress(c) ==
  IF exec[c].pc \in {"ready", "await", "threw"} THEN "busy"
  ELSE IF exec[c].status = "completed" /\ exec[c].error = "none" THEN "ok" ELSE "failed"

Progressed == [c \in DOMAIN args |-> Progress(c)]
Due        == [c \in DOMAIN args |-> exec[c].hits]
Outcome    == CASE result.status = "running" -> "pending"
                [] result.status = "rejected" -> IF args = <<>> THEN "error" ELSE "pending"
                [] OTHER -> result.status

Run == INSTANCE WorkflowRun WITH
         Fanout <- MaxBranches, call <- Progressed, due <- Due, verdict <- Outcome

(* Both engines run workflows alike: calls begin once and below a success, *)
(* settle once, and the verdict is given only when nothing is left to run. *)
ImplementsWorkflowRun == Run!Spec

(* The traces are one per leaf of the calls made, in the order of the      *)
(* branches, whichever branch came back first.                             *)
Leaves == {c \in DOMAIN args : \A d \in DOMAIN args : Len(d) = Len(c) + 1 => Prefix(d, Len(c)) # c}
PathTo(c) == [k \in 1..(Len(c) + 1) |-> Prefix(c, k - 1)]
TracesInBranchOrder ==
  Final =>
    /\ Len(result.traces) = Cardinality(Leaves)
    /\ {result.traces[k].nodes : k \in 1..Len(result.traces)} = {PathTo(c) : c \in Leaves}
    /\ \A j, k \in 1..Len(result.traces) : j < k =>
         LET a == result.traces[j].nodes  b == result.traces[k].nodes
         IN Before(a[Len(a)], b[Len(b)])

(* When execute resolves, no request is left in flight and none is made    *)
(* afterwards; only a rejected execution leaves branches running.          *)
NothingAfterTheVerdict ==
  [][Final => UNCHANGED <<args, exec, sent, got, result>>]_vars

(* The verdict is completed exactly when no call failed and the handler of *)
(* every linear node, at a worker that announced it, returned a body that  *)
(* is not a failure; what a handler threw is never taken for an output nor *)
(* for a failure it returned; and execute rejects only if discovery        *)
(* failed, there is no start, or a call threw.                             *)
CallSucceeded(c) ==
  /\ exec[c].status = "completed" /\ exec[c].error = "none"
  /\ ~ Filter(c) => /\ c \in DOMAIN got /\ got[c].kind = "returns"
                    /\ got[c].body.status \notin {"failure", "null"}
                    /\ Node(c).id \in Announced[sent[c]]
ErrorNamesTheCause(c) ==
  /\ exec[c].error = "DISPATCH_ERROR" => c \notin DOMAIN got \/ got[c].kind # "returns"
  /\ exec[c].error = "WORKER_ERROR" => got[c].kind = "returns" /\ got[c].body.status = "failure"
SoundVerdict ==
  /\ Final => /\ result.status = "completed" <=> \A c \in DOMAIN args : CallSucceeded(c)
              /\ \A k \in 1..Len(result.traces) : LET t == result.traces[k] IN
                   t.status = "completed" <=> CallSucceeded(t.nodes[Len(t.nodes)])
  /\ \A c \in DOMAIN args : ErrorNamesTheCause(c)
  /\ result.status = "rejected" =>
       found < Len(WorkerURLs) \/ ~ Defined(wf, wf.start)
         \/ \E c \in DOMAIN args : exec[c].pc = "threw"

(* Branches do not see each other's output: a field of a payload has the   *)
(* value of the nearest ancestor that returned it, else the input's.       *)
OutputOf(c) == Output(Body(c, got[c]))
Ancestry(c) == {k \in 0..(Len(c) - 1) : ~ Filter(Prefix(c, k))}
OutputsAbove(c) == [k \in Ancestry(c) |-> OutputOf(Prefix(c, k))]
Lineage(c) == Overlaid(input, OutputsAbove(c))
BranchIsolation == \A c \in DOMAIN args : Payload(c) = Lineage(c)

(* Every execution ends.                                                   *)
Termination == <>(result.status \in {"completed", "failed", "rejected"})
=============================================================================
