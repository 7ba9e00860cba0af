------------------------------- MODULE Engine -------------------------------
(***************************************************************************)
(* internal/engine with the dispatcher it calls: one Execute of a workflow *)
(* definition.  executeNode calls itself for the next node of a linear     *)
(* node and, in one goroutine per activated branch, for the branches of a  *)
(* filter.  A call is named by its address: the root call is <<>>, and the *)
(* call that call c makes for its node's i-th successor is Append(c, i).   *)
(*                                                                         *)
(* What goroutines share is modelled as shared: payload maps are passed by *)
(* reference to every branch of a filter, parent_nodes slices may share a  *)
(* backing array, and traces are joined under a mutex.  A worker runs when *)
(* it gets to it, which may be after the dispatcher has given up on it.    *)
(***************************************************************************)
EXTENDS Workflow, RoundRobin, GoSlice

CONSTANTS
  Workflows,        \* definitions to execute
  Inputs,           \* input payloads: functions from fields to values
  Replies(_),       \* node id -> the [status, output] records its worker may answer
  Handlers,         \* the discovered registry: node id -> sequence of URLs
  Shown(_),         \* fmt.Sprintf("%v", value)
  Evaluate(_, _),   \* condition, payload -> "true" / "false" / "error"
  StrictModes       \* values of Engine.StrictMonotonicity

ASSUME EngineAssumption ==
  /\ \A w \in Workflows : IsParsed(w)
  /\ \A id \in DOMAIN Handlers : IsList(Handlers[id])
  /\ StrictModes \subseteq BOOLEAN

ASSUME InputAssumption == \A p \in Inputs : p = [f \in DOMAIN p |-> p[f]]

(* "none" stands for no reply; no worker says that.                        *)
ASSUME ReplyAssumption ==
  \A w \in Workflows : \A id \in NodeIDs(w) : \A r \in Replies(id) : r.status # "none"

VARIABLES
  wf, input,   \* arguments of Execute
  strict,      \* Engine.StrictMonotonicity
  args,        \* per call: the arguments of executeNode (never reassigned)
  exec,        \* per call: its NodeExecution, and where the call stands
  maps,        \* the heap of payload maps, by the call each was built for
  arrays,      \* the heap of backing arrays of parent_nodes
  next,        \* the registry's round-robin counters
  wire,        \* per call that POSTed: the message, how often it was POSTed,
               \* and the worker's reply
  result       \* ExecutionResult

vars == <<wf, input, strict, args, exec, maps, arrays, next, wire, result>>

Root == <<>>

Started(c) == c \in DOMAIN args
Posted(c)  == c \in DOMAIN wire
Node(c)    == args[c].node
Payload(c) == maps[args[c].payload]
Output(c)  == wire[c].reply.output
Linear(c)  == Node(c).type \in LinearTypes
Filter(c)  == Node(c).type = "filter"
Succ(c)    == Successors(Node(c))

NoReply    == [status |-> "none", output |-> <<>>]
Trace(cs, status) == [nodes |-> cs, status |-> status]

(* A call as executeNode starts it: `hits` are the branches to execute and *)
(* `joined` those whose goroutine is through.                              *)
Entered == [pc |-> "ready", status |-> "running", error |-> "none",
            hits |-> {}, joined |-> {}, traces |-> <<>>]

(* The call returns a single trace that ends with it.                      *)
Returned(e, c, status, error, trace) ==
  [e EXCEPT !.pc = "done", !.status = status, !.error = error,
            !.traces = <<Trace(<<c>>, trace)>>]

Fails(c, status, error) ==
  exec' = [exec EXCEPT ![c] = Returned(@, c, status, error, "failed")]

-----------------------------------------------------------------------------
(* mergePayload: a fresh map, the overlay wins.                            *)
Merge(base, overlay) ==
  [f \in DOMAIN base \cup DOMAIN overlay |->
     IF f \in DOMAIN overlay THEN overlay[f] ELSE base[f]]

(* checkMonotonicity: the input fields a worker's output changes, as far   *)
(* as their printed forms tell.                                            *)
Overwrites(in, out) ==
  {f \in DOMAIN in \cap DOMAIN out : Shown(in[f]) # Shown(out[f])}

(* resolveWorker: the registry first, then the node's own worker field.    *)
Known(id) == id \in DOMAIN Handlers /\ Handlers[id] # <<>>
WorkerFor(n) == IF Known(n.id) THEN Pick(Handlers[n.id], next[n.id]) ELSE n.worker

(* The node the i-th successor id of c's node names.  The slip: goroutines *)
(* that capture the loop variable and all see the last branch hit.         *)
LoopVariable(c, i) ==
  LET last == CHOOSE j \in exec[c].hits \cup {i} : \A k \in exec[c].hits : k <= j
  IN NodeMap(wf)[Succ(c)[last]]
Callee(c, i) == NodeMap(wf)[Succ(c)[i]]

(* executeNode is entered for the i-th successor of c's node, with payload *)
(* map p.  append(msg.Metadata.ParentNodes, node.ID) is evaluated first.   *)
Calls(c, i, p) ==
  LET e == Append(c, i)
      s == args[c].parents
  IN /\ args' = [a \in DOMAIN args \cup {e} |->
                   IF a = e THEN [node    |-> Callee(c, i),
                                  payload |-> p,
                                  parents |-> Appended(arrays, s, e)]
                   ELSE args[a]]
     /\ arrays' = ArraysAfter(arrays, s, Node(c).id, e)

WithCall(ex, c, i) ==
  [a \in DOMAIN ex \cup {Append(c, i)} |-> IF a = Append(c, i) THEN Entered ELSE ex[a]]

-----------------------------------------------------------------------------
Init ==
  /\ wf \in Workflows
  /\ input \in Inputs
  /\ strict \in StrictModes
  /\ args = <<>> /\ exec = <<>> /\ maps = <<>> /\ wire = <<>>
  /\ arrays = NoArrays
  /\ next = [id \in DOMAIN Handlers |-> 0]
  /\ result = [status |-> "none", traces |-> <<>>]

(* Execute: the start node must exist; the root call has the input payload *)
(* and a nil parent list.                                                  *)
Execute ==
  /\ result.status = "none"
  /\ IF Defined(wf, wf.start)
     THEN /\ args' = [a \in {Root} |-> [node |-> NodeMap(wf)[wf.start],
                                        payload |-> Root, parents |-> NilSlice]]
          /\ exec' = [a \in {Root} |-> Entered]
          /\ maps' = [a \in {Root} |-> input]
          /\ result' = [result EXCEPT !.status = "running"]
     ELSE /\ result' = [result EXCEPT !.status = "error"]
          /\ UNCHANGED <<args, exec, maps>>
  /\ UNCHANGED <<wf, input, strict, arrays, next, wire>>

(* executeNode, default case of the switch.                                *)
InvalidType(c) ==
  /\ exec[c].pc = "ready"
  /\ Node(c).type \notin NodeTypes
  /\ Fails(c, "failed", "INVALID_TYPE")
  /\ UNCHANGED <<wf, input, strict, args, maps, arrays, next, wire, result>>

-----------------------------------------------------------------------------
(* executeLinear                                                           *)

NoWorkerFound(c) ==
  /\ exec[c].pc = "ready" /\ Linear(c)
  /\ WorkerFor(Node(c)) = NoWorker
  /\ Fails(c, "failed", "NO_WORKER")
  /\ UNCHANGED <<wf, input, strict, args, maps, arrays, next, wire, result>>

(* Resolve takes a turn of the rotation; Dispatch marshals the message,    *)
(* reading the parent list out of whatever array it now lies in, and POSTs.*)
Dispatch(c) ==
  /\ exec[c].pc = "ready" /\ Linear(c)
  /\ WorkerFor(Node(c)) # NoWorker
  /\ wire' = [a \in DOMAIN wire \cup {c} |->
                IF a = c THEN [url     |-> WorkerFor(Node(c)),
                               parents |-> Contents(arrays, args[c].parents),
                               posts   |-> IF Posted(c) THEN wire[c].posts + 1 ELSE 1,
                               reply   |-> NoReply]
                ELSE wire[a]]
  /\ next' = IF Known(Node(c).id) THEN [next EXCEPT ![Node(c).id] = Bump(@)] ELSE next
  /\ exec' = [exec EXCEPT ![c].pc = "await"]
  /\ UNCHANGED <<wf, input, strict, args, maps, arrays, result>>

(* The worker runs its handler and answers, in time or not.                *)
WorkerAnswers(c) ==
  /\ wire[c].reply = NoReply
  /\ \E r \in Replies(Node(c).id) : wire' = [wire EXCEPT ![c].reply = r]
  /\ UNCHANGED <<wf, input, strict, args, exec, maps, arrays, next, result>>

(* Connection refused, client timeout, a status other than 200, a body     *)
(* that is no JSON object: whether the worker ran is not known.  The slip: *)
(* the message is POSTed once more.                                        *)
DispatchRetried(c) ==
  /\ exec[c].pc = "await"
  /\ exec' = [exec EXCEPT ![c].pc = "ready"]
  /\ UNCHANGED <<wf, input, strict, args, maps, arrays, next, wire, result>>
DispatchError(c) ==
  /\ exec[c].pc = "await"
  /\ Fails(c, "failed", "DISPATCH_ERROR")
  /\ UNCHANGED <<wf, input, strict, args, maps, arrays, next, wire, result>>

(* The reply is there and the call still waits for it.  The slip: a reply  *)
(* is processed even though the call has been given up.                    *)
RespondedLate(c, failure) ==
  /\ exec[c].pc \in {"await", "done"}
  /\ Posted(c) /\ wire[c].reply # NoReply
  /\ failure <=> wire[c].reply.status = "failure"
Responded(c, failure) ==
  /\ exec[c].pc = "await"
  /\ wire[c].reply # NoReply
  /\ failure <=> wire[c].reply.status = "failure"

(* resp.Status = "failure"; any other status counts as success.            *)
WorkerFailure(c) ==
  /\ Responded(c, TRUE)
  /\ Fails(c, "failed", "WORKER_ERROR")
  /\ UNCHANGED <<wf, input, strict, args, maps, arrays, next, wire, result>>

Violates(c) == Overwrites(Payload(c), Output(c)) # {}
(* Whether the run stops there.  The slip: the violation is only recorded. *)
WarnOnly(c) == strict /\ FALSE
Warning(c)  == IF Violates(c) THEN "MONOTONICITY_VIOLATION" ELSE "none"
Rejected(c) == strict /\ Violates(c)

RejectOverwrite(c) ==
  /\ Responded(c, FALSE) /\ Rejected(c)
  /\ Fails(c, "failed", "MONOTONICITY_VIOLATION")
  /\ UNCHANGED <<wf, input, strict, args, maps, arrays, next, wire, result>>

CompleteTerminal(c) ==
  /\ Responded(c, FALSE) /\ ~ Rejected(c)
  /\ Node(c).next = NoNode
  /\ exec' = [exec EXCEPT ![c] = Returned(@, c, "completed", Warning(c), "completed")]
  /\ UNCHANGED <<wf, input, strict, args, maps, arrays, next, wire, result>>

(* The node ran, so its own status stays completed; its trace fails.       *)
CompleteDangling(c) ==
  /\ Responded(c, FALSE) /\ ~ Rejected(c)
  /\ Node(c).next # NoNode /\ ~ Defined(wf, Node(c).next)
  /\ Fails(c, "completed", "MISSING_NODE")
  /\ UNCHANGED <<wf, input, strict, args, maps, arrays, next, wire, result>>

(* The heap with the merged map of call e.  The slip: writing the output   *)
(* into the map that was passed in.                                        *)
MergedInPlace(c, e) ==
  [a \in DOMAIN maps \cup {e} |->
     IF a \in {e, args[c].payload} THEN Merge(Payload(c), Output(c)) ELSE maps[a]]
WithMerged(c, e) ==
  [a \in DOMAIN maps \cup {e} |->
     IF a = e THEN Merge(Payload(c), Output(c)) ELSE maps[a]]

CompleteAndContinue(c) ==
  LET e == Append(c, 1)
  IN /\ Responded(c, FALSE) /\ ~ Rejected(c)
     /\ Node(c).next # NoNode /\ Defined(wf, Node(c).next)
     /\ maps' = WithMerged(c, e)
     /\ Calls(c, 1, e)
     /\ exec' = [WithCall(exec, c, 1) EXCEPT
                   ![c].pc = "called", ![c].status = "completed", ![c].error = Warning(c)]
     /\ UNCHANGED <<wf, input, strict, next, wire, result>>

(* Every trace of the rest of the chain, with this node in front.          *)
Prepended(c, ts) == [k \in 1..Len(ts) |-> Trace(<<c>> \o ts[k].nodes, ts[k].status)]

LinearReturn(c) ==
  LET e == Append(c, 1)
  IN /\ exec[c].pc = "called" /\ Linear(c)
     /\ exec[e].pc = "done"
     /\ exec' = [exec EXCEPT ![c].pc = "done", ![c].traces = Prepended(c, exec[e].traces)]
     /\ UNCHANGED <<wf, input, strict, args, maps, arrays, next, wire, result>>

-----------------------------------------------------------------------------
(* executeFilter                                                           *)

(* What the loop over the branches makes of branch i.                      *)
Verdict(c, i) ==
  LET b == Node(c).branches[i]
      v == Evaluate(b.cond, Payload(c))
  IN IF v = "error" THEN "CONDITION_ERROR"
     ELSE IF v = "true" THEN IF Defined(wf, b.next) THEN "hit" ELSE "MISSING_NODE"
     ELSE "skip"

Branches(c) == 1..Len(Node(c).branches)
Hits(c)  == {i \in Branches(c) : Verdict(c, i) = "hit"}
Stops(c) == {i \in Branches(c) : Verdict(c, i) \in {"CONDITION_ERROR", "MISSING_NODE"}}

FilterFails(c) ==
  /\ exec[c].pc = "ready" /\ Filter(c)
  /\ \E i \in Stops(c) :
       /\ \A j \in Stops(c) : i <= j
       /\ Fails(c, "failed", Verdict(c, i))
  /\ UNCHANGED <<wf, input, strict, args, maps, arrays, next, wire, result>>

FilterNoHit(c) ==
  /\ exec[c].pc = "ready" /\ Filter(c)
  /\ Stops(c) = {} /\ Hits(c) = {}
  /\ exec' = [exec EXCEPT ![c] = Returned(@, c, "completed", "none", "completed")]
  /\ UNCHANGED <<wf, input, strict, args, maps, arrays, next, wire, result>>

FilterSplit(c) ==
  /\ exec[c].pc = "ready" /\ Filter(c)
  /\ Stops(c) = {} /\ Hits(c) # {}
  /\ exec' = [exec EXCEPT ![c].pc = "called", ![c].status = "completed", ![c].hits = Hits(c)]
  /\ UNCHANGED <<wf, input, strict, args, maps, arrays, next, wire, result>>

(* A branch's goroutine starts: it passes the filter's own payload map on. *)
StartBranch(c, i) ==
  /\ exec[c].pc = "called" /\ Filter(c)
  /\ ~ Started(Append(c, i))
  /\ Calls(c, i, args[c].payload)
  /\ exec' = WithCall(exec, c, i)
  /\ UNCHANGED <<wf, input, strict, maps, next, wire, result>>

(* The filter's traces with those of branch i.  The slip: a read-modify-   *)
(* write that another branch overwrites.                                   *)
LastJoinWins(c, i) == Prepended(c, exec[Append(c, i)].traces)
JoinedTraces(c, i) == exec[c].traces \o Prepended(c, exec[Append(c, i)].traces)

(* It is through: the traces are added while the mutex is held.            *)
JoinBranch(c, i) ==
  LET e == Append(c, i)
  IN /\ exec[c].pc = "called" /\ Filter(c)
     /\ i \notin exec[c].joined
     /\ Started(e) /\ exec[e].pc = "done"
     /\ exec' = [exec EXCEPT
                   ![c].joined = @ \cup {i},
                   ![c].traces = JoinedTraces(c, i)]
     /\ UNCHANGED <<wf, input, strict, args, maps, arrays, next, wire, result>>

(* wg.Wait returns.  The slips: waiting for one branch only, and waiting   *)
(* for branches that were not activated.                                   *)
AnyJoined(c)      == exec[c].joined # {}
EveryBranchIn(c)  == exec[c].joined = Branches(c)
AllJoined(c) == exec[c].joined = exec[c].hits

FilterReturn(c) ==
  /\ exec[c].pc = "called" /\ Filter(c)
  /\ AllJoined(c)
  /\ exec' = [exec EXCEPT ![c].pc = "done"]
  /\ UNCHANGED <<wf, input, strict, args, maps, arrays, next, wire, result>>

-----------------------------------------------------------------------------
(* The status of a result: failed when any trace is.  The slip: only the   *)
(* first trace is looked at.                                               *)
FirstTraceStatus(ts) == ts[1].status
OverallStatus(ts) ==
  IF \E k \in 1..Len(ts) : ts[k].status = "failed" THEN "failed" ELSE "completed"

(* The end of Execute.                                                     *)
Finish ==
  /\ result.status = "running"
  /\ exec[Root].pc = "done"
  /\ result' = [status |-> OverallStatus(exec[Root].traces),
                traces |-> exec[Root].traces]
  /\ UNCHANGED <<wf, input, strict, args, exec, maps, arrays, next, wire>>

LinearStep(c) ==
  \/ NoWorkerFound(c) \/ Dispatch(c) \/ DispatchError(c)
  \/ WorkerFailure(c) \/ RejectOverwrite(c)
  \/ CompleteTerminal(c) \/ CompleteDangling(c) \/ CompleteAndContinue(c)
  \/ LinearReturn(c)

FilterStep(c) ==
  \/ FilterFails(c) \/ FilterNoHit(c) \/ FilterSplit(c) \/ FilterReturn(c)
  \/ \E i \in exec[c].hits : StartBranch(c, i) \/ JoinBranch(c, i)

EngineStep ==
  \/ Execute
  \/ \E c \in DOMAIN args : InvalidType(c) \/ LinearStep(c) \/ FilterStep(c)
  \/ Finish

Next == EngineStep \/ \E c \in DOMAIN wire : WorkerAnswers(c)

Spec == Init /\ [][Next]_vars

(* The Go scheduler runs a goroutine that can run, and the client's        *)
(* timeout ends every wait for a worker.  Nothing is asked of workers.     *)
FairSpec == Spec /\ WF_vars(EngineStep)
=============================================================================
