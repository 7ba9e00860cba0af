------------------------------ MODULE TsEngine ------------------------------
(***************************************************************************)
(* sdk/typescript/src/engine.ts: the second engine, with HttpResolver, and *)
(* the workers it posts to (TsWorker).  It runs on one thread.  Everything *)
(* a promise's continuation does up to the next await happens at once, and *)
(* the microtasks it queues are through before the event loop takes the    *)
(* next event, so an answer from a worker is processed only when the       *)
(* engine has nothing left to do (Idle).  What remains free is the order   *)
(* in which workers answer.                                                *)
(*                                                                         *)
(* Calls are named by address as in module Engine.  Objects are copied by  *)
(* spreading and never changed afterwards, so they are values here.        *)
(***************************************************************************)
EXTENDS Workflow, TsWorker

CONSTANTS
  Workflows,        \* definitions to execute
  Inputs,           \* input payloads: functions from fields to values
  Outcomes,         \* what handlers may do: return a [status, output] record, or not
  Absent,           \* a missing output field
  WorkerURLs,       \* what discover is given
  Announced,        \* url -> the node ids its worker answers /handlers with
  Evaluate(_, _),   \* condition, payload -> "true" / "false" / "error"
  StrictModes       \* values of opts.strictMonotonicity

ASSUME TsEngineAssumption ==
  /\ \A w \in Workflows : IsParsed(w)
  /\ WorkerURLs \in Seq(STRING)
  /\ StrictModes \subseteq BOOLEAN

ASSUME InputAssumption == \A p \in Inputs : p = [f \in DOMAIN p |-> p[f]]

VARIABLES
  wf, input,   \* arguments of execute
  strict,      \* opts.strictMonotonicity
  found,       \* workers discovered so far
  registry,    \* HttpResolver.registry: node id -> URLs, <<>> when absent
  counter,     \* HttpResolver.counter
  args,        \* per call: the arguments of executeNode
  exec,        \* per call: its NodeExecution, and where the call stands
  sent,        \* per call that POSTed: the URL
  got,         \* per call that was answered: what its handler had done
  result       \* the promise of execute

vars == <<wf, input, strict, found, registry, counter, args, exec, sent, got, result>>

Ids == (UNION {NodeIDs(w) : w \in Workflows})
       \cup (UNION {Announced[WorkerURLs[k]] : k \in 1..Len(WorkerURLs)})

Root == <<>>

Started(c) == c \in DOMAIN args
Node(c)    == args[c].node
Payload(c) == args[c].payload
Filter(c)  == Node(c).type = "filter"
Succ(c)    == Successors(Node(c))
Providers(c) == registry[Node(c).id]

Trace(cs, status) == [nodes |-> cs, status |-> status]
Entered == [pc |-> "ready", status |-> "running", error |-> "none", hits |-> {}, traces |-> <<>>]

Returned(e, c, status, error, trace) ==
  [e EXCEPT !.pc = "done", !.status = status, !.error = error,
            !.traces = <<Trace(<<c>>, trace)>>]

Fails(c, status, error) ==
  exec' = [exec EXCEPT ![c] = Returned(@, c, status, error, "failed")]

Resolver == <<found, registry>>
Request  == <<wf, input, strict>>

-----------------------------------------------------------------------------
(* HttpResolver.discover and register.  One worker that does not answer    *)
(* properly rejects the whole discovery.                                   *)
Registered(urls, url) ==
  IF \E k \in 1..Len(urls) : urls[k] = url THEN urls ELSE Append(urls, url)

DiscoverWorker ==
  LET url == WorkerURLs[found + 1]
  IN /\ result.status = "none" /\ found < Len(WorkerURLs)
     /\ registry' = [id \in Ids |->
                       IF id \in Announced[url] THEN Registered(registry[id], url)
                       ELSE registry[id]]
     /\ found' = found + 1
     /\ UNCHANGED <<Request, counter, args, exec, sent, got, result>>

DiscoverFails ==
  /\ result.status = "none" /\ found < Len(WorkerURLs)
  /\ result' = [result EXCEPT !.status = "rejected"]
  /\ UNCHANGED <<Request, Resolver, counter, args, exec, sent, got>>

(* idx = counter % urls.length, and the counter set to idx + 1.  The slip: *)
(* counting on without the remainder.                                      *)
Turn(c) == counter[Node(c).id] % Len(Providers(c))
CountsOn(c) == counter[Node(c).id] + 1
NextTurn(c) == Turn(c) + 1

-----------------------------------------------------------------------------
(* { ...payload, ...output }, where spreading nothing adds nothing.  The   *)
(* slip: spreading in the other order.                                     *)
Output(r) == IF r.output = Absent THEN [f \in {} |-> 0] ELSE r.output
InputLast(p, r) == [f \in DOMAIN p \cup DOMAIN Output(r) |->
                      IF f \in DOMAIN p THEN p[f] ELSE Output(r)[f]]
Merged(p, r) == [f \in DOMAIN p \cup DOMAIN Output(r) |->
                   IF f \in DOMAIN Output(r) THEN Output(r)[f] ELSE p[f]]

(* checkMonotonicity compares JSON texts.  It throws a TypeError when it   *)
(* looks a field of the input up in an output that is missing; a body that *)
(* is null throws before that.                                             *)
Violates(p, r) == \E f \in DOMAIN p \cap DOMAIN Output(r) : p[f] # Output(r)[f]
Throws(p, r) ==
  \/ r.status = "null"
  \/ r.status # "failure" /\ r.output = Absent /\ DOMAIN p # {}

Callee(c, i) == NodeMap(wf)[Succ(c)[i]]

(* executeNode is entered for the successors `is` of c's node.             *)
Calls(c, is, p) ==
  LET new == {Append(c, i) : i \in is}
  IN args' = [a \in DOMAIN args \cup new |->
                IF a \in new
                THEN [node |-> Callee(c, a[Len(a)]), payload |-> p]
                ELSE args[a]]

WithCalls(ex, c, is) ==
  [a \in DOMAIN ex \cup {Append(c, i) : i \in is} |->
     IF a \in DOMAIN ex THEN ex[a] ELSE Entered]

-----------------------------------------------------------------------------
Init ==
  /\ wf \in Workflows /\ input \in Inputs /\ strict \in StrictModes
  /\ found = 0
  /\ registry = [id \in Ids |-> <<>>]
  /\ counter = [id \in Ids |-> 0]
  /\ args = <<>> /\ exec = <<>> /\ sent = <<>> /\ got = <<>>
  /\ result = [status |-> "none", traces |-> <<>>]

Execute ==
  /\ result.status = "none" /\ found = Len(WorkerURLs)
  /\ IF Defined(wf, wf.start)
     THEN /\ args' = [a \in {Root} |-> [node |-> NodeMap(wf)[wf.start], payload |-> input]]
          /\ exec' = [a \in {Root} |-> Entered]
          /\ result' = [result EXCEPT !.status = "running"]
     ELSE /\ result' = [result EXCEPT !.status = "rejected"]
          /\ UNCHANGED <<args, exec>>
  /\ UNCHANGED <<Request, Resolver, counter, sent, got>>

(* Calls are entered depth first, in the order of the branches.            *)
Before(c, d) ==
  \E k \in 1..Len(d) :
    /\ \A j \in 1..(k - 1) : j <= Len(c) /\ c[j] = d[j]
    /\ k = Len(c) + 1 \/ (k <= Len(c) /\ c[k] < d[k])
Ready(c) == exec[c].pc = "ready"
Enters(c) == Ready(c) /\ \A d \in DOMAIN args : Ready(d) => d = c \/ Before(c, d)

(* executeLinear up to its await.  Any type but filter counts as linear.   *)
NoWorkerFound(c) ==
  /\ Enters(c) /\ ~ Filter(c)
  /\ Providers(c) = <<>>
  /\ Fails(c, "failed", "NO_WORKER")
  /\ UNCHANGED <<Request, Resolver, counter, args, sent, got, result>>

Post(c) ==
  /\ Enters(c) /\ ~ Filter(c)
  /\ Providers(c) # <<>>
  /\ sent' = [a \in DOMAIN sent \cup {c} |->
                IF a = c THEN Providers(c)[Turn(c) + 1] ELSE sent[a]]
  /\ counter' = [counter EXCEPT ![Node(c).id] = NextTurn(c)]
  /\ exec' = [exec EXCEPT ![c].pc = "await"]
  /\ UNCHANGED <<Request, Resolver, args, got, result>>

(* executeFilter up to its await.                                          *)
Verdict(c, i) ==
  LET b == Node(c).branches[i]
      v == Evaluate(b.cond, Payload(c))
  IN IF v = "error" THEN "CONDITION_ERROR"
     ELSE IF v = "true" THEN IF Defined(wf, b.next) THEN "hit" ELSE "MISSING_NODE"
     ELSE "skip"
Branches(c) == 1..Len(Node(c).branches)
Hits(c)  == {i \in Branches(c) : Verdict(c, i) = "hit"}
Stops(c) == {i \in Branches(c) : Verdict(c, i) \in {"CONDITION_ERROR", "MISSING_NODE"}}

FilterFails(c) ==
  /\ Enters(c) /\ Filter(c)
  /\ \E i \in Stops(c) :
       /\ \A j \in Stops(c) : i <= j
       /\ Fails(c, "failed", Verdict(c, i))
  /\ UNCHANGED <<Request, Resolver, counter, args, sent, got, result>>

FilterNoHit(c) ==
  /\ Enters(c) /\ Filter(c)
  /\ Stops(c) = {} /\ Hits(c) = {}
  /\ exec' = [exec EXCEPT ![c] = Returned(@, c, "completed", "none", "completed")]
  /\ UNCHANGED <<Request, Resolver, counter, args, sent, got, result>>

FilterSplit(c) ==
  /\ Enters(c) /\ Filter(c)
  /\ Stops(c) = {} /\ Hits(c) # {}
  /\ Calls(c, Hits(c), Payload(c))
  /\ exec' = [WithCalls(exec, c, Hits(c)) EXCEPT
                ![c].pc = "called", ![c].status = "completed", ![c].hits = Hits(c)]
  /\ UNCHANGED <<Request, Resolver, counter, sent, got, result>>

-----------------------------------------------------------------------------
(* Promises that resolve because those they wait for have.                 *)
Prepended(c, ts) == [k \in 1..Len(ts) |-> Trace(<<c>> \o ts[k].nodes, ts[k].status)]

(* The traces below c, branch by branch, whatever came back first.  The    *)
(* slip: the last branch's traces in place of all.                         *)
LastBranch(c) == exec[Append(c, CHOOSE j \in exec[c].hits : \A k \in exec[c].hits : k <= j)].traces
Below(c) ==
  LET upTo[i \in 0..Len(Succ(c))] ==
        IF i = 0 THEN <<>>
        ELSE upTo[i - 1] \o (IF i \in exec[c].hits THEN exec[Append(c, i)].traces ELSE <<>>)
  IN upTo[Len(Succ(c))]

(* Promise.all.  The slips: Promise.race, and waiting for all branches.    *)
AnyDone(c)    == \E i \in exec[c].hits : exec[Append(c, i)].pc = "done"
EveryBranch(c) == \A i \in 1..Len(Succ(c)) : Started(Append(c, i)) /\ exec[Append(c, i)].pc = "done"
AllDone(c)    == \A i \in exec[c].hits : exec[Append(c, i)].pc = "done"

Resolves(c) ==
  /\ exec[c].pc = "called" /\ AllDone(c)
  /\ exec' = [exec EXCEPT ![c].pc = "done", ![c].traces = Prepended(c, Below(c))]
  /\ UNCHANGED <<Request, Resolver, counter, args, sent, got, result>>

(* The slip: looking for a completed trace, not for a failed one.          *)
SomeCompleted(ts) == IF \E k \in 1..Len(ts) : ts[k].status = "completed" THEN "completed" ELSE "failed"
AllOK(ts) == IF \A k \in 1..Len(ts) : ts[k].status = "completed" THEN "completed" ELSE "failed"

Finish ==
  /\ result.status = "running"
  /\ exec[Root].pc = "done"
  /\ result' = [status |-> AllOK(exec[Root].traces), traces |-> exec[Root].traces]
  /\ UNCHANGED <<Request, Resolver, counter, args, exec, sent, got>>

-----------------------------------------------------------------------------
(* Events: the answer to a POST arrives.                                   *)
Idle ==
  /\ \A c \in DOMAIN args : ~ Ready(c) /\ ~ (exec[c].pc = "called" /\ AllDone(c))
  /\ ~ (result.status = "running" /\ exec[Root].pc = "done")

Waits(c) == Idle /\ exec[c].pc = "await"
Handled(c, o) == got' = [a \in DOMAIN got \cup {c} |-> IF a = c THEN o ELSE got[a]]

(* The worker's answer, and the body of one of status 200.                 *)
Response(c, o) == Dispatch(Announced[sent[c]], Node(c).id, o)
OK(c, o)       == Waits(c) /\ Response(c, o).code = 200
Body(c, o)     == Response(c, o).body

(* fetch rejected, or a body that is no JSON.                              *)
ConnectionFails(c) ==
  /\ Waits(c)
  /\ Fails(c, "failed", "DISPATCH_ERROR")
  /\ UNCHANGED <<Request, Resolver, counter, args, sent, got, result>>

(* A status other than 200, whose body is not looked at.                   *)
DispatchError(c, o) ==
  /\ Waits(c) /\ Response(c, o).code # 200
  /\ Fails(c, "failed", "DISPATCH_ERROR")
  /\ Handled(c, o)
  /\ UNCHANGED <<Request, Resolver, counter, args, sent, result>>

(* The TypeError is thrown outside the try: executeLinear rejects, with it *)
(* every promise above it, and execute rejects at once.  The calls of      *)
(* other branches go on; their traces are lost.                            *)
MergeThrows(c, o) ==
  /\ OK(c, o) /\ Throws(Payload(c), Body(c, o))
  /\ exec' = [exec EXCEPT ![c].pc = "threw"]
  /\ result' = [result EXCEPT !.status = "rejected"]
  /\ Handled(c, o)
  /\ UNCHANGED <<Request, Resolver, counter, args, sent>>

WorkerFailure(c, o) ==
  /\ OK(c, o) /\ ~ Throws(Payload(c), Body(c, o))
  /\ Body(c, o).status = "failure"
  /\ Fails(c, "failed", "WORKER_ERROR")
  /\ Handled(c, o)
  /\ UNCHANGED <<Request, Resolver, counter, args, sent, result>>

Accepted(c, o) ==
  /\ OK(c, o) /\ ~ Throws(Payload(c), Body(c, o))
  /\ Body(c, o).status # "failure"
  /\ ~ (strict /\ Violates(Payload(c), Body(c, o)))

RejectOverwrite(c, o) ==
  /\ OK(c, o) /\ ~ Throws(Payload(c), Body(c, o))
  /\ Body(c, o).status # "failure"
  /\ strict /\ Violates(Payload(c), Body(c, o))
  /\ Fails(c, "failed", "MONOTONICITY_VIOLATION")
  /\ Handled(c, o)
  /\ UNCHANGED <<Request, Resolver, counter, args, sent, result>>

CompleteTerminal(c, o) ==
  /\ Accepted(c, o)
  /\ Node(c).next = NoNode
  /\ exec' = [exec EXCEPT ![c] = Returned(@, c, "completed", "none", "completed")]
  /\ Handled(c, o)
  /\ UNCHANGED <<Request, Resolver, counter, args, sent, result>>

CompleteDangling(c, o) ==
  /\ Accepted(c, o)
  /\ Node(c).next # NoNode /\ ~ Defined(wf, Node(c).next)
  /\ Fails(c, "completed", "MISSING_NODE")
  /\ Handled(c, o)
  /\ UNCHANGED <<Request, Resolver, counter, args, sent, result>>

CompleteAndContinue(c, o) ==
  /\ Accepted(c, o)
  /\ Node(c).next # NoNode /\ Defined(wf, Node(c).next)
  /\ Calls(c, {1}, Merged(Payload(c), Body(c, o)))
  /\ exec' = [WithCalls(exec, c, {1}) EXCEPT
                ![c].pc = "called", ![c].status = "completed", ![c].hits = {1}]
  /\ Handled(c, o)
  /\ UNCHANGED <<Request, Resolver, counter, sent, result>>

-----------------------------------------------------------------------------
EngineStep ==
  \/ Execute \/ Finish
  \/ \E c \in DOMAIN args :
       NoWorkerFound(c) \/ Post(c) \/ FilterFails(c) \/ FilterNoHit(c)
         \/ FilterSplit(c) \/ Resolves(c)

Answer ==
  \/ DiscoverWorker \/ DiscoverFails
  \/ \E c \in DOMAIN args :
       \/ ConnectionFails(c)
       \/ \E o \in Outcomes :
            DispatchError(c, o) \/ MergeThrows(c, o) \/ WorkerFailure(c, o)
              \/ RejectOverwrite(c, o) \/ CompleteTerminal(c, o)
              \/ CompleteDangling(c, o) \/ CompleteAndContinue(c, o)

Next == EngineStep \/ Answer

Spec == Init /\ [][Next]_vars

(* The event loop runs what is queued.  fetchHandlers has a timeout.       *)
LoopSpec == Spec /\ WF_vars(EngineStep) /\ WF_vars(DiscoverWorker \/ DiscoverFails)

(* And every POST is answered, or its connection breaks, in the end.       *)
FairSpec == Spec /\ WF_vars(EngineStep) /\ WF_vars(Answer)
=============================================================================
