---------------------------- MODULE EngineProofs ----------------------------
(***************************************************************************)
(* Proofs about Engine, for any definitions, inputs, workers and replies.  *)
(*                                                                         *)
(* The inductive invariant IInv says how the two trees of the state hang   *)
(* together: args, the calls made, is closed upwards and follows the edges *)
(* of the definition (TreeInv); exec, where each call stands, has children *)
(* only below calls that went on (ExecInv).  EnteredOnce is inductive only *)
(* beside them.                                                            *)
(***************************************************************************)
EXTENDS Cli, WorkflowProofs, FunctionTheorems

TraceShape == [nodes : Seq(Seq(Nat)), status : CallStatus]
ExecShape ==
  [pc : {"ready", "await", "called", "done"}, status : CallStatus, error : ErrorCode,
   hits : SUBSET Nat, joined : SUBSET Nat, traces : Seq(TraceShape)]

(* Every call but the root was made by a call, along an edge of its node.  *)
MadeBy(e) ==
  \E c \in DOMAIN args, i \in Nat :
    /\ e = Append(c, i)
    /\ i \in 1..Len(Succ(c))
    /\ Node(e).id = Succ(c)[i]

TreeInv ==
  /\ wf \in Workflows
  /\ DOMAIN args \subseteq Seq(Nat)
  /\ \A e \in DOMAIN args :
       /\ Defined(wf, Node(e).id) /\ Node(e) = NodeMap(wf)[Node(e).id]
       /\ IF e = Root THEN Node(e).id = wf.start ELSE MadeBy(e)

ExecInv ==
  /\ exec \in [DOMAIN args -> ExecShape]
  /\ \A c \in DOMAIN args :
       /\ exec[c].pc = "await" => Linear(c)
       /\ exec[c].pc \in {"ready", "await"} => \A i \in Nat : ~ Started(Append(c, i))
       /\ exec[c].pc = "called" /\ Linear(c) => Started(Append(c, 1))
       /\ \A i \in exec[c].hits :
            Filter(c) /\ i \in 1..Len(Succ(c)) /\ Defined(wf, Succ(c)[i])

(* Calls are made only once Execute has found the start node.              *)
StartInv ==
  /\ result \in [status : CallStatus \cup {"none", "error"}, traces : Seq(TraceShape)]
  /\ IF result.status \in {"none", "error"} THEN DOMAIN args = {} ELSE Root \in DOMAIN args

IInv == TreeInv /\ ExecInv /\ EnteredOnce

-----------------------------------------------------------------------------
LEMMA NodesParsed ==
  ASSUME NEW w \in Workflows
  PROVE  /\ \A id \in NodeIDs(w) : NodeMap(w)[id] \in NodesOf(w) /\ NodeMap(w)[id].id = id
         /\ \A n \in NodesOf(w) : Len(n.branches) \in Nat /\ n.id \in NodeIDs(w)
BY ParsedNodes, EngineAssumption

(* In a tree an id has one incoming edge, so two calls that enter the same *)
(* id came along the same edge of the same node.                           *)
LEMMA SameEdge ==
  ASSUME NEW w \in Workflows, IsTree(w),
         NEW n \in NodesOf(w), NEW m \in NodesOf(w),
         NEW i \in 1..Len(Successors(n)), NEW j \in 1..Len(Successors(m)),
         Successors(n)[i] = Successors(m)[j]
  PROVE  n.id = m.id /\ i = j
PROOF
<1>1. /\ <<n.id, i, Successors(n)[i]>> \in Edges(w)
      /\ <<m.id, j, Successors(m)[j]>> \in Edges(w)
  BY DEF Edges
<1>2. <<n.id, i, Successors(n)[i]>> = <<m.id, j, Successors(m)[j]>>
  BY <1>1 DEF IsTree
<1> QED BY <1>2

(* In a tree no call is made for the start node but the root call.         *)
LEMMA StartIsNoTarget ==
  ASSUME NEW w \in Workflows, IsTree(w), NEW n \in NodesOf(w),
         NEW i \in 1..Len(Successors(n))
  PROVE  Successors(n)[i] # w.start
PROOF
<1>1. <<n.id, i, Successors(n)[i]>> \in Edges(w)
  BY DEF Edges
<1> QED BY <1>1 DEF IsTree

(* The step that extends the tree: a call of c's i-th successor.           *)
LEMMA CallsKeepsTree ==
  ASSUME TreeInv, EnteredOnce, wf' = wf, NEW c \in DOMAIN args, NEW p,
         NEW i \in 1..Len(Succ(c)), Defined(wf, Succ(c)[i]), Calls(c, i, p)
  PROVE  /\ TreeInv' /\ EnteredOnce'
         /\ DOMAIN args' = DOMAIN args \cup {Append(c, i)}
         /\ \A d \in DOMAIN args : d # Append(c, i) => args'[d] = args[d]
         /\ \A d \in DOMAIN args : args'[d].node = args[d].node
PROOF
<1> DEFINE e == Append(c, i)
           n == NodeMap(wf)[Succ(c)[i]]
<1>1. c \in Seq(Nat) /\ i \in Nat /\ wf \in Workflows
  <2>1. Len(Succ(c)) \in Nat
    BY NodesParsed DEF TreeInv, Successors, Defined
  <2> QED BY <2>1 DEF TreeInv
<1>2. e \in Seq(Nat) /\ e # Root
  BY <1>1, AppendProperties DEF Root
<1>3. n \in NodesOf(wf) /\ n.id = Succ(c)[i]
  BY <1>1, NodesParsed DEF Defined
<1>4. /\ DOMAIN args' = DOMAIN args \cup {e}
      /\ args'[e].node = n
      /\ \A d \in DOMAIN args : d # e => args'[d] = args[d]
  BY DEF Calls, Callee
(* Were e there already, it would be the same node.                        *)
<1>5. e \in DOMAIN args => args[e].node = n
  <2> SUFFICES ASSUME e \in DOMAIN args PROVE args[e].node = n
    OBVIOUS
  <2>1. PICK d \in DOMAIN args, j \in Nat : e = Append(d, j) /\ Node(e).id = Succ(d)[j]
    BY <1>2 DEF TreeInv, MadeBy
  <2>2. d = c /\ j = i
    BY <1>1, <2>1, AddressInjective DEF TreeInv
  <2> QED BY <2>1, <2>2 DEF TreeInv, Node
<1>6. \A d \in DOMAIN args : args'[d].node = args[d].node
  BY <1>4, <1>5
<1>7. \A d \in DOMAIN args : Node(d) \in NodesOf(wf) /\ Defined(wf, Node(d).id)
  BY <1>1, NodesParsed DEF TreeInv, Defined
<1>8. TreeInv'
  <2>1. DOMAIN args' \subseteq Seq(Nat)
    BY <1>2, <1>4 DEF TreeInv
  <2>2. ASSUME NEW d \in DOMAIN args
        PROVE  /\ Defined(wf, args'[d].node.id) /\ args'[d].node = NodeMap(wf)[args'[d].node.id]
               /\ IF d = Root THEN args'[d].node.id = wf.start ELSE MadeBy(d)'
    <3>1. CASE d = Root
      BY <1>6, <3>1 DEF TreeInv, Node
    <3>2. CASE d # Root
      <4>1. PICK b \in DOMAIN args, j \in Nat :
              d = Append(b, j) /\ j \in 1..Len(Succ(b)) /\ Node(d).id = Succ(b)[j]
        BY <3>2 DEF TreeInv, MadeBy
      <4>2. b \in DOMAIN args' /\ args'[b].node = args[b].node /\ args'[d].node = args[d].node
        BY <1>4, <1>6
      <4>3. MadeBy(d)'
        BY <4>1, <4>2 DEF MadeBy, Node, Succ
      <4> QED BY <1>6, <3>2, <4>3 DEF TreeInv, Node
    <3> QED BY <3>1, <3>2
  <2>3. MadeBy(e)'
    <3>1. c \in DOMAIN args' /\ args'[c].node = args[c].node
      BY <1>4, <1>6
    <3> QED BY <1>1, <1>3, <1>4, <3>1 DEF MadeBy, Node, Succ
  <2>4. Defined(wf, n.id) /\ n = NodeMap(wf)[n.id]
    BY <1>3
  <2> QED BY <1>1, <1>2, <1>4, <2>1, <2>2, <2>3, <2>4 DEF TreeInv, Node
<1>9. EnteredOnce'
  <2> SUFFICES ASSUME IsTree(wf), NEW d \in DOMAIN args, d # e, args'[d].node.id = n.id
               PROVE  FALSE
    <3>1. IsTree(wf)' = IsTree(wf)
      OBVIOUS
    <3>2. ASSUME IsTree(wf), NEW a \in DOMAIN args, NEW b \in DOMAIN args,
                 args'[a].node.id = args'[b].node.id
          PROVE  a = b
      BY <1>6, <3>2 DEF EnteredOnce, Node
    <3> QED BY <1>4, <3>1, <3>2 DEF EnteredOnce, Node
  <2>1. args[d].node.id = Succ(c)[i]
    BY <1>3, <1>6
  <2>2. CASE d = Root
    <3>1. Succ(c)[i] = wf.start
      BY <2>1, <2>2 DEF TreeInv, Node
    <3> QED BY <1>1, <1>7, <3>1, StartIsNoTarget DEF Succ
  <2>3. CASE d # Root
    <3>1. PICK b \in DOMAIN args, j \in Nat :
            d = Append(b, j) /\ j \in 1..Len(Succ(b)) /\ Node(d).id = Succ(b)[j]
      BY <2>3 DEF TreeInv, MadeBy
    <3>2. Node(b).id = Node(c).id /\ j = i
      BY <1>1, <1>7, <2>1, <3>1, SameEdge DEF Succ, Node
    <3>3. b = c
      BY <3>2 DEF EnteredOnce
    <3> QED BY <3>1, <3>2, <3>3
  <2> QED BY <2>2, <2>3
<1> QED BY <1>4, <1>6, <1>8, <1>9

-----------------------------------------------------------------------------
(* Before Execute there are no calls.                                      *)
LEMMA InitIInv == Init => IInv
BY DEF Init, IInv, TreeInv, ExecInv, EnteredOnce

(* A step that moves one call and starts none.                             *)
LEMMA CallMoves ==
  ASSUME IInv, wf' = wf, args' = args, NEW c \in DOMAIN args, NEW x \in ExecShape,
         exec' = [exec EXCEPT ![c] = x],
         x.pc = "await" => Linear(c),
         x.pc \in {"ready", "await"} => exec[c].pc \in {"ready", "await"},
         x.pc = "called" => ~ Linear(c),
         \A i \in x.hits : Filter(c) /\ i \in 1..Len(Succ(c)) /\ Defined(wf, Succ(c)[i])
  PROVE  IInv'
PROOF
<1>1. TreeInv' /\ EnteredOnce'
  BY DEF IInv, TreeInv, MadeBy, EnteredOnce, Node, Succ
<1>2. exec' \in [DOMAIN args -> ExecShape]
  BY DEF IInv, ExecInv
<1>3. \A d \in DOMAIN args : exec'[d] = IF d = c THEN x ELSE exec[d]
  BY DEF IInv, ExecInv
<1>4. ExecInv'
  BY <1>2, <1>3 DEF IInv, ExecInv, Node, Succ, Linear, Filter, Started
<1> QED BY <1>1, <1>4 DEF IInv

(* Prepending a call to traces gives traces.                               *)
LEMMA TracesShape ==
  ASSUME NEW c \in Seq(Nat), NEW ts \in Seq(TraceShape)
  PROVE  Prepended(c, ts) \in Seq(TraceShape)
PROOF
<1>1. \A k \in 1..Len(ts) : ts[k] \in TraceShape
  OBVIOUS
<1>2. \A k \in 1..Len(ts) : <<c>> \o ts[k].nodes \in Seq(Seq(Nat))
  BY <1>1, ConcatProperties DEF TraceShape
<1>3. \A k \in 1..Len(ts) : Trace(<<c>> \o ts[k].nodes, ts[k].status) \in TraceShape
  BY <1>1, <1>2 DEF TraceShape, Trace
<1> QED BY <1>3, IsASeq DEF Prepended

(* Returned gives a call that is done and has the branches it had.         *)
LEMMA ReturnedShape ==
  ASSUME IInv, NEW c \in DOMAIN args,
         NEW s \in CallStatus, NEW e \in ErrorCode, NEW t \in CallStatus
  PROVE  /\ Returned(exec[c], c, s, e, t) \in ExecShape
         /\ Returned(exec[c], c, s, e, t).pc = "done"
         /\ Returned(exec[c], c, s, e, t).hits = exec[c].hits
PROOF
<1>1. exec[c] \in ExecShape /\ c \in Seq(Nat)
  BY DEF IInv, ExecInv, TreeInv
<1>2. <<Trace(<<c>>, t)>> \in Seq(TraceShape)
  BY <1>1 DEF TraceShape, Trace
<1> QED BY <1>1, <1>2 DEF Returned, ExecShape

(* A step in which a call returns with a trace of its own.                 *)
LEMMA CallReturns ==
  ASSUME IInv, wf' = wf, args' = args, NEW c \in DOMAIN args,
         NEW s \in CallStatus, NEW e \in ErrorCode, NEW t \in CallStatus,
         exec' = [exec EXCEPT ![c] = Returned(@, c, s, e, t)]
  PROVE  IInv'
PROOF
<1> DEFINE x == Returned(exec[c], c, s, e, t)
<1>1. x \in ExecShape /\ x.pc = "done" /\ x.hits = exec[c].hits
  BY ReturnedShape
<1>2. \A i \in exec[c].hits : Filter(c) /\ i \in 1..Len(Succ(c)) /\ Defined(wf, Succ(c)[i])
  BY DEF IInv, ExecInv
<1>3. exec' = [exec EXCEPT ![c] = x]
  OBVIOUS
<1> HIDE DEF x
<1> QED BY <1>1, <1>2, <1>3, CallMoves

(* A step in which a call fails returns a trace of its own.                *)
LEMMA CallFails ==
  ASSUME IInv, wf' = wf, args' = args, NEW c \in DOMAIN args,
         NEW s \in CallStatus, NEW e \in ErrorCode, Fails(c, s, e)
  PROVE  IInv'
BY CallReturns DEF Fails, CallStatus

(* The branch that is hit is an edge to a defined node.                    *)
LEMMA HitsAreEdges ==
  ASSUME NEW c \in DOMAIN args, Filter(c), NEW i \in Hits(c)
  PROVE  i \in 1..Len(Succ(c)) /\ Defined(wf, Succ(c)[i])
PROOF
<1>1. i \in 1..Len(Node(c).branches) /\ Verdict(c, i) = "hit"
  BY DEF Hits, Branches
<1>2. Defined(wf, Node(c).branches[i].next)
  BY <1>1 DEF Verdict
<1>3. Succ(c) = [j \in 1..Len(Node(c).branches) |-> Node(c).branches[j].next]
  BY DEF Succ, Successors, Filter
<1> QED BY <1>1, <1>2, <1>3

(* A step in which call c makes a call.                                    *)
LEMMA CallStarts ==
  ASSUME IInv, wf' = wf, NEW c \in DOMAIN args, NEW p,
         NEW i \in 1..Len(Succ(c)), Defined(wf, Succ(c)[i]), Calls(c, i, p),
         ~ Started(Append(c, i)), Linear(c) => i = 1,
         NEW x \in ExecShape, x.pc = "called", x.hits = exec[c].hits,
         exec' = [a \in DOMAIN args \cup {Append(c, i)} |->
                    IF a = Append(c, i) THEN Entered ELSE IF a = c THEN x ELSE exec[a]]
  PROVE  IInv'
PROOF
<1> DEFINE e == Append(c, i)
<1>1. /\ TreeInv' /\ EnteredOnce'
      /\ DOMAIN args' = DOMAIN args \cup {e}
      /\ \A d \in DOMAIN args : args'[d].node = args[d].node
  BY CallsKeepsTree DEF IInv
<1>2. c \in Seq(Nat) /\ i \in Nat /\ e \in Seq(Nat) /\ c # e
  <2>1. Len(Succ(c)) \in Nat
    BY NodesParsed DEF IInv, TreeInv, Successors, Defined
  <2> QED BY <2>1, <1>1 DEF IInv, TreeInv, Started
<1>3. Entered \in ExecShape /\ Entered.pc = "ready" /\ Entered.hits = {}
  BY DEF Entered, ExecShape, CallStatus, ErrorCode
<1>4. exec' \in [DOMAIN args' -> ExecShape]
  BY <1>1, <1>3 DEF IInv, ExecInv
<1>5. /\ exec'[e] = Entered /\ exec'[c] = x
      /\ \A d \in DOMAIN args : d # c => exec'[d] = exec[d]
  BY <1>2 DEF Started
(* No call hangs below e before e is made.                                 *)
<1>6. \A j \in Nat : Append(e, j) \notin DOMAIN args'
  <2> SUFFICES ASSUME NEW j \in Nat, Append(e, j) \in DOMAIN args' PROVE FALSE
    OBVIOUS
  <2>0. e \in Seq(Nat)
    BY <1>2
  <2> HIDE DEF e
  <2>1. Append(e, j) # e /\ Append(e, j) # Root
    <3>1. Len(e) \in Nat
      BY <2>0, LenProperties
    <3>2. Len(Append(e, j)) = Len(e) + 1
      BY <2>0, AppendProperties
    <3>3. Len(Root) = 0
      BY DEF Root
    <3>4. \A f : Len(f) = Len(e) + 1 => f # e /\ f # Root
      BY <3>1, <3>3
    <3> QED BY <3>2, <3>4
  <2>2. Append(e, j) \in DOMAIN args
    BY <1>1, <2>1
  <2>3. PICK d \in DOMAIN args, k \in Nat : Append(e, j) = Append(d, k)
    BY <2>1, <2>2 DEF IInv, TreeInv, MadeBy
  <2>4. d \in Seq(Nat)
    BY DEF IInv, TreeInv
  <2>5. d = e
    BY <2>0, <2>3, <2>4, AddressInjective
  <2> USE DEF e
  <2> QED BY <2>5 DEF Started
<1>7. \A d \in DOMAIN args, j \in Nat : Append(d, j) = e => d = c
  <2> TAKE d \in DOMAIN args, j \in Nat
  <2>1. d \in Seq(Nat)
    BY DEF IInv, TreeInv
  <2> QED BY <1>2, <2>1, AddressInjective
<1>8. ExecInv'
  <2> SUFFICES ASSUME NEW d \in DOMAIN args'
               PROVE  /\ exec'[d].pc = "await" => Linear(d)'
                      /\ exec'[d].pc \in {"ready", "await"} =>
                            \A j \in Nat : Append(d, j) \notin DOMAIN args'
                      /\ exec'[d].pc = "called" /\ Linear(d)' => Append(d, 1) \in DOMAIN args'
                      /\ \A j \in exec'[d].hits :
                           /\ Filter(d)' /\ j \in 1..Len(Succ(d)')
                           /\ Defined(wf, Succ(d)'[j])
    BY <1>4 DEF ExecInv, Started
  <2>1. CASE d = e
    BY <1>3, <1>5, <1>6, <2>1
  <2>2. CASE d = c
    <3>1. /\ exec'[d].pc = "called" /\ exec'[d].hits = exec[d].hits
          /\ Linear(d)' = Linear(d) /\ Filter(d)' = Filter(d) /\ Succ(d)' = Succ(d)
      BY <1>1, <1>5, <2>2 DEF Linear, Filter, Succ, Node
    <3>2. Linear(d) => Append(d, 1) \in DOMAIN args'
      BY <1>1, <2>2
    <3>3. \A j \in exec[d].hits : Filter(d) /\ j \in 1..Len(Succ(d)) /\ Defined(wf, Succ(d)[j])
      BY <2>2 DEF IInv, ExecInv
    <3> QED BY <3>1, <3>2, <3>3
  <2>3. CASE d \in DOMAIN args /\ d # c
    <3>1. /\ exec'[d] = exec[d]
          /\ Linear(d)' = Linear(d) /\ Filter(d)' = Filter(d) /\ Succ(d)' = Succ(d)
      BY <1>1, <1>5, <2>3 DEF Linear, Filter, Succ, Node
    <3>2. \A j \in Nat : Append(d, j) \in DOMAIN args' => Append(d, j) \in DOMAIN args
      BY <1>1, <1>7, <2>3
    <3>3. DOMAIN args \subseteq DOMAIN args'
      BY <1>1
    <3> QED BY <2>3, <3>1, <3>2, <3>3 DEF IInv, ExecInv, Started
  <2> QED BY <1>1, <2>1, <2>2, <2>3
<1> QED BY <1>1, <1>8 DEF IInv

(* A step that leaves the calls alone keeps the invariant.                 *)
LEMMA NothingMoves ==
  ASSUME IInv, wf' = wf, args' = args, exec' = exec
  PROVE  IInv'
BY DEF IInv, TreeInv, ExecInv, EnteredOnce, MadeBy, Node, Succ, Linear, Filter, Started

(* Execute makes the root call, for the start node.                        *)
LEMMA ExecuteStep == IInv /\ Execute => IInv'
PROOF
<1> SUFFICES ASSUME IInv, Execute PROVE IInv'
  OBVIOUS
<1>1. CASE ~ Defined(wf, wf.start)
  BY <1>1, NothingMoves DEF Execute
<1>2. CASE Defined(wf, wf.start)
  <2>1. /\ args' = [a \in {Root} |-> [node |-> NodeMap(wf)[wf.start],
                                      payload |-> Root, parents |-> NilSlice]]
        /\ exec' = [a \in {Root} |-> Entered]
        /\ wf' = wf /\ wf \in Workflows
    BY <1>2 DEF Execute, IInv, TreeInv
  <2>2. NodeMap(wf)[wf.start].id = wf.start
    BY <1>2, <2>1, NodesParsed DEF Defined
  <2>3. Entered \in ExecShape /\ Entered.pc = "ready" /\ Entered.hits = {}
    BY DEF Entered, ExecShape, CallStatus, ErrorCode
  <2>4. \A i \in Nat : Append(Root, i) # Root /\ Root \in Seq(Nat)
    BY DEF Root
  <2>5. TreeInv'
    BY <1>2, <2>1, <2>2, <2>4 DEF TreeInv, Node
  <2>6. ExecInv'
    BY <2>1, <2>3, <2>4 DEF ExecInv, Started
  <2>7. EnteredOnce'
    BY <2>1 DEF EnteredOnce
  <2> QED BY <2>5, <2>6, <2>7 DEF IInv
<1> QED BY <1>1, <1>2

(* Dispatch makes the call wait for its worker.                            *)
LEMMA DispatchStep == ASSUME IInv, NEW c \in DOMAIN args, Dispatch(c) PROVE IInv'
PROOF
<1> DEFINE x == [exec[c] EXCEPT !.pc = "await"]
<1>1. exec[c] \in ExecShape
  BY DEF IInv, ExecInv
<1>2. x \in ExecShape /\ x.pc = "await" /\ x.hits = exec[c].hits
  BY <1>1 DEF ExecShape
<1>3. exec' = [exec EXCEPT ![c] = x] /\ Linear(c) /\ exec[c].pc = "ready"
  BY DEF Dispatch
<1>4. \A i \in exec[c].hits : Filter(c) /\ i \in 1..Len(Succ(c)) /\ Defined(wf, Succ(c)[i])
  BY DEF IInv, ExecInv
<1>5. wf' = wf /\ args' = args
  BY DEF Dispatch
<1> HIDE DEF x
<1> QED BY <1>2, <1>3, <1>4, <1>5, CallMoves

(* A linear node calls the node named by its next_node.                    *)
LEMMA ContinueStep == ASSUME IInv, NEW c \in DOMAIN args, CompleteAndContinue(c) PROVE IInv'
PROOF
<1> DEFINE e == Append(c, 1)
           x == [exec[c] EXCEPT !.pc = "called", !.status = "completed", !.error = Warning(c)]
<1>1. exec[c] \in ExecShape /\ exec[c].pc = "await"
  BY DEF IInv, ExecInv, CompleteAndContinue, Responded
<1>2. Linear(c) /\ ~ Started(e)
  BY <1>1 DEF IInv, ExecInv
<1>3. Succ(c) = <<Node(c).next>> /\ Defined(wf, Node(c).next)
  BY <1>2 DEF CompleteAndContinue, Succ, Successors, Linear, LinearTypes
<1>4. 1 \in 1..Len(Succ(c)) /\ Defined(wf, Succ(c)[1])
  BY <1>3
<1>5. x \in ExecShape /\ x.pc = "called" /\ x.hits = exec[c].hits
  BY <1>1 DEF ExecShape, Warning, CallStatus, ErrorCode
<1>6. exec' = [a \in DOMAIN args \cup {e} |->
                 IF a = e THEN Entered ELSE IF a = c THEN x ELSE exec[a]]
  <2>1. DOMAIN exec = DOMAIN args /\ c # e
    BY <1>2 DEF IInv, ExecInv, Started
  <2>2. exec' = [WithCall(exec, c, 1) EXCEPT
                   ![c].pc = "called", ![c].status = "completed", ![c].error = Warning(c)]
    BY DEF CompleteAndContinue
  <2> QED BY <2>1, <2>2 DEF WithCall
<1>7. Calls(c, 1, e) /\ wf' = wf
  BY DEF CompleteAndContinue
<1> HIDE DEF x
<1> QED BY <1>2, <1>4, <1>5, <1>6, <1>7, CallStarts

(* A goroutine calls the node its branch names.                            *)
LEMMA BranchStep ==
  ASSUME IInv, NEW c \in DOMAIN args, NEW i \in exec[c].hits, StartBranch(c, i) PROVE IInv'
PROOF
<1> DEFINE e == Append(c, i)
<1>1. exec[c] \in ExecShape /\ exec[c].pc = "called" /\ Filter(c) /\ ~ Started(e)
  BY DEF IInv, ExecInv, StartBranch
<1>2. i \in 1..Len(Succ(c)) /\ Defined(wf, Succ(c)[i])
  BY DEF IInv, ExecInv
<1>3. ~ Linear(c)
  BY <1>1 DEF Linear, Filter, LinearTypes
<1>4. exec' = [a \in DOMAIN args \cup {e} |->
                 IF a = e THEN Entered ELSE IF a = c THEN exec[c] ELSE exec[a]]
  BY DEF IInv, ExecInv, StartBranch, WithCall
<1>5. Calls(c, i, args[c].payload) /\ wf' = wf
  BY DEF StartBranch
<1> QED BY <1>1, <1>2, <1>3, <1>4, <1>5, CallStarts

(* A call that goes on waiting below, or is through with waiting.          *)
LEMMA ReturnStep ==
  ASSUME IInv, wf' = wf, args' = args, NEW c \in DOMAIN args, exec[c].pc = "called",
         NEW ts \in Seq(TraceShape), NEW js \in SUBSET Nat, NEW pc \in {"called", "done"},
         pc = "called" => Filter(c),
         exec' = [exec EXCEPT ![c].pc = pc, ![c].joined = js, ![c].traces = ts]
  PROVE  IInv'
PROOF
<1> DEFINE x == [exec[c] EXCEPT !.pc = pc, !.joined = js, !.traces = ts]
<1>1. exec[c] \in ExecShape
  BY DEF IInv, ExecInv
<1>2. x \in ExecShape /\ x.pc = pc /\ x.hits = exec[c].hits
  BY <1>1 DEF ExecShape
<1>3. exec' = [exec EXCEPT ![c] = x]
  BY DEF IInv, ExecInv
<1>4. \A i \in exec[c].hits : Filter(c) /\ i \in 1..Len(Succ(c)) /\ Defined(wf, Succ(c)[i])
  BY DEF IInv, ExecInv
<1>5. Filter(c) => ~ Linear(c)
  BY DEF Linear, Filter, LinearTypes
<1> HIDE DEF x
<1> QED BY <1>2, <1>3, <1>4, <1>5, CallMoves

(* The filter records its activated branches and starts none yet.          *)
LEMMA SplitStep == ASSUME IInv, NEW c \in DOMAIN args, FilterSplit(c) PROVE IInv'
PROOF
<1> DEFINE x == [exec[c] EXCEPT !.pc = "called", !.status = "completed", !.hits = Hits(c)]
<1>1. exec[c] \in ExecShape /\ Filter(c)
  BY DEF IInv, ExecInv, FilterSplit
<1>2. Hits(c) \in SUBSET Nat
  <2>1. Len(Node(c).branches) \in Nat
    BY NodesParsed DEF IInv, TreeInv, Defined
  <2> QED BY <2>1 DEF Hits, Branches
<1>3. x \in ExecShape /\ x.pc = "called" /\ x.hits = Hits(c)
  BY <1>1, <1>2 DEF ExecShape, CallStatus
<1>4. exec' = [exec EXCEPT ![c] = x] /\ wf' = wf /\ args' = args
  BY DEF FilterSplit, IInv, ExecInv
<1>5. \A i \in x.hits : Filter(c) /\ i \in 1..Len(Succ(c)) /\ Defined(wf, Succ(c)[i])
  BY <1>1, <1>3, HitsAreEdges
<1>6. ~ Linear(c)
  BY <1>1 DEF Linear, Filter, LinearTypes
<1> HIDE DEF x
<1> QED BY <1>3, <1>4, <1>5, <1>6, CallMoves

(* A linear node returns the traces of the rest of its chain.              *)
LEMMA LinearReturnStep == ASSUME IInv, NEW c \in DOMAIN args, LinearReturn(c) PROVE IInv'
PROOF
<1> DEFINE ts == Prepended(c, exec[Append(c, 1)].traces)
<1>1. exec[c] \in ExecShape /\ exec[c].pc = "called" /\ Linear(c)
  BY DEF IInv, ExecInv, LinearReturn
<1>2. exec[Append(c, 1)].traces \in Seq(TraceShape) /\ c \in Seq(Nat)
  BY <1>1 DEF IInv, ExecInv, TreeInv, Started, ExecShape
<1>3. ts \in Seq(TraceShape)
  BY <1>2, TracesShape
<1>4. exec[c].joined \in SUBSET Nat
  BY <1>1 DEF ExecShape
<1>5. exec' = [exec EXCEPT ![c].pc = "done", ![c].joined = exec[c].joined, ![c].traces = ts]
  <2>1. [exec[c] EXCEPT !.pc = "done", !.traces = ts]
          = [exec[c] EXCEPT !.pc = "done", !.joined = exec[c].joined, !.traces = ts]
    BY <1>1 DEF ExecShape
  <2>2. exec' = [exec EXCEPT ![c] = [exec[c] EXCEPT !.pc = "done", !.traces = ts]]
    BY DEF LinearReturn, IInv, ExecInv
  <2> QED BY <2>1, <2>2 DEF IInv, ExecInv
<1>6. wf' = wf /\ args' = args
  BY DEF LinearReturn
<1> HIDE DEF ts
<1> QED BY <1>1, <1>3, <1>4, <1>5, <1>6, ReturnStep

(* A goroutine adds its traces under the mutex.                            *)
LEMMA JoinStep ==
  ASSUME IInv, NEW c \in DOMAIN args, NEW i \in exec[c].hits, JoinBranch(c, i) PROVE IInv'
PROOF
<1> DEFINE ts == JoinedTraces(c, i)
           js == exec[c].joined \cup {i}
<1>1. /\ exec[c] \in ExecShape /\ exec[c].pc = "called" /\ Filter(c) /\ i \in Nat
      /\ Append(c, i) \in DOMAIN args
  BY DEF IInv, ExecInv, JoinBranch, ExecShape, Started
<1>2. /\ exec[Append(c, i)].traces \in Seq(TraceShape) /\ exec[c].traces \in Seq(TraceShape)
      /\ c \in Seq(Nat)
  BY <1>1 DEF IInv, ExecInv, TreeInv, ExecShape
<1>3. ts \in Seq(TraceShape) /\ js \in SUBSET Nat
  BY <1>1, <1>2, TracesShape, ConcatProperties DEF JoinedTraces, ExecShape
<1>4. exec' = [exec EXCEPT ![c].pc = "called", ![c].joined = js, ![c].traces = ts]
  <2>1. [exec[c] EXCEPT !.joined = js, !.traces = ts]
          = [exec[c] EXCEPT !.pc = "called", !.joined = js, !.traces = ts]
    BY <1>1 DEF ExecShape
  <2>2. exec' = [exec EXCEPT ![c] = [exec[c] EXCEPT !.joined = js, !.traces = ts]]
    BY DEF JoinBranch, IInv, ExecInv
  <2> QED BY <2>1, <2>2 DEF IInv, ExecInv
<1>5. wf' = wf /\ args' = args
  BY DEF JoinBranch
<1> HIDE DEF ts, js
<1> QED BY <1>1, <1>3, <1>4, <1>5, ReturnStep

(* The filter returns after wg.Wait.                                       *)
LEMMA FilterReturnStep == ASSUME IInv, NEW c \in DOMAIN args, FilterReturn(c) PROVE IInv'
PROOF
<1> DEFINE x == [exec[c] EXCEPT !.pc = "done"]
<1>1. exec[c] \in ExecShape
  BY DEF IInv, ExecInv
<1>2. x \in ExecShape /\ x.pc = "done" /\ x.hits = exec[c].hits
  BY <1>1 DEF ExecShape
<1>3. exec' = [exec EXCEPT ![c] = x] /\ wf' = wf /\ args' = args
  BY DEF FilterReturn
<1>4. \A i \in exec[c].hits : Filter(c) /\ i \in 1..Len(Succ(c)) /\ Defined(wf, Succ(c)[i])
  BY DEF IInv, ExecInv
<1> HIDE DEF x
<1> QED BY <1>2, <1>3, <1>4, CallMoves

(* A condition error or an undefined branch target ends the filter.        *)
LEMMA FilterFailsStep == ASSUME IInv, NEW c \in DOMAIN args, FilterFails(c) PROVE IInv'
PROOF
<1>1. PICK i \in Stops(c) : Fails(c, "failed", Verdict(c, i))
  BY DEF FilterFails
<1>2. Verdict(c, i) \in ErrorCode /\ "failed" \in CallStatus
  BY DEF Stops, ErrorCode, CallStatus
<1>3. wf' = wf /\ args' = args
  BY DEF FilterFails
<1> QED BY <1>1, <1>2, <1>3, CallFails

-----------------------------------------------------------------------------
(* Every step keeps the invariant: one case per action.                    *)
LEMMA NextIInv == IInv /\ [Next]_vars => IInv'
PROOF
<1> SUFFICES ASSUME IInv, [Next]_vars PROVE IInv'
  OBVIOUS
<1>0. /\ {"INVALID_TYPE", "NO_WORKER", "DISPATCH_ERROR", "WORKER_ERROR", "none",
          "MONOTONICITY_VIOLATION", "MISSING_NODE"} \subseteq ErrorCode
      /\ {"failed", "completed"} \subseteq CallStatus
  BY DEF ErrorCode, CallStatus
<1>1. CASE Execute
  BY <1>1, ExecuteStep
<1>2. ASSUME NEW c \in DOMAIN args, InvalidType(c) PROVE IInv'
  BY <1>0, <1>2, CallFails DEF InvalidType
<1>3. ASSUME NEW c \in DOMAIN args, LinearStep(c) PROVE IInv'
  <2>1. CASE NoWorkerFound(c)
    BY <1>0, <2>1, CallFails DEF NoWorkerFound
  <2>2. CASE Dispatch(c)
    BY <2>2, DispatchStep
  <2>3. CASE DispatchError(c)
    BY <1>0, <2>3, CallFails DEF DispatchError
  <2>4. CASE WorkerFailure(c)
    BY <1>0, <2>4, CallFails DEF WorkerFailure
  <2>5. CASE RejectOverwrite(c)
    BY <1>0, <2>5, CallFails DEF RejectOverwrite
  <2>6. CASE CompleteTerminal(c)
    <3>1. Warning(c) \in ErrorCode
      BY DEF Warning, ErrorCode
    <3> QED BY <1>0, <2>6, <3>1, CallReturns DEF CompleteTerminal
  <2>7. CASE CompleteDangling(c)
    BY <1>0, <2>7, CallFails DEF CompleteDangling
  <2>8. CASE CompleteAndContinue(c)
    BY <2>8, ContinueStep
  <2>9. CASE LinearReturn(c)
    BY <2>9, LinearReturnStep
  <2> QED BY <1>3, <2>1, <2>2, <2>3, <2>4, <2>5, <2>6, <2>7, <2>8, <2>9 DEF LinearStep
<1>4. ASSUME NEW c \in DOMAIN args, FilterStep(c) PROVE IInv'
  <2>1. CASE FilterFails(c)
    BY <2>1, FilterFailsStep
  <2>2. CASE FilterNoHit(c)
    BY <1>0, <2>2, CallReturns DEF FilterNoHit
  <2>3. CASE FilterSplit(c)
    BY <2>3, SplitStep
  <2>4. CASE FilterReturn(c)
    BY <2>4, FilterReturnStep
  <2>5. ASSUME NEW i \in exec[c].hits, StartBranch(c, i) PROVE IInv'
    BY <2>5, BranchStep
  <2>6. ASSUME NEW i \in exec[c].hits, JoinBranch(c, i) PROVE IInv'
    BY <2>6, JoinStep
  <2> QED BY <1>4, <2>1, <2>2, <2>3, <2>4, <2>5, <2>6 DEF FilterStep
<1>5. CASE Finish
  BY <1>5, NothingMoves DEF Finish
<1>6. ASSUME NEW c \in DOMAIN wire, WorkerAnswers(c) PROVE IInv'
  BY <1>6, NothingMoves DEF WorkerAnswers
<1>7. CASE UNCHANGED vars
  BY <1>7, NothingMoves DEF vars
<1> QED BY <1>1, <1>2, <1>3, <1>4, <1>5, <1>6, <1>7 DEF Next, EngineStep

-----------------------------------------------------------------------------
(* What a step of one call leaves alone: the result, and the other calls.  *)
OnlyCall(c) ==
  /\ result' = result
  /\ DOMAIN args \subseteq DOMAIN args'
  /\ exec[c].pc # "done"
  /\ \A d \in DOMAIN exec : d # c => exec'[d] = exec[d]

(* A step of one call changes no other call that was there before, and     *)
(* never one that has returned.                                            *)
LEMMA CallStepsAreLocal ==
  ASSUME IInv, NEW c \in DOMAIN args,
         InvalidType(c) \/ LinearStep(c) \/ FilterStep(c)
  PROVE  OnlyCall(c)
PROOF
<1> USE DEF OnlyCall
<1>1. DOMAIN exec = DOMAIN args /\ exec = [d \in DOMAIN args |-> exec[d]]
  BY DEF IInv, ExecInv
<1>2. ASSUME NEW s, NEW e, Fails(c, s, e), args' = args, result' = result,
             exec[c].pc \in {"ready", "await"}
      PROVE  OnlyCall(c)
  BY <1>1, <1>2 DEF Fails
<1>3. CASE InvalidType(c)
  BY <1>2, <1>3 DEF InvalidType
<1>4. CASE LinearStep(c)
  <2>1. CASE NoWorkerFound(c) \/ DispatchError(c) \/ WorkerFailure(c)
             \/ RejectOverwrite(c) \/ CompleteDangling(c)
    BY <1>2, <2>1 DEF NoWorkerFound, DispatchError, WorkerFailure, RejectOverwrite,
                      CompleteDangling, Responded
  <2>2. CASE Dispatch(c) \/ CompleteTerminal(c) \/ LinearReturn(c)
    BY <1>1, <2>2 DEF Dispatch, CompleteTerminal, LinearReturn, Responded
  <2>3. CASE CompleteAndContinue(c)
    <3>1. exec[c].pc = "await" /\ Append(c, 1) \notin DOMAIN args
      BY <2>3 DEF CompleteAndContinue, Responded, IInv, ExecInv, Started
    <3> QED BY <1>1, <2>3, <3>1 DEF CompleteAndContinue, Calls, WithCall
  <2> QED BY <1>4, <2>1, <2>2, <2>3 DEF LinearStep
<1>5. CASE FilterStep(c)
  <2>1. CASE FilterFails(c)
    BY <1>2, <2>1 DEF FilterFails
  <2>2. CASE FilterNoHit(c) \/ FilterSplit(c) \/ FilterReturn(c)
    BY <1>1, <2>2 DEF FilterNoHit, FilterSplit, FilterReturn
  <2>3. ASSUME NEW i \in exec[c].hits, StartBranch(c, i) PROVE OnlyCall(c)
    BY <1>1, <2>3 DEF StartBranch, Started, Calls, WithCall
  <2>4. ASSUME NEW i \in exec[c].hits, JoinBranch(c, i) PROVE OnlyCall(c)
    BY <1>1, <2>4 DEF JoinBranch
  <2> QED BY <1>5, <2>1, <2>2, <2>3, <2>4 DEF FilterStep
<1> QED BY <1>3, <1>4, <1>5

(* Before Execute nothing has run.                                         *)
LEMMA InitStart == Init => StartInv
BY DEF Init, StartInv

(* Execute runs once, before there are calls.                              *)
LEMMA NextStart == IInv /\ StartInv /\ [Next]_vars => StartInv'
PROOF
<1> SUFFICES ASSUME IInv, StartInv, [Next]_vars PROVE StartInv'
  OBVIOUS
<1>1. CASE Execute
  BY <1>1 DEF Execute, StartInv, CallStatus
<1>2. ASSUME NEW c \in DOMAIN args, InvalidType(c) \/ LinearStep(c) \/ FilterStep(c)
      PROVE  StartInv'
  <2>1. result' = result /\ DOMAIN args \subseteq DOMAIN args'
    BY <1>2, CallStepsAreLocal DEF OnlyCall
  <2> QED BY <1>2, <2>1 DEF StartInv
<1>3. CASE Finish
  <2>1. Root \in DOMAIN args /\ args' = args
    BY <1>3 DEF Finish, StartInv
  <2>2. exec[Root].traces \in Seq(TraceShape)
    BY <2>1 DEF IInv, ExecInv, ExecShape
  <2>3. OverallStatus(exec[Root].traces) \in {"completed", "failed"}
    BY DEF OverallStatus
  <2> QED BY <1>3, <2>1, <2>2, <2>3 DEF Finish, StartInv, CallStatus
<1>4. CASE args' = args /\ result' = result
  BY <1>4 DEF StartInv
<1> QED BY <1>1, <1>2, <1>3, <1>4 DEF Next, EngineStep, WorkerAnswers, vars

(* A call that returned is never revised: a reply that arrives after the   *)
(* dispatcher gave up changes nothing of what was reported.                *)
THEOREM SettledStaysSettled == Spec => SettledForGood
PROOF
<1> DEFINE Keeps == \A c \in DOMAIN exec : exec[c].pc = "done" => exec'[c] = exec[c]
<1>1. IInv /\ StartInv /\ Next => Keeps
  <2> SUFFICES ASSUME IInv, StartInv, Next, NEW d \in DOMAIN exec, exec[d].pc = "done"
               PROVE  exec'[d] = exec[d]
    OBVIOUS
  <2>1. CASE Execute
    BY <2>1 DEF Execute, StartInv, IInv, ExecInv
  <2>2. ASSUME NEW c \in DOMAIN args, InvalidType(c) \/ LinearStep(c) \/ FilterStep(c)
        PROVE  exec'[d] = exec[d]
    BY <2>2, CallStepsAreLocal DEF OnlyCall
  <2>3. CASE exec' = exec
    BY <2>3
  <2> QED BY <2>1, <2>2, <2>3 DEF Next, EngineStep, Finish, WorkerAnswers
<1>2. IInv /\ StartInv /\ [Next]_vars => [Keeps]_vars
  BY <1>1
<1> QED BY InitIInv, NextIInv, InitStart, NextStart, <1>2, PTL DEF Spec, SettledForGood

-----------------------------------------------------------------------------
(***************************************************************************)
(* Payloads: what a call is handed depends on its own ancestors only, and  *)
(* what strict mode keeps of it further down.                              *)
(*                                                                         *)
(* A payload is fixed when its call is made; the invariant says why it     *)
(* stays that of the call's lineage.  A linear call that has a child has   *)
(* got its reply (HeapInv), no reply is replaced, and no map is written    *)
(* twice.                                                                  *)
(***************************************************************************)

Answered(c) == Posted(c) /\ wire[c].reply # NoReply

(* The calls that await a reply have posted, and none that is yet to start.*)
WireInv ==
  /\ \A c \in DOMAIN wire : c \in DOMAIN args /\ exec[c].pc # "ready"
  /\ \A c \in DOMAIN args : exec[c].pc = "await" => Posted(c)

HeapInv ==
  /\ input \in Inputs
  /\ DOMAIN maps \subseteq DOMAIN args
  /\ \A c \in DOMAIN args :
       /\ args[c].payload \in DOMAIN maps
       /\ \A k \in 0..(Len(c) - 1) :
            /\ Prefix(c, k) \in DOMAIN args
            /\ Linear(Prefix(c, k)) => Answered(Prefix(c, k))

-----------------------------------------------------------------------------
(* A step that changes no payload, no node and no reply that is there      *)
(* keeps the lineage of every call there was.                              *)
Kept ==
  /\ wf' = wf /\ input' = input
  /\ \A c \in DOMAIN args : c \in DOMAIN args' /\ args'[c] = args[c]
  /\ \A a \in DOMAIN maps : a \in DOMAIN maps' /\ maps'[a] = maps[a]
  /\ \A c \in DOMAIN wire :
       /\ c \in DOMAIN wire'
       /\ wire[c].reply # NoReply => wire'[c].reply = wire[c].reply

LEMMA LineageKept ==
  ASSUME HeapInv, Kept, NEW c \in DOMAIN args
  PROVE  OutputsAbove(c)' = OutputsAbove(c) /\ Lineage(c)' = Lineage(c)
PROOF
<1>1. \A k \in 0..(Len(c) - 1) :
        /\ args'[Prefix(c, k)] = args[Prefix(c, k)]
        /\ Linear(Prefix(c, k)) => wire'[Prefix(c, k)].reply = wire[Prefix(c, k)].reply
  BY DEF HeapInv, Kept, Answered, Posted
<1>2. OutputsAbove(c)' = OutputsAbove(c)
  BY <1>1 DEF OutputsAbove, Ancestry, Prefix, Output, Linear, Node
<1> QED BY <1>2 DEF Lineage, Kept

-----------------------------------------------------------------------------
PayInv == HeapInv /\ BranchIsolation

(* A step that makes no call.                                              *)
LEMMA QuietStep ==
  ASSUME PayInv, Kept, args' = args, maps' = maps
  PROVE  PayInv'
PROOF
<1>1. HeapInv'
  <2>1. \A c \in DOMAIN args : Answered(c) => c \in DOMAIN wire' /\ wire'[c].reply # NoReply
    BY DEF Kept, Answered, Posted
  <2> QED BY <2>1 DEF PayInv, HeapInv, Kept, Answered, Posted, Linear, Node, Prefix
<1>2. \A c \in DOMAIN args : maps'[args'[c].payload] = Lineage(c)
  BY DEF PayInv, BranchIsolation, Payload
<1>3. \A c \in DOMAIN args : Lineage(c)' = Lineage(c)
  BY LineageKept DEF PayInv
<1>4. BranchIsolation'
  BY <1>2, <1>3 DEF BranchIsolation, Payload
<1> QED BY <1>1, <1>4 DEF PayInv

(* A step in which call c makes a call, and hands it its own payload or a  *)
(* new map into which c's output is merged.                                *)
LEMMA CallStep ==
  ASSUME IInv, PayInv, Kept, wire' = wire, NEW c \in DOMAIN args, NEW i \in Nat, NEW p,
         ~ Started(Append(c, i)), Calls(c, i, p), Linear(c) => Answered(c),
         DOMAIN maps' \subseteq DOMAIN args \cup {Append(c, i)}, p \in DOMAIN maps',
         maps'[p] = IF Linear(c) THEN Merge(Payload(c), Output(c)) ELSE Payload(c)
  PROVE  PayInv'
PROOF
<1> DEFINE e == Append(c, i)
           n == Len(c)
<1>1. /\ c \in Seq(Nat) /\ n \in Nat /\ Len(e) = n + 1 /\ Prefix(e, n) = c
      /\ \A k \in 0..(n - 1) : Prefix(e, k) = Prefix(c, k)
  BY PrefixesOfChild DEF IInv, TreeInv
<1>2. DOMAIN args' = DOMAIN args \cup {e} /\ args'[e].payload = p /\ e \notin DOMAIN args
  BY DEF Calls, Started
<1> HIDE DEF e
<1>3. 0..(Len(e) - 1) = 0..(n - 1) \cup {n} /\ \A k \in 0..(n - 1) : k \in Nat /\ k < n
  BY <1>1
<1>4. \A k \in 0..(n - 1) :
        /\ Prefix(c, k) \in DOMAIN args /\ args'[Prefix(c, k)] = args[Prefix(c, k)]
        /\ Linear(Prefix(c, k)) => Answered(Prefix(c, k))
  BY <1>1 DEF PayInv, HeapInv, Kept
<1>5. args'[c] = args[c]
  BY DEF Kept
<1>6. HeapInv'
  <2>1. DOMAIN maps' \subseteq DOMAIN args'
    BY <1>2 DEF e
  <2>2. input' \in Inputs
    BY DEF PayInv, HeapInv, Kept
  <2>3. ASSUME NEW d \in DOMAIN args
        PROVE  /\ args'[d].payload \in DOMAIN maps'
               /\ \A k \in 0..(Len(d) - 1) :
                    /\ Prefix(d, k) \in DOMAIN args'
                    /\ Linear(Prefix(d, k))' => Answered(Prefix(d, k))'
    BY <1>2 DEF PayInv, HeapInv, Kept, Linear, Node, Answered, Posted, Prefix
  <2>4. \A k \in 0..(Len(e) - 1) :
          /\ Prefix(e, k) \in DOMAIN args'
          /\ Linear(Prefix(e, k))' => Answered(Prefix(e, k))'
    BY <1>1, <1>2, <1>3, <1>4, <1>5 DEF Linear, Node, Answered, Posted, Prefix
  <2> QED BY <1>2, <2>1, <2>2, <2>3, <2>4 DEF HeapInv
<1>7. /\ OutputsAbove(c)' = OutputsAbove(c) /\ Lineage(c) = Payload(c)
      /\ Lineage(c) = Overlaid(input, OutputsAbove(c))
  BY LineageKept DEF PayInv, BranchIsolation, Lineage
<1>8. /\ Linear(c)' = Linear(c) /\ Output(c)' = Output(c)
      /\ \A k \in 0..(n - 1) : /\ Linear(Prefix(e, k))' = Linear(Prefix(c, k))
                                /\ Output(Prefix(e, k))' = Output(Prefix(c, k))
  BY <1>1, <1>4, <1>5 DEF Linear, Node, Output, Prefix
<1>9. maps'[p] = Lineage(e)'
  <2>1. CASE ~ Linear(c)
    <3>1. Ancestry(e)' = Ancestry(c)
      BY <1>1, <1>3, <1>8, <2>1 DEF Ancestry, Linear, Node, Prefix
    <3>2. OutputsAbove(e)' = OutputsAbove(c)
      BY <1>8, <3>1 DEF OutputsAbove, Ancestry, Output, Prefix
    <3> QED BY <1>7, <2>1, <3>2 DEF Lineage, Kept
  <2>2. CASE Linear(c)
    <3>1. Ancestry(e)' = Ancestry(c) \cup {n}
      BY <1>1, <1>3, <1>8, <2>2 DEF Ancestry, Linear, Node, Prefix
    <3>2. /\ DOMAIN OutputsAbove(e)' = Ancestry(c) \cup {n}
          /\ OutputsAbove(e)'[n] = Output(c)
          /\ \A k \in Ancestry(c) : OutputsAbove(e)'[k] = OutputsAbove(c)[k]
      BY <1>1, <1>8, <3>1 DEF OutputsAbove, Ancestry, Output, Prefix
    <3>3. DOMAIN OutputsAbove(c) = Ancestry(c) /\ \A k \in Ancestry(c) : k \in Nat /\ k < n
      BY <1>3 DEF OutputsAbove, Ancestry
    <3>4. Overlaid(input, OutputsAbove(e)') = Merge(Overlaid(input, OutputsAbove(c)), Output(c))
      <4>1. OneMore(OutputsAbove(c), n, Output(c), OutputsAbove(e)')
        BY <1>1, <3>2, <3>3 DEF OneMore
      <4>2. \A base, out : Overlay(base, out) = Merge(base, out)
        BY DEF Merge, Overlay
      <4> QED BY <4>1, <4>2, OverlaidMore
    <3> QED BY <1>7, <2>2, <3>4 DEF Lineage, Kept
  <2> QED BY <2>1, <2>2
<1>10. \A d \in DOMAIN args : maps'[args'[d].payload] = Lineage(d)'
  <2> TAKE d \in DOMAIN args
  <2>1. maps'[args'[d].payload] = Payload(d)
    BY DEF PayInv, HeapInv, Kept, Payload
  <2>2. Lineage(d)' = Lineage(d)
    BY LineageKept DEF PayInv
  <2> QED BY <2>1, <2>2 DEF PayInv, BranchIsolation
<1>11. BranchIsolation'
  BY <1>2, <1>9, <1>10 DEF BranchIsolation, Payload
<1> QED BY <1>6, <1>11 DEF PayInv

-----------------------------------------------------------------------------
(* What a step of a call does to the calls and the messages.               *)
CallAdvances(c) ==
  /\ exec'[c].pc # "ready"
  /\ exec'[c].pc = "await" => c \in DOMAIN wire'
  /\ \A d \in DOMAIN args' : d \notin DOMAIN args => exec'[d] = Entered
  /\ DOMAIN wire \subseteq DOMAIN wire' /\ DOMAIN wire' \subseteq DOMAIN wire \cup {c}

LEMMA EnteredIs == Entered.pc = "ready" /\ Entered.status = "running"
BY DEF Entered

LEMMA CallStepsAdvance ==
  ASSUME IInv, NEW c \in DOMAIN args,
         InvalidType(c) \/ LinearStep(c) \/ FilterStep(c)
  PROVE  CallAdvances(c)
PROOF
<1>1. exec \in [DOMAIN args -> ExecShape]
  BY DEF IInv, ExecInv
<1>2. ASSUME NEW s, NEW e, Fails(c, s, e), args' = args, wire' = wire PROVE CallAdvances(c)
  BY <1>1, <1>2 DEF Fails, Returned, ExecShape, CallAdvances
<1>3. ASSUME NEW i, DOMAIN args' = DOMAIN args \cup {Append(c, i)}, wire' = wire,
             exec'[c].pc = "called", exec'[Append(c, i)] = Entered
      PROVE  CallAdvances(c)
  BY <1>3 DEF CallAdvances
<1>4. CASE InvalidType(c)
  BY <1>2, <1>4 DEF InvalidType
<1>5. CASE LinearStep(c)
  <2>1. CASE NoWorkerFound(c) \/ DispatchError(c) \/ WorkerFailure(c)
             \/ RejectOverwrite(c) \/ CompleteDangling(c)
    BY <1>2, <2>1 DEF NoWorkerFound, DispatchError, WorkerFailure, RejectOverwrite,
                      CompleteDangling
  <2>2. CASE Dispatch(c)
    BY <1>1, <2>2 DEF Dispatch, ExecShape, CallAdvances
  <2>3. CASE CompleteTerminal(c)
    BY <1>1, <2>3 DEF CompleteTerminal, Returned, ExecShape, CallAdvances
  <2>5. CASE LinearReturn(c)
    BY <1>1, <2>5 DEF LinearReturn, ExecShape, CallAdvances
  <2>4. CASE CompleteAndContinue(c)
    <3>1. c # Append(c, 1) /\ Append(c, 1) \notin DOMAIN args
      BY <2>4 DEF CompleteAndContinue, Responded, IInv, ExecInv, Started
    <3>2. DOMAIN args' = DOMAIN args \cup {Append(c, 1)} /\ wire' = wire
      BY <2>4 DEF CompleteAndContinue, Calls
    <3>3. exec'[c].pc = "called" /\ exec'[Append(c, 1)] = Entered
      BY <1>1, <2>4, <3>1 DEF CompleteAndContinue, WithCall, ExecShape
    <3> QED BY <1>3, <3>2, <3>3
  <2> QED BY <1>5, <2>1, <2>2, <2>3, <2>4, <2>5 DEF LinearStep
<1>6. CASE FilterStep(c)
  <2>1. CASE FilterFails(c)
    BY <1>2, <2>1 DEF FilterFails
  <2>2. CASE FilterNoHit(c) \/ FilterSplit(c) \/ FilterReturn(c)
    <3>1. exec'[c].pc \in {"called", "done"}
      <4>1. CASE FilterNoHit(c)
        BY <1>1, <4>1 DEF FilterNoHit, Returned, ExecShape
      <4>2. CASE FilterSplit(c)
        BY <1>1, <4>2 DEF FilterSplit, ExecShape
      <4>3. CASE FilterReturn(c)
        BY <1>1, <4>3 DEF FilterReturn, ExecShape
      <4> QED BY <2>2, <4>1, <4>2, <4>3
    <3>2. args' = args /\ wire' = wire
      BY <2>2 DEF FilterNoHit, FilterSplit, FilterReturn
    <3> QED BY <3>1, <3>2 DEF CallAdvances
  <2>3. ASSUME NEW i \in exec[c].hits, StartBranch(c, i) PROVE CallAdvances(c)
    <3>1. c # Append(c, i) /\ Append(c, i) \notin DOMAIN args /\ exec[c].pc = "called"
      BY <2>3 DEF StartBranch, Started
    <3>2. DOMAIN args' = DOMAIN args \cup {Append(c, i)} /\ wire' = wire
      BY <2>3 DEF StartBranch, Calls
    <3>3. exec'[c].pc = "called" /\ exec'[Append(c, i)] = Entered
      BY <1>1, <2>3, <3>1 DEF StartBranch, WithCall
    <3> QED BY <1>3, <3>2, <3>3
  <2>4. ASSUME NEW i \in exec[c].hits, JoinBranch(c, i) PROVE CallAdvances(c)
    BY <1>1, <2>4 DEF JoinBranch, ExecShape, CallAdvances
  <2> QED BY <1>6, <2>1, <2>2, <2>3, <2>4 DEF FilterStep
<1> QED BY <1>4, <1>5, <1>6

LEMMA InitWire == Init => WireInv
BY DEF Init, WireInv

LEMMA NextWire == IInv /\ StartInv /\ WireInv /\ [Next]_vars => WireInv'
PROOF
<1> SUFFICES ASSUME IInv, StartInv, WireInv, [Next]_vars PROVE WireInv'
  OBVIOUS
<1>1. CASE Execute
  <2>1. DOMAIN args = {} /\ DOMAIN wire = {} /\ wire' = wire
    BY <1>1 DEF Execute, StartInv, WireInv
  <2> QED BY <1>1, <2>1, EnteredIs DEF Execute, WireInv
<1>2. ASSUME NEW c \in DOMAIN args, InvalidType(c) \/ LinearStep(c) \/ FilterStep(c)
      PROVE  WireInv'
  <2>1. CallAdvances(c) /\ OnlyCall(c) /\ DOMAIN exec = DOMAIN args
    BY <1>2, CallStepsAdvance, CallStepsAreLocal DEF IInv, ExecInv
  <2> QED BY <2>1, EnteredIs DEF WireInv, Posted, CallAdvances, OnlyCall
<1>3. CASE args' = args /\ exec' = exec /\ DOMAIN wire' = DOMAIN wire
  BY <1>3 DEF WireInv, Posted
<1> QED BY <1>1, <1>2, <1>3 DEF Next, EngineStep, Finish, WorkerAnswers, vars

(* Only a call that is yet to start POSTs, and it has not done so before.  *)
PostedOnce == \A c \in DOMAIN wire : wire[c].posts = 1

LEMMA NextPosts == IInv /\ StartInv /\ WireInv /\ PostedOnce /\ [Next]_vars => PostedOnce'
PROOF
<1> SUFFICES ASSUME IInv, StartInv, WireInv, PostedOnce, [Next]_vars PROVE PostedOnce'
  OBVIOUS
<1>1. CASE wire' = wire
  BY <1>1 DEF PostedOnce
<1>2. ASSUME NEW c \in DOMAIN args, Dispatch(c) PROVE PostedOnce'
  <2>1. c \notin DOMAIN wire
    BY <1>2 DEF Dispatch, WireInv
  <2>2. /\ DOMAIN wire' = DOMAIN wire \cup {c} /\ wire'[c].posts = 1
        /\ \A d \in DOMAIN wire : wire'[d] = wire[d]
    BY <1>2, <2>1 DEF Dispatch, Posted
  <2> QED BY <2>2 DEF PostedOnce
<1>3. ASSUME NEW c \in DOMAIN wire, WorkerAnswers(c) PROVE PostedOnce'
  <2>1. PICK r : wire' = [wire EXCEPT ![c].reply = r]
    BY <1>3 DEF WorkerAnswers
  <2>2. DOMAIN wire' = DOMAIN wire /\ \A d \in DOMAIN wire : wire'[d].posts = wire[d].posts
    BY <2>1
  <2> QED BY <2>2 DEF PostedOnce
<1>4. ASSUME NEW c \in DOMAIN args, InvalidType(c) \/ LinearStep(c) \/ FilterStep(c)
      PROVE  wire' = wire \/ Dispatch(c)
  <2>1. CASE InvalidType(c) \/ FilterStep(c)
    BY <2>1 DEF InvalidType, FilterStep, FilterFails, FilterNoHit, FilterSplit, FilterReturn,
                StartBranch, JoinBranch
  <2>2. CASE LinearStep(c)
    BY <2>2 DEF LinearStep, NoWorkerFound, DispatchError, WorkerFailure, RejectOverwrite,
                CompleteTerminal, CompleteDangling, CompleteAndContinue, LinearReturn
  <2> QED BY <1>4, <2>1, <2>2
<1> QED BY <1>1, <1>2, <1>3, <1>4 DEF Next, EngineStep, Execute, Finish, vars

(* In a non-merging workflow no node is executed twice in one execution,   *)
(* and no worker is asked twice for one call, whatever the order of the    *)
(* goroutines and whatever the workers answer.                             *)
THEOREM EachNodeAtMostOnce == Spec => []AtMostOnce
PROOF
<1>1. IInv /\ PostedOnce => AtMostOnce
  BY DEF IInv, PostedOnce, AtMostOnce
<1>2. Init => PostedOnce
  BY DEF Init, PostedOnce
<1> QED BY InitIInv, NextIInv, InitStart, NextStart, InitWire, NextWire, <1>1, <1>2, NextPosts,
           PTL DEF Spec

-----------------------------------------------------------------------------
(* A linear node is no filter.                                             *)
LEMMA LinearIsNoFilter == \A c : ~ (Linear(c) /\ Filter(c))
BY DEF Linear, Filter, LinearTypes

LEMMA InitPay == Init => PayInv
BY DEF Init, PayInv, HeapInv, BranchIsolation

(* Execute hands the root call the input.                                  *)
LEMMA ExecutePay == ASSUME StartInv, PayInv, Execute PROVE PayInv'
PROOF
<1>1. DOMAIN args = {} /\ DOMAIN maps = {} /\ input \in Inputs
  BY DEF Execute, StartInv, PayInv, HeapInv
<1>2. input' = input /\ wire' = wire
  BY DEF Execute
<1>3. CASE Defined(wf, wf.start)
  <2>1. /\ DOMAIN args' = {Root} /\ args'[Root].payload = Root
        /\ DOMAIN maps' = {Root} /\ maps'[Root] = input
    BY <1>3 DEF Execute
  <2>2. 0..(Len(Root) - 1) = {}
    BY DEF Root
  <2>3. HeapInv'
    BY <1>1, <1>2, <2>1, <2>2 DEF HeapInv
  <2>4. DOMAIN OutputsAbove(Root)' = {}
    BY <2>2 DEF OutputsAbove, Ancestry
  <2>5. Overlaid(input, OutputsAbove(Root)') = [f \in DOMAIN input |-> input[f]]
    BY <2>4 DEF Overlaid
  <2>6. Overlaid(input, OutputsAbove(Root)') = input
    BY <1>1, <2>5, InputAssumption
  <2>7. BranchIsolation'
    BY <1>2, <2>1, <2>6 DEF BranchIsolation, Payload, Lineage
  <2> QED BY <2>3, <2>7 DEF PayInv
<1>4. CASE ~ Defined(wf, wf.start)
  BY <1>1, <1>2, <1>4 DEF Execute, PayInv, HeapInv, BranchIsolation
<1> QED BY <1>3, <1>4

(* No step changes a payload, a node or a reply that is there.             *)
LEMMA NextKeeps ==
  ASSUME IInv, StartInv, WireInv, HeapInv, [Next]_vars PROVE Kept
PROOF
<1>1. CASE Execute
  <2>1. DOMAIN args = {} /\ DOMAIN maps = {}
    BY <1>1 DEF Execute, StartInv, HeapInv
  <2> QED BY <1>1, <2>1 DEF Execute, Kept
<1>2. CASE /\ args' = args /\ maps' = maps /\ wf' = wf /\ input' = input
           /\ wire' = wire
  BY <1>2 DEF Kept
<1>3. ASSUME NEW c \in DOMAIN args, Dispatch(c) PROVE Kept
  <2>1. c \notin DOMAIN wire
    BY <1>3 DEF Dispatch, WireInv
  <2> QED BY <1>3, <2>1 DEF Dispatch, Kept
<1>4. ASSUME NEW c \in DOMAIN wire, WorkerAnswers(c) PROVE Kept
  BY <1>4 DEF WorkerAnswers, Kept
<1>5. ASSUME NEW c \in DOMAIN args, CompleteAndContinue(c) PROVE Kept
  <2>1. Append(c, 1) \notin DOMAIN args /\ Append(c, 1) \notin DOMAIN maps
    BY <1>5 DEF CompleteAndContinue, Responded, IInv, ExecInv, Started, HeapInv
  <2> QED BY <1>5, <2>1 DEF CompleteAndContinue, WithMerged, Calls, Kept
<1>6. ASSUME NEW c \in DOMAIN args, NEW i \in exec[c].hits, StartBranch(c, i) PROVE Kept
  BY <1>6 DEF StartBranch, Started, Calls, Kept
<1>7. ASSUME NEW c \in DOMAIN args, LinearStep(c), ~ Dispatch(c), ~ CompleteAndContinue(c)
      PROVE  Kept
  BY <1>2, <1>7 DEF LinearStep, NoWorkerFound, DispatchError, WorkerFailure, RejectOverwrite,
                    CompleteTerminal, CompleteDangling, LinearReturn
<1>8. ASSUME NEW c \in DOMAIN args, FilterStep(c) PROVE Kept
  BY <1>2, <1>6, <1>8 DEF FilterStep, FilterFails, FilterNoHit, FilterSplit, FilterReturn,
                          JoinBranch
<1>9. ASSUME NEW c \in DOMAIN args, InvalidType(c) PROVE Kept
  BY <1>2, <1>9 DEF InvalidType
<1> QED BY <1>1, <1>2, <1>3, <1>4, <1>5, <1>7, <1>8, <1>9 DEF Next, EngineStep, Finish, vars

(* A linear call goes on with its output merged into its payload.          *)
LEMMA ContinuePay ==
  ASSUME IInv, WireInv, PayInv, Kept, NEW c \in DOMAIN args, CompleteAndContinue(c)
  PROVE  PayInv'
PROOF
<1> DEFINE e == Append(c, 1)
<1>1. /\ exec[c].pc = "await" /\ wire[c].reply # NoReply /\ Calls(c, 1, e)
      /\ maps' = WithMerged(c, e) /\ wire' = wire
  BY DEF CompleteAndContinue, Responded
<1>2. Linear(c) /\ ~ Started(e) /\ Answered(c)
  BY <1>1 DEF IInv, ExecInv, WireInv, Answered
<1>3. DOMAIN maps' = DOMAIN maps \cup {e} /\ maps'[e] = Merge(Payload(c), Output(c))
  BY <1>1 DEF WithMerged
<1>4. DOMAIN maps' \subseteq DOMAIN args \cup {e}
  BY <1>3 DEF PayInv, HeapInv
<1> QED BY <1>1, <1>2, <1>3, <1>4, CallStep

(* A filter hands its own payload to every branch.                         *)
LEMMA BranchPay ==
  ASSUME IInv, PayInv, Kept, NEW c \in DOMAIN args, NEW i \in exec[c].hits, StartBranch(c, i)
  PROVE  PayInv'
PROOF
<1>1. /\ Filter(c) /\ ~ Started(Append(c, i)) /\ Calls(c, i, args[c].payload)
      /\ maps' = maps /\ wire' = wire
  BY DEF StartBranch
<1>2. i \in Nat /\ ~ Linear(c)
  BY <1>1, LinearIsNoFilter DEF IInv, ExecInv, ExecShape
<1>3. /\ DOMAIN maps' \subseteq DOMAIN args \cup {Append(c, i)}
      /\ args[c].payload \in DOMAIN maps' /\ maps'[args[c].payload] = Payload(c)
  BY <1>1 DEF PayInv, HeapInv, Payload
<1> QED BY <1>1, <1>2, <1>3, CallStep

LEMMA NextPay == IInv /\ StartInv /\ WireInv /\ PayInv /\ [Next]_vars => PayInv'
PROOF
<1> SUFFICES ASSUME IInv, StartInv, WireInv, PayInv, [Next]_vars PROVE PayInv'
  OBVIOUS
<1>0. Kept
  BY NextKeeps DEF PayInv
<1>1. CASE Execute
  BY <1>1, ExecutePay
<1>2. CASE args' = args /\ maps' = maps
  BY <1>0, <1>2, QuietStep
<1>3. ASSUME NEW c \in DOMAIN args, LinearStep(c) PROVE PayInv'
  <2>1. CASE CompleteAndContinue(c)
    BY <1>0, <2>1, ContinuePay
  <2> QED BY <1>2, <1>3, <2>1
          DEF LinearStep, NoWorkerFound, Dispatch, DispatchError, WorkerFailure, RejectOverwrite,
              CompleteTerminal, CompleteDangling, LinearReturn
<1>4. ASSUME NEW c \in DOMAIN args, FilterStep(c) PROVE PayInv'
  <2>1. ASSUME NEW i \in exec[c].hits, StartBranch(c, i) PROVE PayInv'
    BY <1>0, <2>1, BranchPay
  <2> QED BY <1>2, <1>4, <2>1 DEF FilterStep, FilterFails, FilterNoHit, FilterSplit,
                                  FilterReturn, JoinBranch
<1> QED BY <1>1, <1>2, <1>3, <1>4
        DEF Next, EngineStep, InvalidType, Finish, WorkerAnswers, vars

(* Every payload a call is handed is that of its own lineage, whatever the *)
(* branches beside it return and whenever.                                 *)
THEOREM BranchesAreIsolated == Spec => []BranchIsolation
PROOF
<1>1. PayInv => BranchIsolation
  BY DEF PayInv
<1> QED BY InitIInv, NextIInv, InitStart, NextStart, InitWire, NextWire, InitPay, NextPay,
           <1>1, PTL DEF Spec

-----------------------------------------------------------------------------
(* A linear call that is completed has got a reply that reports no failure.*)
CompletedInv ==
  \A c \in DOMAIN args :
    Linear(c) /\ exec[c].status = "completed" =>
      /\ exec[c].pc \in {"called", "done"}
      /\ Answered(c) /\ wire[c].reply.status # "failure"

(* How a step of a call completes it: by an answer that is no failure.     *)
LEMMA CompletedHow ==
  ASSUME IInv, WireInv, CompletedInv, NEW c \in DOMAIN args,
         InvalidType(c) \/ LinearStep(c) \/ FilterStep(c),
         Linear(c), exec'[c].status = "completed"
  PROVE  /\ exec'[c].pc \in {"called", "done"}
         /\ Answered(c) /\ wire[c].reply.status # "failure"
PROOF
<1>1. exec \in [DOMAIN args -> ExecShape]
  BY DEF IInv, ExecInv
<1>2. ~ InvalidType(c) /\ ~ FilterStep(c)
  <2>1. ~ InvalidType(c)
    BY DEF InvalidType, Linear, LinearTypes, NodeTypes
  <2>2. ~ Filter(c)
    BY LinearIsNoFilter
  <2>3. exec[c].hits = {}
    BY <2>2 DEF IInv, ExecInv
  <2> QED BY <2>1, <2>2, <2>3 DEF FilterStep, FilterFails, FilterNoHit, FilterSplit, FilterReturn
<1>3. ASSUME NEW e, Fails(c, "failed", e) PROVE FALSE
  BY <1>1, <1>3 DEF Fails, Returned, ExecShape
<1>4. ~ (NoWorkerFound(c) \/ DispatchError(c) \/ WorkerFailure(c) \/ RejectOverwrite(c))
  BY <1>3 DEF NoWorkerFound, DispatchError, WorkerFailure, RejectOverwrite
<1>5. ASSUME Responded(c, FALSE) PROVE Answered(c) /\ wire[c].reply.status # "failure"
  BY <1>5 DEF Responded, WireInv, Answered
<1>6. CASE Dispatch(c)
  <2>1. exec[c].pc = "ready" /\ exec'[c].status = exec[c].status
    BY <1>1, <1>6 DEF Dispatch, ExecShape
  <2> QED BY <2>1 DEF CompletedInv
<1>7. CASE CompleteTerminal(c) \/ CompleteDangling(c)
  <2>1. exec'[c].pc = "done"
    BY <1>1, <1>7 DEF CompleteTerminal, CompleteDangling, Fails, Returned, ExecShape
  <2> QED BY <1>5, <1>7, <2>1 DEF CompleteTerminal, CompleteDangling
<1>8. CASE CompleteAndContinue(c)
  <2>1. c # Append(c, 1)
    BY <1>8 DEF CompleteAndContinue, Responded, IInv, ExecInv, Started
  <2>2. exec'[c].pc = "called"
    BY <1>1, <1>8, <2>1 DEF CompleteAndContinue, WithCall, ExecShape
  <2> QED BY <1>5, <1>8, <2>2 DEF CompleteAndContinue
<1>9. CASE LinearReturn(c)
  <2>1. exec'[c].pc = "done" /\ exec'[c].status = exec[c].status
    BY <1>1, <1>9 DEF LinearReturn, ExecShape
  <2> QED BY <2>1 DEF CompletedInv
<1> QED BY <1>2, <1>4, <1>6, <1>7, <1>8, <1>9 DEF LinearStep

(* The mode is set when Execute is called.                                 *)
LEMMA StrictStays == [Next]_vars => strict' = strict
PROOF
<1> SUFFICES ASSUME [Next]_vars PROVE strict' = strict
  OBVIOUS
<1>1. ASSUME NEW c, LinearStep(c) \/ InvalidType(c) PROVE strict' = strict
  <2>1. CASE InvalidType(c) \/ NoWorkerFound(c) \/ Dispatch(c) \/ DispatchError(c)
    BY <2>1 DEF InvalidType, NoWorkerFound, Dispatch, DispatchError
  <2>2. CASE WorkerFailure(c) \/ RejectOverwrite(c) \/ CompleteTerminal(c)
    BY <2>2 DEF WorkerFailure, RejectOverwrite, CompleteTerminal
  <2>3. CASE CompleteDangling(c) \/ CompleteAndContinue(c) \/ LinearReturn(c)
    BY <2>3 DEF CompleteDangling, CompleteAndContinue, LinearReturn
  <2> QED BY <1>1, <2>1, <2>2, <2>3 DEF LinearStep
<1>2. ASSUME NEW c, FilterStep(c) PROVE strict' = strict
  <2>1. ASSUME NEW i, StartBranch(c, i) \/ JoinBranch(c, i) PROVE strict' = strict
    BY <2>1 DEF StartBranch, JoinBranch
  <2>2. CASE FilterFails(c) \/ FilterNoHit(c) \/ FilterSplit(c) \/ FilterReturn(c)
    BY <2>2 DEF FilterFails, FilterNoHit, FilterSplit, FilterReturn
  <2> QED BY <1>2, <2>1, <2>2 DEF FilterStep
<1>3. CASE Execute \/ Finish \/ UNCHANGED vars \/ \E c \in DOMAIN wire : WorkerAnswers(c)
  BY <1>3 DEF Execute, Finish, WorkerAnswers, vars
<1> QED BY <1>1, <1>2, <1>3 DEF Next, EngineStep

LEMMA NextCompleted ==
  IInv /\ StartInv /\ WireInv /\ PayInv /\ CompletedInv /\ [Next]_vars => CompletedInv'
PROOF
<1> SUFFICES ASSUME IInv, StartInv, WireInv, PayInv, CompletedInv, [Next]_vars PROVE CompletedInv'
  OBVIOUS
<1>0. Kept
  BY NextKeeps DEF PayInv
(* What is answered stays.                                                 *)
<1>2. ASSUME NEW d \in DOMAIN args, Answered(d)
      PROVE  /\ Linear(d)' = Linear(d) /\ Answered(d)'
             /\ wire'[d].reply = wire[d].reply
  <2>1. args'[d] = args[d]
    BY <1>0 DEF Kept
  <2>2. d \in DOMAIN wire' /\ wire'[d].reply = wire[d].reply /\ wire[d].reply # NoReply
    BY <1>0, <1>2 DEF Kept, Answered, Posted
  <2> QED BY <1>0, <2>1, <2>2 DEF Kept, Linear, Node, Answered, Posted
<1>3. \A d \in DOMAIN args : Linear(d)' = Linear(d)
  BY <1>0 DEF Kept, Linear, Node
<1>4. ASSUME NEW c \in DOMAIN args, InvalidType(c) \/ LinearStep(c) \/ FilterStep(c)
      PROVE  CompletedInv'
  <2>1. CallAdvances(c) /\ OnlyCall(c) /\ DOMAIN exec = DOMAIN args
    BY <1>4, CallStepsAdvance, CallStepsAreLocal DEF IInv, ExecInv
  <2> SUFFICES ASSUME NEW d \in DOMAIN args', Linear(d)', exec'[d].status = "completed"
               PROVE  /\ exec'[d].pc \in {"called", "done"}
                      /\ Answered(d)' /\ wire'[d].reply.status # "failure"
    BY DEF CompletedInv
  <2>2. CASE d = c
    BY <1>2, <1>3, <1>4, <2>2, CompletedHow
  <2>3. CASE d # c /\ d \in DOMAIN args
    BY <1>2, <1>3, <2>1, <2>3 DEF CompletedInv, OnlyCall
  <2>4. CASE d \notin DOMAIN args
    BY <2>1, <2>4, EnteredIs DEF CallAdvances
  <2> QED BY <2>2, <2>3, <2>4
<1>5. CASE args' = args /\ exec' = exec
  BY <1>2, <1>3, <1>5 DEF CompletedInv
<1>6. CASE Execute
  <2>1. DOMAIN args = {} /\ \A c \in DOMAIN args' : exec'[c].status = "running"
    BY <1>6 DEF Execute, StartInv, Entered
  <2> QED BY <2>1 DEF CompletedInv
<1> QED BY <1>4, <1>5, <1>6 DEF Next, EngineStep, Finish, WorkerAnswers, vars

(* A call that a strict run makes prints every field its caller was handed *)
(* as its caller did; by induction so does every call above.               *)
Keeps(above, below) ==
  \A f \in DOMAIN above : f \in DOMAIN below /\ Shown(below[f]) = Shown(above[f])

LEMMA CallKeepsForms ==
  ASSUME IInv, PayInv, Kept, StrictKeepsForms, strict' = strict,
         NEW c \in DOMAIN args, NEW i \in Nat, NEW p, ~ Started(Append(c, i)), Calls(c, i, p),
         strict => Keeps(Payload(c), maps'[p])
  PROVE  StrictKeepsForms'
PROOF
<1> SUFFICES ASSUME strict, NEW d \in DOMAIN args', NEW k \in 0..(Len(d) - 1)
             PROVE  Keeps(Payload(Prefix(d, k))', Payload(d)')
  BY DEF StrictKeepsForms, Keeps
<1> DEFINE e == Append(c, i)
           n == Len(c)
<1>1. /\ n \in Nat /\ Len(e) = n + 1 /\ Prefix(e, n) = c
      /\ \A j \in 0..(n - 1) : Prefix(e, j) = Prefix(c, j)
  BY PrefixesOfChild DEF IInv, TreeInv
<1>2. DOMAIN args' = DOMAIN args \cup {e} /\ args'[e].payload = p
  BY DEF Calls
<1> HIDE DEF e
<1>3. \A a \in DOMAIN args : Payload(a)' = Payload(a)
  BY DEF Payload, Kept, PayInv, HeapInv
<1>4. \A a \in DOMAIN args : \A j \in 0..(Len(a) - 1) :
        Prefix(a, j) \in DOMAIN args /\ Keeps(Payload(Prefix(a, j)), Payload(a))
  BY DEF PayInv, HeapInv, StrictKeepsForms, Keeps
<1>5. CASE d \in DOMAIN args
  <2>1. /\ Prefix(d, k) \in DOMAIN args /\ Keeps(Payload(Prefix(d, k)), Payload(d))
    BY <1>4, <1>5
  <2>2. Payload(Prefix(d, k))' = Payload(Prefix(d, k)) /\ Payload(d)' = Payload(d)
    BY <1>3, <1>5, <2>1
  <2> QED BY <2>1, <2>2
<1>6. CASE d = e
  <2>1. Payload(d)' = maps'[p] /\ Keeps(Payload(c), Payload(d)') /\ Payload(c)' = Payload(c)
    BY <1>2, <1>3, <1>6 DEF Payload
  <2>2. CASE k = n
    <3>1. Prefix(d, k) = c
      BY <1>1, <1>6, <2>2
    <3> QED BY <2>1, <3>1
  <2>3. CASE k # n
    <3>1. k \in 0..(n - 1)
      BY <1>1, <1>6, <2>3
    <3> DEFINE a == Prefix(c, k)
    <3>2. Prefix(d, k) = a /\ a \in DOMAIN args /\ Keeps(Payload(a), Payload(c))
      BY <1>1, <1>4, <1>6, <3>1
    <3>3. Payload(a)' = Payload(a)
      BY <1>3, <3>2
    <3> HIDE DEF a
    <3>4. Keeps(Payload(a), Payload(d)')
      BY <2>1, <3>2 DEF Keeps
    <3> QED BY <3>2, <3>3, <3>4
  <2> QED BY <2>2, <2>3
<1> QED BY <1>2, <1>5, <1>6

(* An output that was not rejected overwrites nothing that prints          *)
(* otherwise, and a branch is handed its filter's own payload.             *)
LEMMA NextForms ==
  IInv /\ StartInv /\ WireInv /\ PayInv /\ StrictKeepsForms /\ [Next]_vars => StrictKeepsForms'
PROOF
<1> SUFFICES ASSUME IInv, StartInv, WireInv, PayInv, StrictKeepsForms, [Next]_vars
             PROVE  StrictKeepsForms'
  OBVIOUS
<1>0. Kept /\ strict' = strict
  BY NextKeeps, StrictStays DEF PayInv
<1>1. CASE Execute
  <2>1. CASE Defined(wf, wf.start)
    <3>1. DOMAIN args' = {Root} /\ 0..(Len(Root) - 1) = {}
      BY <1>1, <2>1 DEF Execute, Root
    <3> QED BY <3>1 DEF StrictKeepsForms
  <2>2. CASE ~ Defined(wf, wf.start)
    <3>1. args' = args /\ DOMAIN args = {}
      BY <1>1, <2>2 DEF Execute, StartInv
    <3> QED BY <3>1 DEF StrictKeepsForms
  <2> QED BY <2>1, <2>2
<1>2. CASE args' = args /\ maps' = maps
  BY <1>0, <1>2 DEF StrictKeepsForms, Payload
<1>3. ASSUME NEW c \in DOMAIN args, CompleteAndContinue(c) PROVE StrictKeepsForms'
  <2> DEFINE e == Append(c, 1)
  <2>1. /\ exec[c].pc = "await" /\ Calls(c, 1, e) /\ maps' = WithMerged(c, e)
        /\ strict => ~ Violates(c)
    BY <1>3 DEF CompleteAndContinue, Responded, Rejected
  <2>2. ~ Started(e)
    BY <2>1 DEF IInv, ExecInv
  <2>3. maps'[e] = Merge(Payload(c), Output(c))
    BY <2>1 DEF WithMerged
  <2>4. strict => Keeps(Payload(c), maps'[e])
    BY <2>1, <2>3 DEF Keeps, Merge, Violates, Overwrites
  <2> QED BY <1>0, <2>1, <2>2, <2>4, CallKeepsForms
<1>4. ASSUME NEW c \in DOMAIN args, NEW i \in exec[c].hits, StartBranch(c, i)
      PROVE  StrictKeepsForms'
  <2>1. ~ Started(Append(c, i)) /\ Calls(c, i, args[c].payload) /\ maps' = maps
    BY <1>4 DEF StartBranch
  <2>2. i \in Nat
    BY DEF IInv, ExecInv, ExecShape
  <2>3. Keeps(Payload(c), maps'[args[c].payload])
    BY <2>1 DEF Keeps, Payload
  <2> QED BY <1>0, <2>1, <2>2, <2>3, CallKeepsForms
<1>5. ASSUME NEW c \in DOMAIN args, LinearStep(c) PROVE StrictKeepsForms'
  BY <1>2, <1>3, <1>5
     DEF LinearStep, NoWorkerFound, Dispatch, DispatchError, WorkerFailure, RejectOverwrite,
         CompleteTerminal, CompleteDangling, LinearReturn
<1>6. ASSUME NEW c \in DOMAIN args, FilterStep(c) PROVE StrictKeepsForms'
  BY <1>2, <1>4, <1>6 DEF FilterStep, FilterFails, FilterNoHit, FilterSplit, FilterReturn,
                          JoinBranch
<1> QED BY <1>1, <1>2, <1>5, <1>6 DEF Next, EngineStep, InvalidType, Finish, WorkerAnswers, vars

(* In strict mode a field that a call was handed reaches every call below  *)
(* it, and prints as it did, whatever the workers return.                  *)
THEOREM StrictModeKeepsForms == Spec => []StrictKeepsForms
PROOF
<1>1. Init => StrictKeepsForms
  BY DEF Init, StrictKeepsForms
<1> QED BY InitIInv, NextIInv, InitStart, NextStart, InitWire, NextWire, InitPay, NextPay,
           <1>1, NextForms, PTL DEF Spec

-----------------------------------------------------------------------------
(* That Engine implements WorkflowRun, and that its verdict can be trusted.*)
(* The invariant RunInv says of each call how far it is (CallOK): nothing  *)
(* has happened to it before it is decided, its children are those its     *)
(* success made due, a failure below it is passed up when it returns, and  *)
(* every trace it holds runs through successes to a call that decides it.  *)
(* The last part is about Cli: what its checks let through.                *)
Decided(c)   == c \in DOMAIN args /\ exec[c].pc \in {"called", "done"}
Ok(c)        == exec[c].status = "completed" /\ exec[c].error \in {"none", "MONOTONICITY_VIOLATION"}
HasFailed(c) == \E k \in 1..Len(exec[c].traces) : exec[c].traces[k].status = "failed"

(* A trace that runs through calls of `ok` to the one of `decided` whose    *)
(* status it has.                                                          *)
DecidedCalls == {c \in DOMAIN args : Decided(c)}
OkCalls      == {c \in DOMAIN args : Ok(c)}
TraceThrough(t, decided, ok) ==
  /\ Len(t.nodes) >= 1
  /\ \A j \in 1..Len(t.nodes) : t.nodes[j] \in decided
  /\ \A j \in 1..(Len(t.nodes) - 1) : t.nodes[j] \in ok
  /\ t.status = IF t.nodes[Len(t.nodes)] \in ok THEN "completed" ELSE "failed"

Fresh(c) ==
  exec[c].pc \in {"ready", "await"} =>
    /\ exec[c].status = "running" /\ exec[c].error = "none"
    /\ exec[c].hits = {} /\ exec[c].joined = {} /\ exec[c].traces = <<>>
WentOn(c) == exec[c].pc = "called" => Ok(c)
Below(c) ==
  \A i \in Nat : Started(Append(c, i)) =>
    \/ Linear(c) /\ i = 1
    \/ Filter(c) /\ i \in exec[c].hits
PassedUp(c, i) ==
  /\ Started(Append(c, i)) /\ exec[Append(c, i)].pc = "done"
  /\ HasFailed(Append(c, i)) => HasFailed(c)
Joined(c) == \A i \in exec[c].joined : PassedUp(c, i)
Through(c) ==
  exec[c].pc = "done" =>
    /\ exec[c].hits \subseteq exec[c].joined
    /\ Linear(c) => \A i \in Nat : Started(Append(c, i)) => PassedUp(c, i)
    /\ ~ Ok(c) => HasFailed(c)
Traced(c) == \A k \in 1..Len(exec[c].traces) : 
  TraceThrough(exec[c].traces[k], DecidedCalls, OkCalls)

CallOK(c) == Fresh(c) /\ WentOn(c) /\ Below(c) /\ Joined(c) /\ Through(c) /\ Traced(c)
RunInv == \A c \in DOMAIN args : CallOK(c)

-----------------------------------------------------------------------------
(* What a step of call c may do to the calls: move c, but not back, and    *)
(* begin calls below it.                                                   *)
StepOf(c) ==
  /\ OnlyCall(c) /\ CallAdvances(c) /\ Kept
  /\ \A d \in DOMAIN args' : d \notin DOMAIN args => \E i \in Nat : d = Append(c, i)
  /\ Decided(c) => /\ exec'[c].pc \in {"called", "done"}
                   /\ exec'[c].status = exec[c].status /\ exec'[c].error = exec[c].error

(* What is decided stays so, and a good trace good.                        *)
LEMMA DecidedStays ==
  ASSUME IInv, NEW c \in DOMAIN args, StepOf(c)
  PROVE  /\ DecidedCalls \subseteq DecidedCalls'
         /\ \A d \in DecidedCalls : d \in OkCalls <=> d \in OkCalls'
PROOF
<1>1. \A d \in DOMAIN args : d \in DOMAIN args' /\ (d # c => exec'[d] = exec[d])
  BY DEF StepOf, OnlyCall, IInv, ExecInv
<1> QED BY <1>1 DEF StepOf, DecidedCalls, OkCalls, Decided, Ok

LEMMA TraceStays ==
  ASSUME NEW t, NEW D, NEW O, NEW D2, NEW O2, TraceThrough(t, D, O),
         D \subseteq D2, \A d \in D : d \in O <=> d \in O2
  PROVE  TraceThrough(t, D2, O2)
PROOF
<1>1. /\ Len(t.nodes) >= 1
      /\ \A j \in 1..Len(t.nodes) : t.nodes[j] \in D
      /\ \A j \in 1..(Len(t.nodes) - 1) : t.nodes[j] \in O
      /\ t.status = IF t.nodes[Len(t.nodes)] \in O THEN "completed" ELSE "failed"
  BY DEF TraceThrough
<1> QED BY <1>1 DEF TraceThrough

(* A step of c that leaves c as it should be leaves every call so.         *)
LEMMA OthersStayOK ==
  ASSUME IInv, IInv', RunInv, NEW c \in DOMAIN args, StepOf(c), CallOK(c)'
  PROVE  RunInv'
PROOF
<1> SUFFICES ASSUME NEW d \in DOMAIN args', d # c PROVE CallOK(d)'
  BY DEF RunInv
<1>0. DOMAIN exec = DOMAIN args /\ DOMAIN args \subseteq Seq(Nat) /\ DOMAIN args' \subseteq Seq(Nat)
  BY DEF IInv, ExecInv, TreeInv
<1>1. CASE d \notin DOMAIN args
  <2>1. exec'[d] = Entered
    BY <1>1 DEF StepOf, CallAdvances
  <2>2. \A i \in Nat : Append(d, i) \notin DOMAIN args'
    BY <2>1, EnteredIs DEF IInv, ExecInv, Started
  <2>3. /\ Entered.pc = "ready" /\ Entered.status = "running" /\ Entered.error = "none"
        /\ Entered.hits = {} /\ Entered.joined = {} /\ Entered.traces = <<>>
    BY DEF Entered
  <2> QED BY <2>1, <2>2, <2>3
          DEF CallOK, Fresh, WentOn, Below, Joined, Through, Traced, Started
<1>2. CASE d \in DOMAIN args
  <2>1. exec'[d] = exec[d] /\ CallOK(d) /\ args'[d] = args[d]
    BY <1>0, <1>2 DEF StepOf, OnlyCall, RunInv, Kept
  <2>2. ASSUME NEW i \in Nat
        PROVE  Started(Append(d, i))' = Started(Append(d, i))
    <3>1. ASSUME Append(d, i) \notin DOMAIN args PROVE Append(d, i) \notin DOMAIN args'
      <4> SUFFICES ASSUME NEW j \in Nat, Append(d, i) = Append(c, j) PROVE FALSE
        BY <3>1 DEF StepOf
      <4> QED BY <1>0, <1>2, AddressInjective
    <3>2. DOMAIN args \subseteq DOMAIN args'
      BY DEF StepOf, OnlyCall
    <3> QED BY <3>1, <3>2 DEF Started
(* A child that is through is not the call that moves.                     *)
  <2>3. ASSUME NEW i, PassedUp(d, i) PROVE PassedUp(d, i)'
    <3>1. Append(d, i) \in DOMAIN args /\ exec'[Append(d, i)] = exec[Append(d, i)]
      BY <1>0, <2>3 DEF PassedUp, Started, StepOf, OnlyCall
    <3>2. Append(d, i) \in DOMAIN args'
      BY <3>1 DEF StepOf, OnlyCall
    <3> QED BY <2>1, <2>3, <3>1, <3>2 DEF PassedUp, HasFailed, Started
  <2>4. Linear(d)' = Linear(d) /\ Filter(d)' = Filter(d)
    BY <2>1 DEF Linear, Filter, Node
  <2>5. Fresh(d)' /\ WentOn(d)'
    BY <2>1 DEF CallOK, Fresh, WentOn, Ok
  <2>6. Below(d)'
    BY <2>1, <2>2, <2>4 DEF CallOK, Below, Started
  <2>7. Joined(d)'
    BY <2>1, <2>3 DEF CallOK, Joined, PassedUp, Started, HasFailed
  <2>8. Through(d)'
    BY <2>1, <2>2, <2>3, <2>4 DEF CallOK, Through, PassedUp, Started, HasFailed, Ok
  <2>9. Traced(d)'
    BY <2>1, DecidedStays, TraceStays DEF CallOK, Traced
  <2> QED BY <2>5, <2>6, <2>7, <2>8, <2>9 DEF CallOK
<1> QED BY <1>1, <1>2

-----------------------------------------------------------------------------
LEMMA CallStepsAreStepsOf ==
  ASSUME IInv, StartInv, WireInv, HeapInv, NEW c \in DOMAIN args,
         InvalidType(c) \/ LinearStep(c) \/ FilterStep(c)
  PROVE  StepOf(c)
PROOF
<1>1. exec \in [DOMAIN args -> ExecShape]
  BY DEF IInv, ExecInv
<1>2. OnlyCall(c) /\ CallAdvances(c) /\ Kept
  BY CallStepsAreLocal, CallStepsAdvance, NextKeeps DEF Next, EngineStep
<1>3. CASE exec[c].pc \in {"ready", "await"} /\ args' = args
  BY <1>2, <1>3 DEF StepOf, Decided
<1>4. CASE CompleteAndContinue(c)
  BY <1>2, <1>4 DEF CompleteAndContinue, Responded, Calls, StepOf, Decided
<1>5. CASE LinearReturn(c)
  BY <1>1, <1>2, <1>5 DEF LinearReturn, ExecShape, StepOf
<1>6. CASE FilterReturn(c)
  BY <1>1, <1>2, <1>6 DEF FilterReturn, ExecShape, StepOf
<1>7. ASSUME NEW i \in exec[c].hits, StartBranch(c, i) PROVE StepOf(c)
  <2>1. i \in Nat
    BY <1>1 DEF ExecShape
  <2>2. exec'[c] = exec[c]
    BY <1>1, <1>7 DEF StartBranch, Started, WithCall
  <2> QED BY <1>2, <1>7, <2>1, <2>2 DEF StartBranch, Calls, StepOf
<1>8. ASSUME NEW i \in exec[c].hits, JoinBranch(c, i) PROVE StepOf(c)
  BY <1>1, <1>2, <1>8 DEF JoinBranch, ExecShape, StepOf
<1>9. CASE LinearStep(c)
  BY <1>3, <1>4, <1>5, <1>9
     DEF LinearStep, NoWorkerFound, Dispatch, DispatchError, WorkerFailure, RejectOverwrite,
         CompleteTerminal, CompleteDangling, Responded
<1>10. CASE FilterStep(c)
  BY <1>3, <1>6, <1>7, <1>8, <1>10 DEF FilterStep, FilterFails, FilterNoHit, FilterSplit
<1>11. CASE InvalidType(c)
  BY <1>3, <1>11 DEF InvalidType
<1> QED BY <1>9, <1>10, <1>11

LEMMA TraceIs == \A ns, s : Trace(ns, s).nodes = ns /\ Trace(ns, s).status = s
BY DEF Trace

LEMMA SingleThrough ==
  ASSUME NEW c, NEW t, NEW D, NEW O, c \in D, t = IF c \in O THEN "completed" ELSE "failed"
  PROVE  TraceThrough(Trace(<<c>>, t), D, O)
PROOF
<1> DEFINE ns == <<c>>
<1>1. ns[1] = c /\ Len(ns) = 1
  OBVIOUS
<1> HIDE DEF ns
<1>2. Trace(ns, t).nodes = ns /\ Trace(ns, t).status = t
  BY TraceIs
<1>3. TraceThrough(Trace(ns, t), D, O)
  <2>1. Len(ns) >= 1 /\ \A j \in 1..Len(ns) : ns[j] \in D
    BY <1>1
  <2>2. \A j \in 1..(Len(ns) - 1) : ns[j] \in O
    BY <1>1
  <2>3. t = IF ns[Len(ns)] \in O THEN "completed" ELSE "failed"
    BY <1>1
  <2> QED BY <1>2, <2>1, <2>2, <2>3 DEF TraceThrough
<1> QED BY <1>3 DEF ns

(* A call that returns with a trace of its own had no children.            *)
Agrees(s, e, t) ==
  t = IF s = "completed" /\ e \in {"none", "MONOTONICITY_VIOLATION"} THEN "completed" ELSE "failed"

LEMMA ReturnsOK ==
  ASSUME IInv, RunInv, args' = args, NEW c \in DOMAIN args, exec[c].pc \in {"ready", "await"},
         NEW s, NEW e, NEW t, Agrees(s, e, t),
         exec' = [exec EXCEPT ![c] = Returned(@, c, s, e, t)]
  PROVE  CallOK(c)'
PROOF
<1>1. DOMAIN exec = DOMAIN args /\ exec[c] \in ExecShape
  BY DEF IInv, ExecInv
<1>2. /\ exec'[c].pc = "done" /\ exec'[c].status = s /\ exec'[c].error = e
      /\ exec'[c].hits = {} /\ exec'[c].joined = {} /\ exec'[c].traces = <<Trace(<<c>>, t)>>
  BY <1>1 DEF Returned, ExecShape, RunInv, CallOK, Fresh
<1>3. \A i \in Nat : ~ Started(Append(c, i)) /\ Append(c, i) \notin DOMAIN args'
  BY DEF IInv, ExecInv, Started
<1>4. /\ c \in DecidedCalls'
      /\ c \in OkCalls' <=> (s = "completed" /\ e \in {"none", "MONOTONICITY_VIOLATION"})
  BY <1>2 DEF DecidedCalls, Decided, OkCalls, Ok
<1>5. TraceThrough(Trace(<<c>>, t), DecidedCalls', OkCalls')
  BY <1>4, SingleThrough DEF Agrees
<1>6. Traced(c)'
  BY <1>2, <1>5 DEF Traced
<1>7. Through(c)'
  BY <1>2, <1>3 DEF Through, HasFailed, Ok, Agrees, Trace, Started
<1> QED BY <1>2, <1>3, <1>6, <1>7 DEF CallOK, Fresh, WentOn, Below, Joined, Started

LEMMA FailsOK ==
  ASSUME IInv, RunInv, args' = args, NEW c \in DOMAIN args, exec[c].pc \in {"ready", "await"},
         NEW s, NEW e, Agrees(s, e, "failed"), Fails(c, s, e)
  PROVE  CallOK(c)'
BY ReturnsOK DEF Fails

(* Prepending a call that succeeded to good traces gives good traces.      *)
LEMMA PrependedThrough ==
  ASSUME NEW c \in Seq(Nat), NEW ts \in Seq(TraceShape), NEW D, NEW O, c \in D, c \in O,
         \A k \in 1..Len(ts) : TraceThrough(ts[k], D, O)
  PROVE  /\ Len(Prepended(c, ts)) = Len(ts)
         /\ \A k \in 1..Len(ts) : Prepended(c, ts)[k].status = ts[k].status
         /\ \A k \in 1..Len(ts) : TraceThrough(Prepended(c, ts)[k], D, O)
PROOF
<1>1. Len(Prepended(c, ts)) = Len(ts)
      /\ \A k \in 1..Len(ts) : Prepended(c, ts)[k] = Trace(<<c>> \o ts[k].nodes, ts[k].status)
  <2>1. Len(ts) \in Nat
    BY LenProperties
  <2> QED BY <2>1 DEF Prepended
<1>2. ASSUME NEW k \in 1..Len(ts)
      PROVE  TraceThrough(Trace(<<c>> \o ts[k].nodes, ts[k].status), D, O)
  <2> DEFINE ns == ts[k].nodes
             ms == <<c>> \o ns
             n  == Len(ns)
  <2>1. /\ n >= 1 /\ (\A j \in 1..n : ns[j] \in D) /\ (\A j \in 1..(n - 1) : ns[j] \in O)
        /\ ts[k].status = IF ns[n] \in O THEN "completed" ELSE "failed"
    BY <1>2 DEF TraceThrough
  <2>2. ns \in Seq(Seq(Nat)) /\ n \in Nat /\ <<c>> \in Seq(Seq(Nat)) /\ Len(<<c>>) = 1
    <3>1. ts[k] \in TraceShape
      OBVIOUS
    <3> QED BY <3>1, LenProperties DEF TraceShape
  <2>3. /\ Len(ms) = n + 1 /\ ms[1] = c
        /\ \A j \in 2..(n + 1) : ms[j] = ns[j - 1]
    BY <2>2, ConcatProperties
  <2> HIDE DEF ns, n, ms
  <2>4. Trace(ms, ts[k].status).nodes = ms /\ Trace(ms, ts[k].status).status = ts[k].status
    BY TraceIs
  <2>5. \A j \in 2..(n + 1) : j - 1 \in 1..n /\ (j \in 1..n => j - 1 \in 1..(n - 1))
    BY <2>2
  <2>6. /\ \A j \in 1..(n + 1) : ms[j] \in D
        /\ \A j \in 1..n : ms[j] \in O
        /\ ms[n + 1] = ns[n]
    <3>1. \A j \in 1..(n + 1) : j = 1 \/ j \in 2..(n + 1)
      BY <2>2
    <3>2. n + 1 \in 2..(n + 1) /\ (n + 1) - 1 = n
      BY <2>1, <2>2
    <3>3. \A j \in 1..n : j \in 1..(n + 1)
      BY <2>2
    <3>4. \A j \in 2..(n + 1) : ms[j] \in D /\ (j \in 1..n => ms[j] \in O)
      <4> TAKE j \in 2..(n + 1)
      <4>1. ms[j] = ns[j - 1] /\ j - 1 \in 1..n /\ (j \in 1..n => j - 1 \in 1..(n - 1))
        BY <2>3, <2>5
      <4> QED BY <2>1, <4>1
    <3>5. ms[n + 1] = ns[n]
      BY <2>3, <3>2
    <3> QED BY <2>3, <3>1, <3>3, <3>4, <3>5
  <2>7. n + 1 >= 1 /\ (n + 1) - 1 = n
    BY <2>2
  <2> DEFINE u == Trace(ms, ts[k].status)
  <2> HIDE DEF u
  <2>8. TraceThrough(u, D, O)
    <3>1. u.nodes = ms /\ Len(u.nodes) = n + 1 /\ u.status = ts[k].status
      BY <2>3, <2>4 DEF u
    <3>2. u.status = IF u.nodes[Len(u.nodes)] \in O THEN "completed" ELSE "failed"
      BY <2>1, <2>6, <3>1
    <3> QED BY <2>6, <2>7, <3>1, <3>2 DEF TraceThrough
  <2> QED BY <2>8 DEF u, ms, ns
<1>3. \A k \in 1..Len(ts) : Prepended(c, ts)[k].status = ts[k].status
  BY <1>1, TraceIs
<1> QED BY <1>1, <1>2, <1>3

-----------------------------------------------------------------------------
(* The steps in which a call goes on, one lemma each.                      *)

LEMMA TracesStay ==
  ASSUME IInv, RunInv, NEW c \in DOMAIN args, StepOf(c), exec'[c].traces = exec[c].traces
  PROVE  Traced(c)'
BY DecidedStays, TraceStays DEF RunInv, CallOK, Traced

LEMMA DispatchOK ==
  ASSUME IInv, RunInv, NEW c \in DOMAIN args, StepOf(c), Dispatch(c) PROVE CallOK(c)'
PROOF
<1>1. DOMAIN exec = DOMAIN args /\ exec[c] \in ExecShape
  BY DEF IInv, ExecInv
<1>2. exec[c].pc = "ready" /\ args' = args /\ exec' = [exec EXCEPT ![c].pc = "await"]
  BY DEF Dispatch
<1>3. /\ exec'[c].pc = "await" /\ exec'[c].status = exec[c].status
      /\ exec'[c].error = exec[c].error /\ exec'[c].hits = exec[c].hits
      /\ exec'[c].joined = exec[c].joined /\ exec'[c].traces = exec[c].traces
  BY <1>1, <1>2 DEF ExecShape
<1>4. \A i \in Nat : Append(c, i) \notin DOMAIN args'
  BY <1>2 DEF IInv, ExecInv, Started
<1>5. Traced(c)'
  BY <1>3, TracesStay
<1> QED BY <1>2, <1>3, <1>4, <1>5
        DEF RunInv, CallOK, Fresh, WentOn, Below, Joined, Through, Started

LEMMA ContinueOK ==
  ASSUME IInv, RunInv, NEW c \in DOMAIN args, StepOf(c), CompleteAndContinue(c) PROVE CallOK(c)'
PROOF
<1>1. DOMAIN exec = DOMAIN args /\ exec[c] \in ExecShape /\ c \in Seq(Nat)
  BY DEF IInv, ExecInv, TreeInv
<1>2. exec[c].pc = "await" /\ Linear(c) /\ c # Append(c, 1)
  BY DEF CompleteAndContinue, Responded, IInv, ExecInv, Started
<1>3. /\ exec'[c].pc = "called" /\ exec'[c].status = "completed" /\ exec'[c].error = Warning(c)
      /\ exec'[c].joined = exec[c].joined /\ exec'[c].traces = exec[c].traces
  BY <1>1, <1>2 DEF CompleteAndContinue, WithCall, ExecShape
<1>4. Ok(c)'
  BY <1>3 DEF Ok, Warning
<1>5. \A i \in Nat : Append(c, i) \in DOMAIN args' => i = 1
  <2> TAKE i \in Nat
  <2>1. Append(c, i) \notin DOMAIN args
    BY <1>2 DEF IInv, ExecInv, Started
  <2>2. DOMAIN args' = DOMAIN args \cup {Append(c, 1)}
    BY DEF CompleteAndContinue, Calls
  <2> QED BY <1>1, <2>1, <2>2, AddressInjective
<1>6. Linear(c)'
  BY <1>2 DEF StepOf, Kept, Linear, Node
<1>7. exec'[c].joined = {}
  BY <1>2, <1>3 DEF RunInv, CallOK, Fresh
<1>8. Traced(c)'
  BY <1>3, TracesStay
<1> QED BY <1>3, <1>4, <1>5, <1>6, <1>7, <1>8
        DEF CallOK, Fresh, WentOn, Below, Joined, Through, Started

(* What is passed up by prepending the caller.                             *)
LEMMA PrependedPassesUp ==
  ASSUME IInv, RunInv, NEW c \in DOMAIN args, StepOf(c), Decided(c), Ok(c),
         NEW e \in DOMAIN args, e # c
  PROVE  /\ Len(Prepended(c, exec[e].traces)) = Len(exec[e].traces)
         /\ \A k \in 1..Len(exec[e].traces) :
              /\ Prepended(c, exec[e].traces)[k].status = exec[e].traces[k].status
              /\ TraceThrough(Prepended(c, exec[e].traces)[k], DecidedCalls', OkCalls')
         /\ exec'[e] = exec[e]
PROOF
<1>1. /\ exec[e].traces \in Seq(TraceShape) /\ c \in Seq(Nat) /\ DOMAIN exec = DOMAIN args
  BY DEF IInv, ExecInv, ExecShape, TreeInv
<1>2. c \in DecidedCalls' /\ c \in OkCalls'
  BY DecidedStays DEF DecidedCalls, OkCalls
<1>3. \A k \in 1..Len(exec[e].traces) :
        TraceThrough(exec[e].traces[k], DecidedCalls', OkCalls')
  BY DecidedStays, TraceStays DEF RunInv, CallOK, Traced
<1> QED BY <1>1, <1>2, <1>3, PrependedThrough DEF StepOf, OnlyCall

LEMMA LinearReturnOK ==
  ASSUME IInv, RunInv, NEW c \in DOMAIN args, StepOf(c), LinearReturn(c) PROVE CallOK(c)'
PROOF
<1> DEFINE e == Append(c, 1)
<1>1. DOMAIN exec = DOMAIN args /\ exec[c] \in ExecShape /\ c \in Seq(Nat)
  BY DEF IInv, ExecInv, TreeInv
<1>2. /\ exec[c].pc = "called" /\ Linear(c) /\ exec[e].pc = "done" /\ args' = args
      /\ exec' = [exec EXCEPT ![c].pc = "done", ![c].traces = Prepended(c, exec[e].traces)]
  BY DEF LinearReturn
<1>3. e \in DOMAIN args /\ Ok(c) /\ Decided(c) /\ e # c
  BY <1>1, <1>2 DEF IInv, ExecInv, Started, RunInv, CallOK, WentOn, Decided
<1>4. /\ exec'[c].pc = "done" /\ exec'[c].traces = Prepended(c, exec[e].traces)
      /\ exec'[c].status = exec[c].status /\ exec'[c].error = exec[c].error
      /\ exec'[c].hits = exec[c].hits /\ exec'[c].joined = exec[c].joined
  BY <1>1, <1>2 DEF ExecShape
<1>5. /\ Len(exec'[c].traces) = Len(exec[e].traces)
      /\ \A k \in 1..Len(exec[e].traces) : exec'[c].traces[k].status = exec[e].traces[k].status
      /\ Traced(c)' /\ exec'[e] = exec[e]
  <2> DEFINE ps == Prepended(c, exec[e].traces)
             ts == exec[e].traces
  <2> HIDE DEF e
  <2>1. /\ Len(ps) = Len(ts)
        /\ \A k \in 1..Len(ts) : /\ ps[k].status = ts[k].status
                                 /\ TraceThrough(ps[k], DecidedCalls', OkCalls')
        /\ exec'[e] = exec[e]
    BY <1>3, PrependedPassesUp
  <2> HIDE DEF ps, ts
  <2>2. exec'[c].traces = ps
    BY <1>4 DEF ps
  <2>3. Traced(c)'
    BY <2>1, <2>2 DEF Traced
  <2> QED BY <2>1, <2>2, <2>3 DEF ts
<1>6. exec[c].hits = {}
  BY <1>2, LinearIsNoFilter DEF IInv, ExecInv
<1>7. \A i \in Nat : Append(c, i) \in DOMAIN args => i = 1
  BY <1>2, LinearIsNoFilter DEF RunInv, CallOK, Below, Started
<1>8. HasFailed(e)' => HasFailed(c)'
  BY <1>5 DEF HasFailed
<1>9. Linear(c)' /\ Ok(c)'
  BY <1>2, <1>3, <1>4 DEF StepOf, Kept, Linear, Node, Ok
<1>10. PassedUp(c, 1)'
  BY <1>2, <1>3, <1>5, <1>8 DEF PassedUp, Started
<1>11. exec[c].joined \subseteq Nat /\ \A i \in exec[c].joined : Append(c, i) \in DOMAIN args
  BY <1>1 DEF ExecShape, RunInv, CallOK, Joined, PassedUp, Started
<1>12. \A i \in exec[c].joined : i = 1
  BY <1>7, <1>11
<1>13. Joined(c)'
  BY <1>4, <1>10, <1>12 DEF Joined, PassedUp, Started, HasFailed
<1>14. Through(c)'
  BY <1>2, <1>4, <1>6, <1>7, <1>9, <1>10 DEF Through, PassedUp, Started, HasFailed
<1>15. Below(c)' /\ Fresh(c)' /\ WentOn(c)'
  BY <1>2, <1>4, <1>7, <1>9 DEF Below, Fresh, WentOn, Started
<1> QED BY <1>5, <1>13, <1>14, <1>15 DEF CallOK

LEMMA SplitOK ==
  ASSUME IInv, RunInv, NEW c \in DOMAIN args, StepOf(c), FilterSplit(c) PROVE CallOK(c)'
PROOF
<1>1. DOMAIN exec = DOMAIN args /\ exec[c] \in ExecShape
  BY DEF IInv, ExecInv
<1>2. exec[c].pc = "ready" /\ args' = args
  BY DEF FilterSplit
<1>3. /\ exec'[c].pc = "called" /\ exec'[c].status = "completed" /\ exec'[c].error = exec[c].error
      /\ exec'[c].joined = exec[c].joined /\ exec'[c].traces = exec[c].traces
  BY <1>1 DEF FilterSplit, ExecShape
<1>4. Ok(c)' /\ exec'[c].joined = {}
  BY <1>2, <1>3 DEF Ok, RunInv, CallOK, Fresh
<1>5. \A i \in Nat : Append(c, i) \notin DOMAIN args'
  BY <1>2 DEF IInv, ExecInv, Started
<1>6. Traced(c)'
  BY <1>3, TracesStay
<1> QED BY <1>3, <1>4, <1>5, <1>6 DEF CallOK, Fresh, WentOn, Below, Joined, Through, Started

LEMMA BranchOK ==
  ASSUME IInv, RunInv, NEW c \in DOMAIN args, StepOf(c), NEW i \in exec[c].hits, StartBranch(c, i)
  PROVE  CallOK(c)'
PROOF
<1>1. DOMAIN exec = DOMAIN args /\ exec[c] \in ExecShape /\ c \in Seq(Nat) /\ i \in Nat
  BY DEF IInv, ExecInv, TreeInv, ExecShape
<1>2. exec[c].pc = "called" /\ Filter(c) /\ Append(c, i) \notin DOMAIN args
  BY DEF StartBranch, Started
<1>3. exec'[c] = exec[c]
  BY <1>1, <1>2 DEF StartBranch, WithCall
<1>4. DOMAIN args' = DOMAIN args \cup {Append(c, i)}
  BY DEF StartBranch, Calls
<1>5. Filter(c)' /\ ~ Linear(c)
  BY <1>2, LinearIsNoFilter DEF StepOf, Kept, Filter, Node
<1>6. Below(c)'
  <2>1. \A j \in Nat : Append(c, j) \in DOMAIN args' => j \in exec[c].hits
    BY <1>1, <1>4, <1>5, AddressInjective DEF RunInv, CallOK, Below, Started
  <2> QED BY <1>3, <1>5, <2>1 DEF Below, Started
<1>7. ASSUME NEW j \in exec[c].joined PROVE PassedUp(c, j)'
  <2>1. Append(c, j) \in DOMAIN args /\ PassedUp(c, j)
    BY DEF RunInv, CallOK, Joined, PassedUp, Started
  <2>2. exec'[Append(c, j)] = exec[Append(c, j)]
    BY <1>1, <1>2, <2>1 DEF StepOf, OnlyCall, PassedUp
  <2> QED BY <1>3, <1>4, <2>1, <2>2 DEF PassedUp, Started, HasFailed
<1>8. Joined(c)'
  BY <1>3, <1>7 DEF Joined, PassedUp, Started, HasFailed
<1>9. Traced(c)'
  BY <1>3, TracesStay
<1>10. WentOn(c)' /\ Fresh(c)' /\ Through(c)'
  BY <1>2, <1>3 DEF RunInv, CallOK, WentOn, Fresh, Through, Ok
<1> QED BY <1>6, <1>8, <1>9, <1>10 DEF CallOK

LEMMA FilterReturnOK ==
  ASSUME IInv, RunInv, NEW c \in DOMAIN args, StepOf(c), FilterReturn(c) PROVE CallOK(c)'
PROOF
<1>1. DOMAIN exec = DOMAIN args /\ exec[c] \in ExecShape
  BY DEF IInv, ExecInv
<1>2. exec[c].pc = "called" /\ Filter(c) /\ exec[c].joined = exec[c].hits /\ args' = args
  BY DEF FilterReturn, AllJoined
<1>3. /\ exec'[c].pc = "done" /\ exec'[c].traces = exec[c].traces
      /\ exec'[c].status = exec[c].status /\ exec'[c].error = exec[c].error
      /\ exec'[c].hits = exec[c].hits /\ exec'[c].joined = exec[c].joined
  BY <1>1 DEF FilterReturn, ExecShape
<1>4. Ok(c)' /\ Filter(c)' /\ ~ Linear(c)'
  BY <1>2, <1>3, LinearIsNoFilter DEF Ok, RunInv, CallOK, WentOn, StepOf, Kept, Filter, Linear, Node
<1>5. ASSUME NEW j \in exec[c].joined PROVE PassedUp(c, j)'
  <2>1. Append(c, j) \in DOMAIN args /\ PassedUp(c, j)
    BY DEF RunInv, CallOK, Joined, PassedUp, Started
  <2>2. exec'[Append(c, j)] = exec[Append(c, j)]
    BY <1>1, <1>2, <2>1 DEF StepOf, OnlyCall, PassedUp
  <2> QED BY <1>2, <1>3, <2>1, <2>2 DEF PassedUp, Started, HasFailed
<1>6. Joined(c)'
  BY <1>3, <1>5 DEF Joined, PassedUp, Started, HasFailed
<1>7. Below(c)'
  BY <1>2, <1>3, <1>4, LinearIsNoFilter DEF RunInv, CallOK, Below, Started
<1>8. Through(c)' /\ Fresh(c)' /\ WentOn(c)'
  BY <1>2, <1>3, <1>4 DEF Through, Fresh, WentOn
<1>9. Traced(c)'
  BY <1>3, TracesStay
<1> QED BY <1>6, <1>7, <1>8, <1>9 DEF CallOK

(* The traces of a filter, those of a branch added.                        *)
LEMMA JoinOK ==
  ASSUME IInv, RunInv, NEW c \in DOMAIN args, StepOf(c), NEW i \in exec[c].hits, JoinBranch(c, i)
  PROVE  CallOK(c)'
PROOF
<1> DEFINE e  == Append(c, i)
           ts == exec[c].traces
           us == exec[e].traces
           ps == Prepended(c, us)
<1>1. /\ DOMAIN exec = DOMAIN args /\ exec[c] \in ExecShape /\ c \in Seq(Nat) /\ i \in Nat
  BY DEF IInv, ExecInv, TreeInv, ExecShape
<1>2. /\ exec[c].pc = "called" /\ Filter(c) /\ e \in DOMAIN args /\ exec[e].pc = "done"
      /\ e # c /\ args' = args
  BY DEF JoinBranch, Started
<1>3. Ok(c) /\ Decided(c)
  BY <1>2 DEF RunInv, CallOK, WentOn, Decided
<1>4. /\ exec'[c].pc = "called" /\ exec'[c].traces = ts \o ps
      /\ exec'[c].status = exec[c].status /\ exec'[c].error = exec[c].error
      /\ exec'[c].hits = exec[c].hits /\ exec'[c].joined = exec[c].joined \cup {i}
  BY <1>1, <1>2 DEF JoinBranch, JoinedTraces, ExecShape
<1>5. /\ Len(ps) = Len(us)
      /\ \A k \in 1..Len(us) : /\ ps[k].status = us[k].status
                               /\ TraceThrough(ps[k], DecidedCalls', OkCalls')
      /\ exec'[e] = exec[e]
  <2> HIDE DEF e
  <2> QED BY <1>2, <1>3, PrependedPassesUp
<1>6. \A k \in 1..Len(ts) : TraceThrough(ts[k], DecidedCalls', OkCalls')
  BY DecidedStays, TraceStays DEF RunInv, CallOK, Traced
<1>7. ts \in Seq(TraceShape) /\ ps \in Seq(TraceShape) /\ Len(ts) \in Nat /\ Len(us) \in Nat
  <2>1. us \in Seq(TraceShape)
    BY <1>1, <1>2 DEF IInv, ExecInv, ExecShape
  <2> QED BY <1>1, <2>1, TracesShape, LenProperties DEF ExecShape
<1> HIDE DEF ts, us, ps
<1>8. /\ Len(ts \o ps) = Len(ts) + Len(us)
      /\ \A k \in 1..Len(ts) : (ts \o ps)[k] = ts[k]
      /\ \A k \in 1..Len(us) : (ts \o ps)[Len(ts) + k] = ps[k]
  <2>1. /\ Len(ts \o ps) = Len(ts) + Len(ps)
        /\ \A k \in 1..(Len(ts) + Len(ps)) :
             (ts \o ps)[k] = IF k <= Len(ts) THEN ts[k] ELSE ps[k - Len(ts)]
    BY <1>7, ConcatProperties
  <2>2. \A k \in 1..Len(ts) : k \in 1..(Len(ts) + Len(ps)) /\ k <= Len(ts)
    BY <1>5, <1>7
  <2>3. \A k \in 1..Len(us) : /\ Len(ts) + k \in 1..(Len(ts) + Len(ps))
                              /\ ~ (Len(ts) + k <= Len(ts)) /\ (Len(ts) + k) - Len(ts) = k
    BY <1>5, <1>7
  <2> QED BY <1>5, <2>1, <2>2, <2>3
<1>9. Traced(c)'
  <2>1. ASSUME NEW k \in 1..(Len(ts) + Len(us)), k \notin 1..Len(ts)
        PROVE  TraceThrough((ts \o ps)[k], DecidedCalls', OkCalls')
    <3>1. k - Len(ts) \in 1..Len(us) /\ Len(ts) + (k - Len(ts)) = k
      BY <1>7, <2>1
    <3> QED BY <1>5, <1>8, <3>1
  <2> QED BY <1>4, <1>6, <1>8, <2>1 DEF Traced
<1>10. (HasFailed(c) \/ HasFailed(e)) => HasFailed(c)'
  <2>1. ASSUME NEW k \in 1..Len(ts), ts[k].status = "failed" PROVE HasFailed(c)'
    <3>1. k \in 1..Len(ts \o ps) /\ (ts \o ps)[k].status = "failed"
      BY <1>7, <1>8, <2>1
    <3> QED BY <1>4, <3>1 DEF HasFailed
  <2>2. ASSUME NEW k \in 1..Len(us), us[k].status = "failed" PROVE HasFailed(c)'
    <3>1. Len(ts) + k \in 1..Len(ts \o ps) /\ (ts \o ps)[Len(ts) + k].status = "failed"
      BY <1>5, <1>7, <1>8, <2>2
    <3> QED BY <1>4, <3>1 DEF HasFailed
  <2> QED BY <2>1, <2>2 DEF HasFailed, ts, us
<1>11. ASSUME NEW j \in exec'[c].joined PROVE PassedUp(c, j)'
  <2>1. CASE j = i
    BY <1>2, <1>5, <1>10, <2>1 DEF PassedUp, Started, HasFailed
  <2>2. CASE j # i
    <3>1. Append(c, j) \in DOMAIN args /\ PassedUp(c, j)
      BY <1>4, <2>2 DEF RunInv, CallOK, Joined, PassedUp, Started
    <3>2. exec'[Append(c, j)] = exec[Append(c, j)]
      BY <1>1, <1>2, <3>1 DEF StepOf, OnlyCall, PassedUp
    <3> QED BY <1>2, <1>10, <3>1, <3>2 DEF PassedUp, Started, HasFailed
  <2> QED BY <2>1, <2>2
<1>12. Joined(c)'
  BY <1>11 DEF Joined, PassedUp, Started, HasFailed
<1>13. Below(c)' /\ WentOn(c)' /\ Fresh(c)' /\ Through(c)'
  BY <1>2, <1>3, <1>4 DEF RunInv, CallOK, Below, WentOn, Fresh, Through, Started, StepOf, Kept,
                          Filter, Linear, Node, Ok
<1> QED BY <1>9, <1>12, <1>13 DEF CallOK

-----------------------------------------------------------------------------
AllInv == IInv /\ StartInv /\ WireInv /\ PayInv /\ CompletedInv /\ RunInv

(* A step of a call leaves it as it should be.                             *)
LEMMA CallStepsOK ==
  ASSUME AllInv, NEW c \in DOMAIN args, InvalidType(c) \/ LinearStep(c) \/ FilterStep(c)
  PROVE  StepOf(c) /\ CallOK(c)'
PROOF
<1> USE DEF AllInv
<1>1. StepOf(c)
  BY CallStepsAreStepsOf DEF PayInv
<1>2. CASE InvalidType(c)
  BY <1>1, <1>2, FailsOK DEF InvalidType, Agrees
<1>3. CASE LinearStep(c)
  <2>1. CASE NoWorkerFound(c)
    BY <1>1, <2>1, FailsOK DEF NoWorkerFound, Agrees
  <2>2. CASE Dispatch(c)
    BY <1>1, <2>2, DispatchOK
  <2>3. CASE DispatchError(c)
    BY <1>1, <2>3, FailsOK DEF DispatchError, Agrees
  <2>4. CASE WorkerFailure(c)
    BY <1>1, <2>4, FailsOK DEF WorkerFailure, Responded, Agrees
  <2>5. CASE RejectOverwrite(c)
    BY <1>1, <2>5, FailsOK DEF RejectOverwrite, Responded, Agrees
  <2>6. CASE CompleteTerminal(c)
    <3>1. Agrees("completed", Warning(c), "completed")
      BY DEF Warning, Agrees
    <3> QED BY <1>1, <2>6, <3>1, ReturnsOK DEF CompleteTerminal, Responded
  <2>7. CASE CompleteDangling(c)
    BY <1>1, <2>7, FailsOK DEF CompleteDangling, Responded, Agrees
  <2>8. CASE CompleteAndContinue(c)
    BY <1>1, <2>8, ContinueOK
  <2>9. CASE LinearReturn(c)
    BY <1>1, <2>9, LinearReturnOK
  <2> QED BY <1>3, <2>1, <2>2, <2>3, <2>4, <2>5, <2>6, <2>7, <2>8, <2>9 DEF LinearStep
<1>4. CASE FilterStep(c)
  <2>1. CASE FilterFails(c)
    BY <1>1, <2>1, FailsOK DEF FilterFails, Agrees
  <2>2. CASE FilterNoHit(c)
    <3>1. Agrees("completed", "none", "completed")
      BY DEF Agrees
    <3> QED BY <1>1, <2>2, <3>1, ReturnsOK DEF FilterNoHit
  <2>3. CASE FilterSplit(c)
    BY <1>1, <2>3, SplitOK
  <2>4. CASE FilterReturn(c)
    BY <1>1, <2>4, FilterReturnOK
  <2>5. ASSUME NEW i \in exec[c].hits, StartBranch(c, i) PROVE CallOK(c)'
    BY <1>1, <2>5, BranchOK
  <2>6. ASSUME NEW i \in exec[c].hits, JoinBranch(c, i) PROVE CallOK(c)'
    BY <1>1, <2>6, JoinOK
  <2> QED BY <1>1, <1>4, <2>1, <2>2, <2>3, <2>4, <2>5, <2>6 DEF FilterStep
<1> QED BY <1>1, <1>2, <1>3, <1>4

LEMMA NextRun == AllInv /\ IInv' /\ [Next]_vars => RunInv'
PROOF
<1> SUFFICES ASSUME AllInv, IInv', [Next]_vars PROVE RunInv'
  OBVIOUS
<1>1. CASE Execute
  <2>1. \A c \in DOMAIN args' : exec'[c] = Entered
    BY <1>1 DEF AllInv, Execute, StartInv
  <2>2. \A c \in DOMAIN args' : \A i \in Nat : Append(c, i) \notin DOMAIN args'
    BY <2>1, EnteredIs DEF IInv, ExecInv, Started
  <2>3. /\ Entered.pc = "ready" /\ Entered.status = "running" /\ Entered.error = "none"
        /\ Entered.hits = {} /\ Entered.joined = {} /\ Entered.traces = <<>>
    BY DEF Entered
  <2> QED BY <2>1, <2>2, <2>3
          DEF RunInv, CallOK, Fresh, WentOn, Below, Joined, Through, Traced, Started
<1>2. ASSUME NEW c \in DOMAIN args, InvalidType(c) \/ LinearStep(c) \/ FilterStep(c)
      PROVE  RunInv'
  BY <1>2, CallStepsOK, OthersStayOK DEF AllInv
<1>3. CASE args' = args /\ exec' = exec
  <2>1. DecidedCalls' = DecidedCalls /\ OkCalls' = OkCalls
    BY <1>3 DEF DecidedCalls, OkCalls, Decided, Ok
  <2> QED BY <1>3, <2>1
          DEF AllInv, RunInv, CallOK, Fresh, WentOn, Below, Joined, Through, Traced, Started,
              Linear, Filter, Node, Ok, PassedUp, HasFailed
<1> QED BY <1>1, <1>2, <1>3 DEF Next, EngineStep, Finish, WorkerAnswers, vars

LEMMA AllHolds == Spec => []AllInv
PROOF
<1>1. Init => AllInv
  <2>1. Init => CompletedInv /\ RunInv
    BY DEF Init, CompletedInv, RunInv
  <2> QED BY <2>1, InitIInv, InitStart, InitWire, InitPay DEF AllInv
<1>2. AllInv /\ [Next]_vars => AllInv'
  BY NextIInv, NextStart, NextWire, NextPay, NextCompleted, NextRun DEF AllInv
<1> QED BY <1>1, <1>2, PTL DEF Spec

-----------------------------------------------------------------------------
(* The root is through only when every call is, and it has a failed trace  *)
(* exactly when some call failed.                                          *)

(* Of some calls one has no caller among them.                             *)
LEMMA OutermostCall ==
  ASSUME IInv, NEW S, S \subseteq DOMAIN args, S # {}
  PROVE  \E e \in S : \/ e = Root
                      \/ \E d \in DOMAIN args, i \in Nat : d \notin S /\ e = Append(d, i)
PROOF
<1>1. \A e \in S : e \in Seq(Nat) /\ Len(e) \in Nat
  BY LenProperties DEF IInv, TreeInv
<1> DEFINE T == {Len(e) : e \in S}
<1>2. T \subseteq Nat /\ T # {}
  BY <1>1
<1>3. PICK n \in T : \A m \in T : n <= m
  BY <1>2, LeastNatural
<1>4. PICK e \in S : Len(e) = n
  OBVIOUS
<1>5. ASSUME e # Root
      PROVE  \E d \in DOMAIN args, i \in Nat : d \notin S /\ e = Append(d, i)
  <2>1. PICK d \in DOMAIN args, i \in Nat : e = Append(d, i)
    BY <1>5 DEF IInv, TreeInv, MadeBy
  <2>2. d \in Seq(Nat) /\ Len(d) \in Nat /\ Len(e) = Len(d) + 1
    BY <2>1, AppendProperties, LenProperties DEF IInv, TreeInv
  <2>3. d \notin S
    <3> SUFFICES ASSUME d \in S PROVE FALSE
      OBVIOUS
    <3>1. n <= Len(d)
      BY <1>3
    <3> QED BY <1>4, <2>2, <3>1
  <2> QED BY <2>1, <2>3
<1> QED BY <1>5

LEMMA DonePassesUp ==
  ASSUME AllInv, NEW c \in DOMAIN args, exec[c].pc = "done",
         NEW i \in Nat, Append(c, i) \in DOMAIN args
  PROVE  PassedUp(c, i)
BY DEF AllInv, RunInv, CallOK, Below, Through, Joined, Started

LEMMA AllThrough ==
  ASSUME AllInv, Root \in DOMAIN args, exec[Root].pc = "done"
  PROVE  /\ \A c \in DOMAIN args : exec[c].pc = "done"
         /\ HasFailed(Root) <=> \E c \in DOMAIN args : ~ Ok(c)
PROOF
<1>1. \A c \in DOMAIN args : exec[c].pc = "done"
  <2> DEFINE S == {c \in DOMAIN args : exec[c].pc # "done"}
  <2> SUFFICES ASSUME S # {} PROVE FALSE
    OBVIOUS
  <2>1. PICK e \in S : \/ e = Root
                      \/ \E d \in DOMAIN args, i \in Nat : d \notin S /\ e = Append(d, i)
    BY OutermostCall DEF AllInv
  <2>2. PICK d \in DOMAIN args, i \in Nat : exec[d].pc = "done" /\ e = Append(d, i)
    BY <2>1
  <2> QED BY <2>2, DonePassesUp DEF PassedUp
<1>2. ASSUME HasFailed(Root) PROVE \E c \in DOMAIN args : ~ Ok(c)
  <2>1. PICK k \in 1..Len(exec[Root].traces) : exec[Root].traces[k].status = "failed"
    BY <1>2 DEF HasFailed
  <2>2. TraceThrough(exec[Root].traces[k], DecidedCalls, OkCalls)
    BY DEF AllInv, RunInv, CallOK, Traced
  <2> DEFINE t == exec[Root].traces[k]
             n == Len(t.nodes)
  <2>3. n \in Nat
    <3>1. t \in TraceShape
      BY DEF AllInv, IInv, ExecInv, ExecShape
    <3> QED BY <3>1, LenProperties DEF TraceShape
  <2> HIDE DEF t
  <2>4. t.nodes[n] \in DecidedCalls /\ t.nodes[n] \notin OkCalls
    <3>1. TraceThrough(t, DecidedCalls, OkCalls) /\ t.status = "failed"
      BY <2>1, <2>2 DEF t
    <3>2. n >= 1 /\ n \in 1..n
      BY <2>3, <3>1 DEF TraceThrough
    <3> QED BY <3>1, <3>2 DEF TraceThrough
  <2> QED BY <2>4 DEF DecidedCalls, OkCalls
<1>3. ASSUME NEW c \in DOMAIN args, ~ Ok(c) PROVE HasFailed(Root)
  <2> DEFINE S == {d \in DOMAIN args : HasFailed(d)}
  <2>1. c \in S
    BY <1>1, <1>3 DEF AllInv, RunInv, CallOK, Through
  <2>2. PICK e \in S : \/ e = Root
                      \/ \E d \in DOMAIN args, i \in Nat : d \notin S /\ e = Append(d, i)
    BY <2>1, OutermostCall DEF AllInv
  <2>3. ASSUME NEW d \in DOMAIN args, NEW i \in Nat, d \notin S, e = Append(d, i) PROVE FALSE
    BY <1>1, <2>3, DonePassesUp DEF PassedUp
  <2> QED BY <2>2, <2>3
<1> QED BY <1>1, <1>2, <1>3

-----------------------------------------------------------------------------
(* What a step of c does to the abstract run: what it does to c.           *)
LEMMA RunFrame ==
  ASSUME AllInv, IInv', NEW c \in DOMAIN args, StepOf(c)
  PROVE  /\ DOMAIN Progressed = DOMAIN args /\ DOMAIN Due = DOMAIN args
         /\ Progressed' = [d \in DOMAIN args' |-> IF d = c THEN Progress(c)'
                              ELSE IF d \in DOMAIN args THEN Progressed[d] ELSE "busy"]
         /\ Due' = [d \in DOMAIN args' |-> IF d = c THEN DueBelow(c)'
                       ELSE IF d \in DOMAIN args THEN Due[d] ELSE {}]
         /\ Outcome' = Outcome
PROOF
<1>1. DOMAIN exec = DOMAIN args /\ DOMAIN args \subseteq Seq(Nat)
  BY DEF AllInv, IInv, ExecInv, TreeInv
<1>2. ASSUME NEW d \in DOMAIN args', d # c, d \in DOMAIN args
      PROVE  Progress(d)' = Progressed[d] /\ DueBelow(d)' = Due[d]
  <2>1. exec'[d] = exec[d] /\ args'[d] = args[d]
    BY <1>1, <1>2 DEF StepOf, OnlyCall, Kept
  <2>2. Append(d, 1) \in DOMAIN args' <=> Append(d, 1) \in DOMAIN args
    <3>1. ASSUME Append(d, 1) \in DOMAIN args', Append(d, 1) \notin DOMAIN args PROVE FALSE
      <4>1. PICK j \in Nat : Append(d, 1) = Append(c, j)
        BY <3>1 DEF StepOf
      <4> QED BY <1>1, <1>2, <4>1, AddressInjective
    <3> QED BY <3>1 DEF StepOf, OnlyCall
  <2> QED BY <1>2, <2>1, <2>2 DEF Progressed, Due, Progress, DueBelow, Linear, Node, Started
<1>3. ASSUME NEW d \in DOMAIN args', d # c, d \notin DOMAIN args
      PROVE  Progress(d)' = "busy" /\ DueBelow(d)' = {}
  <2>1. exec'[d] = Entered /\ Entered.pc = "ready" /\ Entered.hits = {}
    BY <1>3 DEF StepOf, CallAdvances, Entered
  <2>2. Append(d, 1) \notin DOMAIN args'
    BY <2>1 DEF IInv, ExecInv, Started
  <2> QED BY <2>1, <2>2 DEF Progress, DueBelow, Started
<1>4. Outcome' = Outcome
  BY DEF StepOf, OnlyCall, Outcome
<1>5. /\ DOMAIN Progressed' = DOMAIN args' /\ DOMAIN Due' = DOMAIN args'
      /\ Progressed' = [d \in DOMAIN args' |-> Progressed'[d]]
      /\ Due' = [d \in DOMAIN args' |-> Due'[d]]
      /\ DOMAIN Progressed = DOMAIN args /\ DOMAIN Due = DOMAIN args
  BY DEF Progressed, Due
<1>6. ASSUME NEW d \in DOMAIN args'
      PROVE  Progressed'[d] = Progress(d)' /\ Due'[d] = DueBelow(d)'
  BY DEF Progressed, Due, Progress, DueBelow, Linear, Node, Started
<1>7. \A d \in DOMAIN args' :
        /\ Progressed'[d] = IF d = c THEN Progress(c)'
                             ELSE IF d \in DOMAIN args THEN Progressed[d] ELSE "busy"
        /\ Due'[d] = IF d = c THEN DueBelow(c)'
                      ELSE IF d \in DOMAIN args THEN Due[d] ELSE {}
  <2> TAKE d \in DOMAIN args'
  <2>1. Progressed'[d] = Progress(d)' /\ Due'[d] = DueBelow(d)'
    BY <1>6
  <2> QED BY <1>2, <1>3, <2>1
<1> QED BY <1>4, <1>5, <1>7

(* A call that is not decided is busy and has nothing below it.            *)
LEMMA BusyCall ==
  ASSUME AllInv, NEW c \in DOMAIN args, exec[c].pc \in {"ready", "await"}
  PROVE  Progressed[c] = "busy" /\ Due[c] = {} /\ \A i \in Nat : Append(c, i) \notin DOMAIN args
PROOF
<1>1. \A i \in Nat : Append(c, i) \notin DOMAIN args
  BY DEF AllInv, IInv, ExecInv, Started
<1>2. exec[c].hits = {}
  BY DEF AllInv, RunInv, CallOK, Fresh
<1>3. Progress(c) = "busy" /\ DueBelow(c) = {}
  BY <1>1, <1>2 DEF Progress, DueBelow, Started
<1> QED BY <1>1, <1>3 DEF Progressed, Due

LEMMA BranchesBounded ==
  ASSUME AllInv, NEW c \in DOMAIN args
  PROVE  Branches(c) \subseteq 1..MaxBranches
PROOF
<1>1. Node(c) \in NodesOf(wf) /\ wf \in Workflows
  BY NodesParsed DEF AllInv, IInv, TreeInv, Defined
<1>2. Len(Node(c).branches) \in Nat /\ Len(Node(c).branches) <= MaxBranches
  BY <1>1, NodesParsed, BranchesAssumption
<1> QED BY <1>2, BranchesAssumption DEF Branches

(* A busy call that succeeds and begins some of the calls due below it.    *)
LEMMA SucceedsMaps ==
  ASSUME AllInv, AllInv', NEW c \in DOMAIN args, StepOf(c), Progressed[c] = "busy",
         Progress(c)' = "ok", DueBelow(c)' \subseteq 1..MaxBranches,
         NEW now, now \subseteq DueBelow(c)',
         \A i \in now : Append(c, i) \notin DOMAIN args,
         DOMAIN args' = DOMAIN args \cup {Append(c, i) : i \in now}
  PROVE  Run!Next
PROOF
<1> DEFINE K == {Append(c, i) : i \in now}
           D == DueBelow(c)'
<1>1. K \cap DOMAIN args = {} /\ c \notin K
  OBVIOUS
<1>2. /\ DOMAIN Progressed = DOMAIN args /\ DOMAIN Due = DOMAIN args
      /\ Progressed' = [d \in DOMAIN args \cup K |-> IF d = c THEN "ok"
                           ELSE IF d \in DOMAIN args THEN Progressed[d] ELSE "busy"]
      /\ Due' = [d \in DOMAIN args \cup K |-> IF d = c THEN D
                    ELSE IF d \in DOMAIN args THEN Due[d] ELSE {}]
      /\ Outcome' = Outcome
  BY RunFrame DEF AllInv
<1>3. D \in SUBSET (1..MaxBranches)
  OBVIOUS
<1> HIDE DEF D
<1>4. Run!Kids(c, now) = K
  BY DEF Run!Kids
<1> HIDE DEF K
<1>5. Progressed' = Run!Extended([Progressed EXCEPT ![c] = "ok"], K, "busy")
  BY <1>1, <1>2 DEF Run!Extended
<1>6. Due' = Run!Extended([Due EXCEPT ![c] = D], K, {})
  BY <1>1, <1>2 DEF Run!Extended
<1>7. Run!Succeed(c, D, now)
  BY <1>2, <1>4, <1>5, <1>6 DEF Run!Succeed
<1> QED BY <1>2, <1>3, <1>7 DEF Run!Next, D

LEMMA SucceedsAlone ==
  ASSUME AllInv, AllInv', NEW c \in DOMAIN args, StepOf(c), Progressed[c] = "busy",
         Progress(c)' = "ok", DueBelow(c)' \subseteq 1..MaxBranches, args' = args
  PROVE  Run!Next
PROOF
<1>1. PICK now : now = {}
  OBVIOUS
<1>2. /\ now \subseteq DueBelow(c)' /\ \A i \in now : Append(c, i) \notin DOMAIN args
      /\ DOMAIN args' = DOMAIN args \cup {Append(c, i) : i \in now}
  BY <1>1
<1> QED BY <1>2, SucceedsMaps

(* A call that returns with a trace of its own fails, or succeeds and has  *)
(* nothing due below it.                                                   *)
LEMMA ReturnsMaps ==
  ASSUME AllInv, AllInv', NEW c \in DOMAIN args, StepOf(c), args' = args,
         exec[c].pc \in {"ready", "await"}, NEW s, NEW e, NEW t,
         exec' = [exec EXCEPT ![c] = Returned(@, c, s, e, t)]
  PROVE  Run!Next
PROOF
<1>1. DOMAIN exec = DOMAIN args /\ exec[c] \in ExecShape
  BY DEF AllInv, IInv, ExecInv
<1>2. exec'[c].pc = "done" /\ exec'[c].hits = {}
  BY <1>1 DEF Returned, ExecShape, AllInv, RunInv, CallOK, Fresh
<1>3. /\ Progressed[c] = "busy" /\ Due[c] = {} /\ Append(c, 1) \notin DOMAIN args'
  BY BusyCall
<1>4. DueBelow(c)' = {} /\ Progress(c)' \in {"ok", "failed"}
  BY <1>2, <1>3 DEF DueBelow, Progress, Started
<1>5. /\ DOMAIN Progressed = DOMAIN args /\ DOMAIN Due = DOMAIN args
      /\ Progressed' = [Progressed EXCEPT ![c] = Progress(c)']
      /\ Due' = Due /\ Outcome' = Outcome
  <2>1. /\ DOMAIN Progressed = DOMAIN args /\ DOMAIN Due = DOMAIN args
        /\ Progressed' = [d \in DOMAIN args |-> IF d = c THEN Progress(c)' ELSE Progressed[d]]
        /\ Due' = [d \in DOMAIN args |-> IF d = c THEN {} ELSE Due[d]]
        /\ Outcome' = Outcome
    BY <1>4, RunFrame DEF AllInv
  <2>2. Progressed = [d \in DOMAIN args |-> Progressed[d]] /\ Due = [d \in DOMAIN args |-> Due[d]]
    BY DEF Progressed, Due
  <2> QED BY <1>3, <2>1, <2>2
<1>6. CASE Progress(c)' = "failed"
  <2>1. Run!Fail(c)
    BY <1>3, <1>5, <1>6 DEF Run!Fail
  <2> QED BY <1>5, <2>1 DEF Run!Next
<1>7. CASE Progress(c)' = "ok"
  <2>1. DueBelow(c)' \subseteq 1..MaxBranches
    BY <1>4
  <2> QED BY <1>3, <1>7, <2>1, SucceedsAlone
<1> QED BY <1>4, <1>6, <1>7

LEMMA FailsMaps ==
  ASSUME AllInv, AllInv', NEW c \in DOMAIN args, StepOf(c), args' = args,
         exec[c].pc \in {"ready", "await"}, NEW s, NEW e, Fails(c, s, e)
  PROVE  Run!Next
BY ReturnsMaps DEF Fails

LEMMA ContinueMaps ==
  ASSUME AllInv, AllInv', NEW c \in DOMAIN args, StepOf(c), CompleteAndContinue(c)
  PROVE  Run!Next
PROOF
<1>1. DOMAIN exec = DOMAIN args /\ exec[c] \in ExecShape
  BY DEF AllInv, IInv, ExecInv
<1>2. exec[c].pc = "await" /\ Linear(c)
  BY DEF CompleteAndContinue, Responded, AllInv, IInv, ExecInv
<1>3. Progressed[c] = "busy" /\ Append(c, 1) \notin DOMAIN args /\ c # Append(c, 1)
  BY <1>2, BusyCall
<1>4. DOMAIN args' = DOMAIN args \cup {Append(c, 1)} /\ Linear(c)'
  BY <1>2 DEF CompleteAndContinue, Calls, StepOf, Kept, Linear, Node
<1>5. DueBelow(c)' = {1}
  BY <1>4 DEF DueBelow, Started
<1>6. Progress(c)' = "ok"
  <2>1. exec'[c].pc = "called" /\ exec'[c].status = "completed" /\ exec'[c].error = Warning(c)
    BY <1>1, <1>3 DEF CompleteAndContinue, WithCall, ExecShape
  <2> QED BY <2>1 DEF Progress, Warning
<1>7. DOMAIN args' = DOMAIN args \cup {Append(c, i) : i \in {1}} /\ {1} \subseteq 1..MaxBranches
  BY <1>4, BranchesAssumption
<1> QED BY <1>3, <1>5, <1>6, <1>7, SucceedsMaps

LEMMA SplitMaps ==
  ASSUME AllInv, AllInv', NEW c \in DOMAIN args, StepOf(c), FilterSplit(c)
  PROVE  Run!Next
PROOF
<1>1. DOMAIN exec = DOMAIN args /\ exec[c] \in ExecShape
  BY DEF AllInv, IInv, ExecInv
<1>2. exec[c].pc = "ready" /\ Filter(c) /\ args' = args
  BY DEF FilterSplit
<1>3. Progressed[c] = "busy" /\ exec[c].error = "none"
  BY <1>2, BusyCall DEF AllInv, RunInv, CallOK, Fresh
<1>4. /\ exec'[c].pc = "called" /\ exec'[c].status = "completed"
      /\ exec'[c].error = "none" /\ exec'[c].hits = Hits(c)
  BY <1>1, <1>3 DEF FilterSplit, ExecShape
<1>5. Progress(c)' = "ok"
  BY <1>4 DEF Progress
<1>6. DueBelow(c)' = Hits(c)
  BY <1>2, <1>4, LinearIsNoFilter DEF DueBelow, Linear, Node
<1>7. Hits(c) \subseteq 1..MaxBranches
  BY BranchesBounded DEF Hits
<1>8. DueBelow(c)' \subseteq 1..MaxBranches
  BY <1>6, <1>7
<1> QED BY <1>2, <1>3, <1>5, <1>8, SucceedsAlone

LEMMA BranchMaps ==
  ASSUME AllInv, AllInv', NEW c \in DOMAIN args, StepOf(c), NEW i \in exec[c].hits, StartBranch(c, i)
  PROVE  Run!Next
PROOF
<1> DEFINE e == Append(c, i)
<1>1. DOMAIN exec = DOMAIN args /\ exec[c].pc = "called" /\ Filter(c) /\ e \notin DOMAIN args /\ e # c
  BY DEF StartBranch, Started, AllInv, IInv, ExecInv
<1>2. exec'[c] = exec[c] /\ DOMAIN args' = DOMAIN args \cup {e} /\ ~ Linear(c)' /\ ~ Linear(c)
  BY <1>1, LinearIsNoFilter DEF StartBranch, WithCall, Calls, StepOf, Kept, Linear, Node
<1>3. Progress(c)' = Progressed[c] /\ DueBelow(c)' = Due[c] /\ Due[c] = exec[c].hits
  BY <1>2 DEF Progress, DueBelow, Progressed, Due
<1> HIDE DEF e
<1>4. /\ DOMAIN Progressed = DOMAIN args /\ DOMAIN Due = DOMAIN args
      /\ Progressed' = [d \in DOMAIN args \cup {e} |->
                          IF d \in DOMAIN args THEN Progressed[d] ELSE "busy"]
      /\ Due' = [d \in DOMAIN args \cup {e} |-> IF d \in DOMAIN args THEN Due[d] ELSE {}]
      /\ Outcome' = Outcome
  BY <1>2, <1>3, RunFrame DEF AllInv
<1>5. /\ Progressed' = Run!Extended(Progressed, {e}, "busy")
      /\ Due' = Run!Extended(Due, {e}, {})
  BY <1>1, <1>4 DEF Run!Extended
<1>6. Run!Start(c, i)
  BY <1>1, <1>3, <1>4, <1>5 DEF Run!Start, Run!Begun, e
<1> QED BY <1>3, <1>4, <1>6 DEF Run!Next

(* A step that moves no call out of the abstract state it is in.           *)
LEMMA Stutters ==
  ASSUME AllInv, AllInv', NEW c \in DOMAIN args, StepOf(c), args' = args,
         Progress(c)' = Progress(c), DueBelow(c)' = DueBelow(c)
  PROVE  UNCHANGED Run!vars
PROOF
<1>1. /\ Progressed' = [d \in DOMAIN args |-> Progressed[d]]
      /\ Due' = [d \in DOMAIN args |-> Due[d]]
      /\ Outcome' = Outcome
  BY RunFrame DEF AllInv, Progressed, Due
<1> QED BY <1>1 DEF Run!vars, Progressed, Due

LEMMA ExecuteMaps ==
  ASSUME AllInv, AllInv', Execute PROVE Run!Next
PROOF
<1>1. DOMAIN args = {} /\ result.status = "none" /\ Outcome = "none"
  BY DEF Execute, AllInv, StartInv, Outcome
<1>2. CASE Defined(wf, wf.start)
  <2>1. DOMAIN args' = {Root} /\ exec'[Root] = Entered /\ Outcome' = "pending"
    BY <1>1, <1>2 DEF Execute, Outcome, AllInv, StartInv
  <2>2. Entered.pc = "ready" /\ Entered.hits = {}
    BY DEF Entered
  <2>3. Append(Root, 1) \notin DOMAIN args'
    BY <2>1, <2>2 DEF AllInv, IInv, ExecInv, Started
  <2>4. /\ Progressed' = [d \in {Root} |-> "busy"]
        /\ Due' = [d \in {Root} |-> {}]
    BY <2>1, <2>2, <2>3 DEF Progressed, Due, Progress, DueBelow, Started
  <2>5. Run!Begin
    BY <1>1, <2>1, <2>4 DEF Run!Begin, Root
  <2> QED BY <2>5 DEF Run!Next
<1>3. CASE ~ Defined(wf, wf.start)
  <2>1. Outcome' = "error" /\ args' = args /\ exec' = exec
    BY <1>1, <1>3 DEF Execute, Outcome, AllInv, StartInv
  <2>2. Progressed' = Progressed /\ Due' = Due
    BY <1>1, <2>1 DEF Progressed, Due
  <2>3. Run!Refuse
    BY <1>1, <2>1, <2>2 DEF Run!Refuse
  <2> QED BY <2>3 DEF Run!Next
<1> QED BY <1>2, <1>3

(* Execute returns only when everything due has been settled, and reports  *)
(* a failure exactly when some call failed.                                *)
LEMMA FinishMaps ==
  ASSUME AllInv, AllInv', Finish PROVE Run!Next
PROOF
<1>1. /\ result.status = "running" /\ Root \in DOMAIN args /\ exec[Root].pc = "done"
      /\ args' = args /\ exec' = exec /\ wf' = wf
  BY DEF Finish, AllInv, StartInv
<1>2. /\ \A c \in DOMAIN args : exec[c].pc = "done"
      /\ HasFailed(Root) <=> \E c \in DOMAIN args : ~ Ok(c)
  BY <1>1, AllThrough
<1>3. DOMAIN Progressed = DOMAIN args /\ DOMAIN Due = DOMAIN args
  BY DEF Progressed, Due
<1>4. \A c \in DOMAIN args : Progressed[c] = IF Ok(c) THEN "ok" ELSE "failed"
  BY <1>2 DEF Progressed, Progress, Ok
<1>5. ASSUME NEW c \in DOMAIN args, NEW i \in Due[c] PROVE Append(c, i) \in DOMAIN args
  <2>1. exec[c].hits \subseteq exec[c].joined
    BY <1>2 DEF AllInv, RunInv, CallOK, Through
  <2>2. \A j \in exec[c].joined : Append(c, j) \in DOMAIN args
    BY DEF AllInv, RunInv, CallOK, Joined, PassedUp, Started
  <2> QED BY <1>5, <2>1, <2>2 DEF Due, DueBelow, Started
<1>6. Run!Settled
  BY <1>3, <1>4, <1>5 DEF Run!Settled, Run!Begun
<1>7. Outcome = "pending" /\ Outcome' = IF HasFailed(Root) THEN "failed" ELSE "completed"
  BY <1>1 DEF Finish, Outcome, OverallStatus, HasFailed
<1>8. Outcome' = IF \A c \in DOMAIN Progressed : Progressed[c] = "ok" THEN "completed" ELSE "failed"
  BY <1>2, <1>3, <1>4, <1>7
<1>9. Progressed' = Progressed /\ Due' = Due
  BY <1>1 DEF Progressed, Due, Progress, DueBelow, Linear, Node, Started
<1>10. Run!Report
  BY <1>6, <1>7, <1>8, <1>9 DEF Run!Report
<1> QED BY <1>10 DEF Run!Next

LEMMA NextMaps ==
  ASSUME AllInv, AllInv', [Next]_vars PROVE Run!Next \/ UNCHANGED Run!vars
PROOF
<1>1. ASSUME NEW c \in DOMAIN args, InvalidType(c) \/ LinearStep(c) \/ FilterStep(c) PROVE StepOf(c)
  BY <1>1, CallStepsOK
<1>2. exec \in [DOMAIN args -> ExecShape]
  BY DEF AllInv, IInv, ExecInv
(* A call that waits, or is on its way back, is where it was.              *)
<1>3. ASSUME NEW c \in DOMAIN args, StepOf(c), args' = args,
             exec'[c].hits = exec[c].hits, exec'[c].status = exec[c].status,
             exec'[c].error = exec[c].error,
             exec'[c].pc \in {"ready", "await"} <=> exec[c].pc \in {"ready", "await"}
      PROVE  UNCHANGED Run!vars
  <2>1. Progress(c)' = Progress(c) /\ DueBelow(c)' = DueBelow(c)
    BY <1>3 DEF Progress, DueBelow, Linear, Node, Started
  <2> QED BY <1>3, <2>1, Stutters
<1>4. ASSUME NEW c \in DOMAIN args, InvalidType(c) PROVE Run!Next
  BY <1>1, <1>4, FailsMaps DEF InvalidType
<1>5. ASSUME NEW c \in DOMAIN args, LinearStep(c) PROVE Run!Next \/ UNCHANGED Run!vars
  <2>0. StepOf(c)
    BY <1>1, <1>5
  <2>1. CASE NoWorkerFound(c)
    BY <2>0, <2>1, FailsMaps DEF NoWorkerFound
  <2>2. CASE Dispatch(c)
    <3>1. /\ args' = args /\ exec'[c].hits = exec[c].hits /\ exec'[c].status = exec[c].status
          /\ exec'[c].error = exec[c].error /\ exec[c].pc = "ready" /\ exec'[c].pc = "await"
      BY <1>2, <2>2 DEF Dispatch, ExecShape
    <3> QED BY <1>3, <2>0, <3>1
  <2>3. CASE DispatchError(c)
    BY <2>0, <2>3, FailsMaps DEF DispatchError
  <2>4. CASE WorkerFailure(c)
    BY <2>0, <2>4, FailsMaps DEF WorkerFailure, Responded
  <2>5. CASE RejectOverwrite(c)
    BY <2>0, <2>5, FailsMaps DEF RejectOverwrite, Responded
  <2>6. CASE CompleteTerminal(c)
    BY <2>0, <2>6, ReturnsMaps DEF CompleteTerminal, Responded
  <2>7. CASE CompleteDangling(c)
    BY <2>0, <2>7, FailsMaps DEF CompleteDangling, Responded
  <2>8. CASE CompleteAndContinue(c)
    BY <2>0, <2>8, ContinueMaps
  <2>9. CASE LinearReturn(c)
    <3>1. /\ args' = args /\ exec'[c].hits = exec[c].hits /\ exec'[c].status = exec[c].status
          /\ exec'[c].error = exec[c].error /\ exec[c].pc = "called" /\ exec'[c].pc = "done"
      BY <1>2, <2>9 DEF LinearReturn, ExecShape
    <3> QED BY <1>3, <2>0, <3>1
  <2> QED BY <1>5, <2>1, <2>2, <2>3, <2>4, <2>5, <2>6, <2>7, <2>8, <2>9 DEF LinearStep
<1>6. ASSUME NEW c \in DOMAIN args, FilterStep(c) PROVE Run!Next \/ UNCHANGED Run!vars
  <2>0. StepOf(c)
    BY <1>1, <1>6
  <2>1. CASE FilterFails(c)
    BY <2>0, <2>1, FailsMaps DEF FilterFails
  <2>2. CASE FilterNoHit(c)
    BY <2>0, <2>2, ReturnsMaps DEF FilterNoHit
  <2>3. CASE FilterSplit(c)
    BY <2>0, <2>3, SplitMaps
  <2>4. CASE FilterReturn(c)
    <3>1. /\ args' = args /\ exec'[c].hits = exec[c].hits /\ exec'[c].status = exec[c].status
          /\ exec'[c].error = exec[c].error /\ exec[c].pc = "called" /\ exec'[c].pc = "done"
      BY <1>2, <2>4 DEF FilterReturn, ExecShape
    <3> QED BY <1>3, <2>0, <3>1
  <2>5. ASSUME NEW i \in exec[c].hits, StartBranch(c, i) PROVE Run!Next
    BY <2>0, <2>5, BranchMaps
  <2>6. ASSUME NEW i \in exec[c].hits, JoinBranch(c, i) PROVE UNCHANGED Run!vars
    <3>1. /\ args' = args /\ exec'[c].hits = exec[c].hits /\ exec'[c].status = exec[c].status
          /\ exec'[c].error = exec[c].error /\ exec[c].pc = "called" /\ exec'[c].pc = "called"
      BY <1>2, <2>6 DEF JoinBranch, ExecShape
    <3> QED BY <1>3, <2>0, <3>1
  <2> QED BY <1>6, <2>1, <2>2, <2>3, <2>4, <2>5, <2>6 DEF FilterStep
<1>7. CASE args' = args /\ exec' = exec /\ result' = result
  BY <1>7 DEF Run!vars, Progressed, Due, Outcome, Progress, DueBelow, Linear, Node, Started
<1> QED BY <1>4, <1>5, <1>6, <1>7, ExecuteMaps, FinishMaps
        DEF Next, EngineStep, WorkerAnswers, vars

LEMMA InitMaps == Init => Run!Init
PROOF
<1> SUFFICES ASSUME Init PROVE Run!Init
  OBVIOUS
<1>1. DOMAIN args = {} /\ result.status = "none"
  BY DEF Init
<1>2. Progressed = <<>> /\ Due = <<>>
  BY <1>1 DEF Progressed, Due
<1>3. Outcome = "none"
  BY <1>1 DEF Outcome
<1> QED BY <1>2, <1>3 DEF Run!Init

(* Whatever the definition, the workers and the schedule, an execution is  *)
(* a WorkflowRun: every step of the engine is a step of it, or none.       *)
THEOREM ImplementsRun == Spec => ImplementsWorkflowRun
PROOF
<1>1. AllInv /\ AllInv' /\ [Next]_vars => [Run!Next]_(Run!vars)
  BY NextMaps
<1> QED BY AllHolds, InitMaps, <1>1, PTL DEF Spec, ImplementsWorkflowRun, Run!Spec

-----------------------------------------------------------------------------
(* What Execute returned is what the root call returned, and no worker's   *)
(* reply passes for none.                                                  *)
VerdictInv ==
  /\ Final => /\ exec[Root].pc = "done" /\ result.traces = exec[Root].traces
              /\ result.status = IF HasFailed(Root) THEN "failed" ELSE "completed"
  /\ \A c \in DOMAIN wire : wire[c].reply # NoReply => wire[c].reply.status # "none"

LEMMA NextVerdict == AllInv /\ VerdictInv /\ [Next]_vars => VerdictInv'
PROOF
<1> SUFFICES ASSUME AllInv, VerdictInv, [Next]_vars PROVE VerdictInv'
  OBVIOUS
<1> DEFINE ReportsRoot == Final => /\ exec[Root].pc = "done" /\ result.traces = exec[Root].traces
                                /\ result.status = IF HasFailed(Root) THEN "failed" ELSE "completed"
           Replied == \A c \in DOMAIN wire : wire[c].reply # NoReply => wire[c].reply.status # "none"
<1>1. Replied'
  <2>1. ASSUME NEW c \in DOMAIN args, Dispatch(c) PROVE Replied'
    BY <2>1 DEF Dispatch, VerdictInv
  <2>2. ASSUME NEW c \in DOMAIN wire, WorkerAnswers(c) PROVE Replied'
    <3>1. Node(c).id \in NodeIDs(wf) /\ wf \in Workflows
      BY DEF AllInv, WireInv, IInv, TreeInv, Defined
    <3>2. \A r \in Replies(Node(c).id) : r.status # "none"
      BY <3>1, ReplyAssumption
    <3>3. PICK r \in Replies(Node(c).id) : wire' = [wire EXCEPT ![c].reply = r]
      BY <2>2 DEF WorkerAnswers
    <3> QED BY <3>2, <3>3 DEF VerdictInv
  <2>3. CASE wire' = wire
    BY <2>3 DEF VerdictInv
  <2>4. ASSUME NEW c \in DOMAIN args, InvalidType(c) \/ LinearStep(c) \/ FilterStep(c)
        PROVE  wire' = wire \/ Dispatch(c)
    BY <2>4
       DEF InvalidType, LinearStep, FilterStep, NoWorkerFound, DispatchError, WorkerFailure,
           RejectOverwrite, CompleteTerminal, CompleteDangling, CompleteAndContinue, LinearReturn,
           FilterFails, FilterNoHit, FilterSplit, FilterReturn, StartBranch, JoinBranch
  <2> HIDE DEF Replied
  <2> QED BY <2>1, <2>2, <2>3, <2>4 DEF Next, EngineStep, Execute, Finish, vars
<1>2. ReportsRoot'
  <2>1. CASE Execute
    <3>1. result'.status \in {"running", "error"}
      BY <2>1 DEF Execute, AllInv, StartInv
    <3> QED BY <3>1 DEF Final
  <2>2. ASSUME NEW c \in DOMAIN args, InvalidType(c) \/ LinearStep(c) \/ FilterStep(c)
        PROVE  ReportsRoot'
    <3> SUFFICES ASSUME Final' PROVE /\ exec'[Root].pc = "done" /\ result'.traces = exec'[Root].traces
                   /\ result'.status = IF HasFailed(Root)' THEN "failed" ELSE "completed"
      OBVIOUS
    <3>1. OnlyCall(c) /\ result' = result /\ Final
      BY <2>2, CallStepsAreLocal DEF AllInv, OnlyCall, Final
    <3>2. Root \in DOMAIN exec /\ exec[Root].pc = "done"
      BY <3>1 DEF AllInv, StartInv, IInv, ExecInv, VerdictInv, Final
    <3>3. exec'[Root] = exec[Root]
      BY <3>1, <3>2 DEF OnlyCall
    <3> QED BY <3>1, <3>3 DEF VerdictInv, HasFailed
  <2>3. CASE Finish
    <3>1. /\ result'.traces = exec[Root].traces /\ exec' = exec /\ exec[Root].pc = "done"
          /\ result'.status = OverallStatus(exec[Root].traces)
      BY <2>3 DEF Finish
    <3> QED BY <3>1 DEF OverallStatus, HasFailed
  <2>4. CASE exec' = exec /\ result' = result
    BY <2>4 DEF VerdictInv, Final, HasFailed
  <2> QED BY <2>1, <2>2, <2>3, <2>4 DEF Next, EngineStep, WorkerAnswers, vars
<1> QED BY <1>1, <1>2 DEF VerdictInv

(* The verdict can be trusted, and a failed trace ends with the call that  *)
(* failed: whatever fails, whoever answers late, in any order of joins.    *)
THEOREM VerdictIsSound == Spec => []SoundVerdict
PROOF
<1>1. AllInv /\ VerdictInv => SoundVerdict
  <2> SUFFICES ASSUME AllInv, VerdictInv, Final PROVE
          /\ result.status = "completed" <=> \A c \in DOMAIN args : CallSucceeded(c)
          /\ \A k \in 1..Len(result.traces) : LET t == result.traces[k] IN
               /\ \A j \in 1..(Len(t.nodes) - 1) : CallSucceeded(t.nodes[j])
               /\ t.status = "completed" <=> CallSucceeded(t.nodes[Len(t.nodes)])
    BY DEF SoundVerdict
  <2>1. /\ Root \in DOMAIN args /\ exec[Root].pc = "done" /\ result.traces = exec[Root].traces
        /\ result.status = IF HasFailed(Root) THEN "failed" ELSE "completed"
    BY DEF VerdictInv, AllInv, StartInv, Final
  <2>2. /\ \A c \in DOMAIN args : exec[c].pc = "done"
        /\ HasFailed(Root) <=> \E c \in DOMAIN args : ~ Ok(c)
    BY <2>1, AllThrough
  <2>3. ASSUME NEW c \in DOMAIN args PROVE CallSucceeded(c) <=> Ok(c)
    <3>1. ASSUME Linear(c), Ok(c) PROVE Posted(c) /\ wire[c].reply.status \notin {"none", "failure"}
      <4>1. Answered(c) /\ wire[c].reply.status # "failure"
        BY <3>1 DEF AllInv, CompletedInv, Ok
      <4> QED BY <4>1 DEF Answered, Posted, VerdictInv
    <3> QED BY <3>1 DEF CallSucceeded, Ok
  <2>4. ASSUME NEW k \in 1..Len(result.traces)
        PROVE  LET t == result.traces[k] IN
                 /\ \A j \in 1..(Len(t.nodes) - 1) : CallSucceeded(t.nodes[j])
                 /\ t.status = "completed" <=> CallSucceeded(t.nodes[Len(t.nodes)])
    <3> DEFINE t == result.traces[k]
               n == Len(t.nodes)
    <3>1. TraceThrough(t, DecidedCalls, OkCalls)
      BY <2>1 DEF AllInv, RunInv, CallOK, Traced
    <3>2. t \in TraceShape
      BY DEF AllInv, StartInv
    <3>3. n \in Nat
      BY <3>2, LenProperties DEF TraceShape
    <3> HIDE DEF t
    <3>4. /\ n >= 1 /\ \A j \in 1..n : t.nodes[j] \in DOMAIN args
          /\ \A j \in 1..(n - 1) : t.nodes[j] \in OkCalls
          /\ t.status = IF t.nodes[n] \in OkCalls THEN "completed" ELSE "failed"
      BY <3>1 DEF TraceThrough, DecidedCalls
    <3>5. \A j \in 1..(n - 1) : CallSucceeded(t.nodes[j])
      <4> TAKE j \in 1..(n - 1)
      <4>1. t.nodes[j] \in DOMAIN args /\ Ok(t.nodes[j])
        BY <3>4 DEF OkCalls
      <4> QED BY <2>3, <4>1
    <3>6. t.status = "completed" <=> CallSucceeded(t.nodes[n])
      <4>1. t.nodes[n] \in DOMAIN args
        BY <3>3, <3>4
      <4>2. CallSucceeded(t.nodes[n]) <=> t.nodes[n] \in OkCalls
        BY <2>3, <4>1 DEF OkCalls
      <4> QED BY <3>4, <4>2
    <3> QED BY <3>5, <3>6 DEF t
  <2> QED BY <2>1, <2>2, <2>3, <2>4
<1>2. Init => VerdictInv
  BY DEF Init, VerdictInv, Final
<1> QED BY AllHolds, NextVerdict, <1>1, <1>2, PTL DEF Spec

-----------------------------------------------------------------------------
(***************************************************************************)
(* The traces of a result: one of each call that ended a branch.           *)
(*                                                                         *)
(* A call that has returned holds one trace of each leaf below it, and one *)
(* that still joins holds one of each leaf below the children it joined    *)
(* (LeafInv).  A trace is told by its last call: its others are the calls  *)
(* on the way there.                                                       *)
(***************************************************************************)

(* Traces that run from c to the calls of D, one to each.                  *)
EndOf(t) == t.nodes[Len(t.nodes)]
OnePer(ts, c, D) ==
  /\ \A k \in 1..Len(ts) : EndOf(ts[k]) \in D /\ ts[k].nodes = PathFrom(c, EndOf(ts[k]))
  /\ \A d \in D : \E k \in 1..Len(ts) : EndOf(ts[k]) = d
  /\ \A k, l \in 1..Len(ts) : EndOf(ts[k]) = EndOf(ts[l]) => k = l

(* A leaf has the one trace of itself.                                     *)
LEMMA OneOfItself ==
  ASSUME NEW c \in Seq(Nat), NEW s
  PROVE  OnePer(<<Trace(<<c>>, s)>>, c, {c})
PROOF
<1>1. PathFrom(c, c) = <<c>>
  BY PathOfItself
<1> DEFINE ts == <<Trace(<<c>>, s)>>
<1>2. Len(ts) = 1 /\ ts[1] = Trace(<<c>>, s)
  OBVIOUS
<1>3. EndOf(ts[1]) = c /\ ts[1].nodes = <<c>>
  <2>1. ts[1].nodes = <<c>> /\ Len(<<c>>) = 1 /\ <<c>>[1] = c
    BY <1>2, TraceIs
  <2> HIDE DEF ts
  <2> QED BY <2>1 DEF EndOf
<1> HIDE DEF ts
<1>4. \A k \in 1..Len(ts) : k = 1
  BY <1>2
<1>5. 1 \in 1..Len(ts)
  BY <1>2
<1> QED BY <1>1, <1>3, <1>4, <1>5 DEF OnePer, ts

(* With the calling call in front they run from that one.                  *)
LEMMA OneEachPrepended ==
  ASSUME NEW c \in Seq(Nat), NEW i \in Nat, NEW ts \in Seq(TraceShape),
         NEW D, D \subseteq Seq(Nat), \A d \in D : Under(d, Append(c, i)),
         OnePer(ts, Append(c, i), D)
  PROVE  OnePer(Prepended(c, ts), c, D)
PROOF
<1> DEFINE e == Append(c, i)
           ps == Prepended(c, ts)
<1>1. /\ Len(ps) = Len(ts)
      /\ \A k \in 1..Len(ts) : ps[k] = Trace(<<c>> \o ts[k].nodes, ts[k].status)
  <2>1. Len(ts) \in Nat
    BY LenProperties
  <2> QED BY <2>1 DEF Prepended
<1>2. ASSUME NEW k \in 1..Len(ts)
      PROVE  /\ EndOf(ps[k]) = EndOf(ts[k])
             /\ ps[k].nodes = PathFrom(c, EndOf(ts[k]))
  <2> DEFINE ns == ts[k].nodes
             d  == EndOf(ts[k])
             n  == Len(ns)
             ms == <<c>> \o ns
  <2>1. d \in D /\ ns = PathFrom(e, d)
    BY <1>2 DEF OnePer
  <2>2. ns \in Seq(Seq(Nat)) /\ n \in Nat /\ <<c>> \in Seq(Seq(Nat)) /\ Len(<<c>>) = 1
    <3>1. ts[k] \in TraceShape
      OBVIOUS
    <3> QED BY <3>1, LenProperties DEF TraceShape
  <2>3. ms = PathFrom(c, d) /\ n >= 1
    BY <2>1, <2>2, PathFromCaller
  <2>4. Len(ms) = n + 1 /\ \A j \in 2..(n + 1) : ms[j] = ns[j - 1]
    BY <2>2, ConcatProperties
  <2>5. ps[k].nodes = ms
    <3>1. ps[k] = Trace(ms, ts[k].status)
      BY <1>1
    <3> HIDE DEF ps, ms
    <3> QED BY <3>1, TraceIs
  <2> HIDE DEF d, ns, n, ms
  <2>6. EndOf(ps[k]) = d
    <3>1. n + 1 \in 2..(n + 1) /\ (n + 1) - 1 = n
      BY <2>2, <2>3
    <3>2. ms[n + 1] = ns[n]
      BY <2>4, <3>1
    <3> QED BY <2>4, <2>5, <3>2 DEF EndOf, d, ns, n
  <2> QED BY <2>3, <2>5, <2>6 DEF d
<1> HIDE DEF ps
<1> QED BY <1>1, <1>2 DEF OnePer, ps

(* Traces to these calls and to those.                                     *)
LEMMA OneEachOfBoth ==
  ASSUME NEW c, NEW ts \in Seq(TraceShape), NEW us \in Seq(TraceShape), NEW D, NEW E,
         OnePer(ts, c, D), OnePer(us, c, E), \A d \in D : d \notin E
  PROVE  OnePer(ts \o us, c, D \cup E)
PROOF
<1> DEFINE n == Len(ts)
           m == Len(us)
           ss == ts \o us
<1>1. /\ n \in Nat /\ m \in Nat /\ Len(ss) = n + m
      /\ \A k \in 1..(n + m) : ss[k] = IF k <= n THEN ts[k] ELSE us[k - n]
  BY ConcatProperties, LenProperties
<1> HIDE DEF n, m, ss
<1>2. \A k \in 1..(n + m) : \/ k \in 1..n /\ ss[k] = ts[k]
                            \/ k \notin 1..n /\ k - n \in 1..m /\ ss[k] = us[k - n]
  BY <1>1
<1>3. /\ \A k \in 1..n : k \in 1..(n + m) /\ ss[k] = ts[k]
      /\ \A k \in 1..m : n + k \in 1..(n + m) /\ ss[n + k] = us[k]
  <2>1. \A k \in 1..n : k \in 1..(n + m) /\ k <= n
    BY <1>1
  <2>2. \A k \in 1..m : n + k \in 1..(n + m) /\ ~ (n + k <= n) /\ (n + k) - n = k
    BY <1>1
  <2> QED BY <1>1, <2>1, <2>2
<1>4. /\ \A k \in 1..n : EndOf(ts[k]) \in D /\ ts[k].nodes = PathFrom(c, EndOf(ts[k]))
      /\ \A k \in 1..m : EndOf(us[k]) \in E /\ us[k].nodes = PathFrom(c, EndOf(us[k]))
  BY DEF OnePer, n, m
<1>5. ASSUME NEW k \in 1..(n + m)
      PROVE  EndOf(ss[k]) \in D \cup E /\ ss[k].nodes = PathFrom(c, EndOf(ss[k]))
  BY <1>2, <1>4
<1>6. ASSUME NEW d \in D \cup E PROVE \E k \in 1..(n + m) : EndOf(ss[k]) = d
  <2>1. CASE d \in D
    <3>1. PICK k \in 1..n : EndOf(ts[k]) = d
      BY <2>1 DEF OnePer, n
    <3> QED BY <1>3, <3>1
  <2>2. CASE d \in E
    <3>1. PICK k \in 1..m : EndOf(us[k]) = d
      BY <2>2 DEF OnePer, m
    <3> QED BY <1>3, <3>1
  <2> QED BY <2>1, <2>2
<1>7. ASSUME NEW k \in 1..(n + m), NEW l \in 1..(n + m), EndOf(ss[k]) = EndOf(ss[l])
      PROVE  k = l
  <2>1. CASE k \in 1..n /\ l \in 1..n
    <3>1. EndOf(ts[k]) = EndOf(ts[l])
      BY <1>3, <1>7, <2>1
    <3> QED BY <2>1, <3>1 DEF OnePer, n
  <2>2. CASE k \notin 1..n /\ l \notin 1..n
    <3>1. /\ k - n \in 1..m /\ l - n \in 1..m
          /\ EndOf(us[k - n]) = EndOf(us[l - n])
      BY <1>2, <1>7, <2>2
    <3>2. k - n = l - n
      BY <3>1 DEF OnePer, m
    <3> QED BY <1>1, <3>2
  <2>3. CASE k \in 1..n /\ l \notin 1..n
    <3>1. EndOf(ss[k]) \in D /\ EndOf(ss[l]) \in E
      BY <1>2, <1>4, <2>3
    <3> QED BY <1>7, <3>1
  <2>4. CASE k \notin 1..n /\ l \in 1..n
    <3>1. EndOf(ss[k]) \in E /\ EndOf(ss[l]) \in D
      BY <1>2, <1>4, <2>4
    <3> QED BY <1>7, <3>1
  <2> QED BY <2>1, <2>2, <2>3, <2>4
<1> QED BY <1>1, <1>5, <1>6, <1>7 DEF OnePer, ss

-----------------------------------------------------------------------------
(* The calls under which every leaf has its trace in what c has gathered:  *)
(* c once it has returned, until then the branches it has joined.          *)
Reported(c) ==
  IF exec[c].pc = "done" THEN {c} ELSE {Append(c, i) : i \in exec[c].joined}
Covered(c) == {d \in Leaves : \E a \in Reported(c) : Under(d, a)}

LeafOK(c) ==
  /\ OnePer(exec[c].traces, c, Covered(c))
  /\ exec[c].pc = "called" /\ Filter(c) => exec[c].hits # {}
LeafInv == \A c \in DOMAIN args : LeafOK(c)

(* Whatever hangs below a call hangs below a call that it made.            *)
LEMMA CallsOnTheWay ==
  ASSUME AllInv, NEW a \in DOMAIN args, NEW d \in DOMAIN args, Under(d, a), d # a
  PROVE  \E i \in Nat : Append(a, i) \in DOMAIN args /\ Under(d, Append(a, i))
PROOF
<1>1. a \in Seq(Nat) /\ d \in Seq(Nat)
  BY DEF AllInv, IInv, TreeInv
<1> DEFINE n == Len(a) + 1
           e == Append(a, d[n])
<1>2. /\ Len(a) \in Nat /\ Len(d) \in Nat /\ n <= Len(d) /\ d[n] \in Nat
      /\ Prefix(d, n) = e /\ Under(d, e)
  BY <1>1, UnderSuccessor
<1>3. e \in DOMAIN args
  <2>1. CASE n = Len(d)
    BY <1>1, <1>2, <2>1, SubSeqFull DEF Prefix
  <2>2. CASE n # Len(d)
    <3>1. n \in 0..(Len(d) - 1)
      BY <1>2, <2>2
    <3> QED BY <1>2, <3>1 DEF AllInv, PayInv, HeapInv
  <2> QED BY <2>1, <2>2
<1> QED BY <1>2, <1>3

(* A call returns after everything below it.                               *)
LEMMA DoneBelow ==
  ASSUME AllInv, NEW a \in DOMAIN args, exec[a].pc = "done",
         NEW d \in DOMAIN args, Under(d, a)
  PROVE  exec[d].pc = "done"
PROOF
<1> DEFINE S == {x \in DOMAIN args : Under(x, a) /\ exec[x].pc # "done"}
<1> SUFFICES ASSUME S # {} PROVE FALSE
  OBVIOUS
<1>0. \A x \in DOMAIN args : x \in Seq(Nat)
  BY DEF AllInv, IInv, TreeInv
<1>1. PICK e \in S : \/ e = Root
                    \/ \E b \in DOMAIN args, i \in Nat : b \notin S /\ e = Append(b, i)
  BY OutermostCall DEF AllInv
<1>2. e \in DOMAIN args /\ Under(e, a) /\ e # a
  OBVIOUS
<1>3. e # Root
  <2>1. Len(a) \in Nat /\ Len(a) + 1 <= Len(e)
    BY <1>0, <1>2, UnderSuccessor
  <2> QED BY <2>1 DEF Root
<1>4. PICK b \in DOMAIN args, i \in Nat : b \notin S /\ e = Append(b, i)
  BY <1>1, <1>3
<1>5. Under(b, a)
  BY <1>0, <1>2, <1>4, CallerUnder
<1>6. exec[b].pc = "done"
  BY <1>4, <1>5
<1> QED BY <1>2, <1>4, <1>6, DonePassesUp DEF PassedUp

(* No step adds or removes a leaf below a call that has returned.          *)
LEMMA LeavesBelowStay ==
  ASSUME AllInv, IInv', NEW c \in DOMAIN args, StepOf(c),
         NEW a \in DOMAIN args, exec[a].pc = "done"
  PROVE  \A d : Under(d, a) => (d \in Leaves' <=> d \in Leaves)
PROOF
<1>0. /\ \A x \in DOMAIN args' : x \in Seq(Nat)
      /\ DOMAIN args \subseteq DOMAIN args' /\ exec[c].pc # "done" /\ IInv
  BY DEF IInv, TreeInv, StepOf, OnlyCall, AllInv
<1>1. ASSUME NEW x \in DOMAIN args', NEW i \in Nat, x = Append(c, i), Under(x, a) PROVE x = a
  BY <1>0, <1>1, CallerUnder, DoneBelow
<1>2. \A x \in DOMAIN args' : x \notin DOMAIN args => \E i \in Nat : x = Append(c, i)
  BY DEF StepOf
<1>3. \A x \in DOMAIN args : (x \in Leaves <=> \A i \in Nat : Append(x, i) \notin DOMAIN args)
  BY <1>0, LeafHasNoSuccessor DEF Leaves
<1>4. \A x \in DOMAIN args' : (x \in Leaves' <=> \A i \in Nat : Append(x, i) \notin DOMAIN args')
  <2>1. DOMAIN args' \subseteq Seq(Nat)
    BY <1>0
  <2> QED BY <2>1, LeafHasNoSuccessor DEF Leaves, Prefix
<1>5. Leaves \subseteq DOMAIN args /\ Leaves' \subseteq DOMAIN args'
  BY DEF Leaves
<1> TAKE d
<1> HAVE Under(d, a)
<1>6. ASSUME d \in Leaves' PROVE d \in Leaves
  <2>1. d \in DOMAIN args
    BY <1>1, <1>2, <1>5, <1>6
  <2> QED BY <1>0, <1>3, <1>4, <1>5, <1>6, <2>1
<1>7. ASSUME d \in Leaves PROVE d \in Leaves'
  <2>1. d \in DOMAIN args /\ d \in DOMAIN args'
    BY <1>0, <1>5, <1>7
  <2>2. exec[d].pc = "done"
    BY <2>1, DoneBelow
  <2>3. ASSUME NEW i \in Nat, Append(d, i) \in DOMAIN args' PROVE FALSE
    <3>1. Append(d, i) \notin DOMAIN args
      BY <1>3, <1>7, <2>1
    <3>2. PICK j \in Nat : Append(d, i) = Append(c, j)
      BY <1>2, <2>3, <3>1
    <3>3. d = c
      BY <1>0, <2>1, <3>2, AddressInjective
    <3> QED BY <1>0, <2>2, <3>3
  <2> QED BY <1>4, <2>1, <2>3
<1> QED BY <1>6, <1>7

(* What a call has reported has returned, and its leaves stay.             *)
LEMMA CoveredStays ==
  ASSUME AllInv, IInv', NEW c \in DOMAIN args, StepOf(c), NEW d \in DOMAIN args,
         Reported(d)' = Reported(d)
  PROVE  Covered(d)' = Covered(d)
PROOF
<1>1. \A a \in Reported(d) : a \in DOMAIN args /\ exec[a].pc = "done"
  BY DEF Reported, AllInv, RunInv, CallOK, Joined, PassedUp, Started
<1>2. \A a \in Reported(d) : \A x : Under(x, a) => (x \in Leaves' <=> x \in Leaves)
  BY <1>1, LeavesBelowStay
<1>3. Covered(d) = {x \in Leaves : \E a \in Reported(d) : Under(x, a)}
  BY DEF Covered
<1>4. Covered(d)' = {x \in Leaves' : \E a \in Reported(d) : Under(x, a)}
  BY DEF Covered, Under, Prefix
<1> QED BY <1>2, <1>3, <1>4

-----------------------------------------------------------------------------
(* No traces, of no calls.                                                 *)
LEMMA NoneYet == \A c : OnePer(<<>>, c, {})
BY DEF OnePer

(* A step of c leaves to every other call what it has gathered.            *)
LEMMA OthersKeepLeaves ==
  ASSUME AllInv, IInv', LeafInv, NEW c \in DOMAIN args, StepOf(c), LeafOK(c)'
  PROVE  LeafInv'
PROOF
<1> SUFFICES ASSUME NEW d \in DOMAIN args', d # c PROVE LeafOK(d)'
  BY DEF LeafInv
<1>1. CASE d \notin DOMAIN args
  <2>1. exec'[d] = Entered
    BY <1>1 DEF StepOf, CallAdvances
  <2>2. Entered.pc = "ready" /\ Entered.joined = {} /\ Entered.traces = <<>>
    BY DEF Entered
  <2>3. Covered(d)' = {}
    BY <2>1, <2>2 DEF Covered, Reported
  <2> QED BY <2>1, <2>2, <2>3, NoneYet DEF LeafOK
<1>2. CASE d \in DOMAIN args
  <2>1. exec'[d] = exec[d] /\ args'[d] = args[d]
    BY <1>2 DEF StepOf, OnlyCall, Kept, AllInv, IInv, ExecInv
  <2>2. Covered(d)' = Covered(d)
    <3>1. Reported(d)' = Reported(d)
      BY <2>1 DEF Reported
    <3> QED BY <1>2, <3>1, CoveredStays
  <2> QED BY <1>2, <2>1, <2>2 DEF LeafInv, LeafOK, Filter, Node
<1> QED BY <1>1, <1>2

(* A step in which c returns nothing and joins no branch.                  *)
LEMMA GathersNothing ==
  ASSUME AllInv, IInv', LeafInv, NEW c \in DOMAIN args, StepOf(c),
         exec[c].pc # "done", exec'[c].pc # "done",
         exec'[c].joined = exec[c].joined, exec'[c].traces = exec[c].traces,
         exec'[c].pc = "called" /\ Filter(c) => exec'[c].hits # {}
  PROVE  LeafOK(c)'
PROOF
<1>1. Reported(c)' = Reported(c)
  BY DEF Reported
<1>2. Covered(c)' = Covered(c)
  BY <1>1, CoveredStays
<1>3. Filter(c)' = Filter(c)
  BY DEF StepOf, Kept, Filter, Node
<1> QED BY <1>2, <1>3 DEF LeafInv, LeafOK

(* A call that returns with a trace of its own is a leaf, the only one     *)
(* below it.                                                               *)
LEMMA ReturnsOneTrace ==
  ASSUME AllInv, NEW c \in DOMAIN args, args' = args, exec[c].pc \in {"ready", "await"},
         NEW s, NEW e, NEW t, exec' = [exec EXCEPT ![c] = Returned(@, c, s, e, t)]
  PROVE  LeafOK(c)'
PROOF
<1>1. DOMAIN exec = DOMAIN args /\ exec[c] \in ExecShape /\ c \in Seq(Nat)
  BY DEF AllInv, IInv, ExecInv, TreeInv
<1>2. exec'[c].pc = "done" /\ exec'[c].traces = <<Trace(<<c>>, t)>>
  BY <1>1 DEF Returned, ExecShape
<1>3. \A i \in Nat : Append(c, i) \notin DOMAIN args
  BY DEF AllInv, IInv, ExecInv, Started
<1>4. Leaves' = Leaves /\ Leaves \subseteq DOMAIN args /\ c \in Leaves
  <2>1. DOMAIN args \subseteq Seq(Nat)
    BY DEF AllInv, IInv, TreeInv
  <2> QED BY <1>3, <2>1, LeafHasNoSuccessor DEF Leaves
<1>5. \A d \in DOMAIN args : Under(d, c) => d = c
  BY <1>3, CallsOnTheWay
<1>6. Under(c, c)
  BY <1>1, UnderItself
<1>7. Covered(c)' = {c}
  <2>1. Covered(c)' = {d \in Leaves : Under(d, c)}
    BY <1>2, <1>4 DEF Covered, Reported, Under, Prefix
  <2> QED BY <1>4, <1>5, <1>6, <2>1
<1>8. OnePer(<<Trace(<<c>>, t)>>, c, {c})
  BY <1>1, OneOfItself
<1> QED BY <1>2, <1>7, <1>8 DEF LeafOK

(* A call that fails returns the trace of itself alone.                    *)
LEMMA FailsOneTrace ==
  ASSUME AllInv, NEW c \in DOMAIN args, args' = args, exec[c].pc \in {"ready", "await"},
         NEW s, NEW e, Fails(c, s, e)
  PROVE  LeafOK(c)'
BY ReturnsOneTrace DEF Fails

(* A linear call has the leaves of the call it made.                       *)
LEMMA LinearReturnsLeaves ==
  ASSUME AllInv, LeafInv, NEW c \in DOMAIN args, LinearReturn(c)
  PROVE  LeafOK(c)'
PROOF
<1> DEFINE e == Append(c, 1)
<1>1. DOMAIN exec = DOMAIN args /\ exec[c] \in ExecShape /\ c \in Seq(Nat)
  BY DEF AllInv, IInv, ExecInv, TreeInv
<1>2. /\ exec[c].pc = "called" /\ Linear(c) /\ exec[e].pc = "done" /\ args' = args
      /\ exec'[c].pc = "done" /\ exec'[c].traces = Prepended(c, exec[e].traces)
  BY <1>1 DEF LinearReturn, ExecShape
<1>3. e \in DOMAIN args /\ ~ Filter(c)
  BY <1>2, LinearIsNoFilter DEF AllInv, IInv, ExecInv, Started
<1>4. exec[e].traces \in Seq(TraceShape)
  BY <1>3 DEF AllInv, IInv, ExecInv, ExecShape
<1>5. \A i \in Nat : Append(c, i) \in DOMAIN args => i = 1
  BY <1>3 DEF AllInv, RunInv, CallOK, Below, Started
<1>6. Leaves' = Leaves /\ Leaves \subseteq DOMAIN args /\ Leaves \subseteq Seq(Nat)
  BY <1>2 DEF Leaves, AllInv, IInv, TreeInv
<1>7. c \notin Leaves
  <2>1. DOMAIN args \subseteq Seq(Nat)
    BY DEF AllInv, IInv, TreeInv
  <2> QED BY <1>3, <2>1, LeafHasNoSuccessor DEF Leaves
<1>8. Covered(e) = {d \in Leaves : Under(d, e)}
  BY <1>2 DEF Covered, Reported
<1>9. Covered(c)' = {d \in Leaves : Under(d, c)}
  BY <1>2, <1>6 DEF Covered, Reported, Under, Prefix
<1>10. \A d \in Leaves : Under(d, e) <=> Under(d, c)
  <2>1. ASSUME NEW d \in Leaves, Under(d, c) PROVE Under(d, e)
    <3>1. d \in DOMAIN args /\ d # c
      BY <1>6, <1>7
    <3> QED BY <1>5, <2>1, <3>1, CallsOnTheWay
  <2>2. ASSUME NEW d \in Leaves, Under(d, e) PROVE Under(d, c)
    BY <1>1, <1>6, <2>2, UnderCaller
  <2> QED BY <2>1, <2>2
<1>11. Covered(c)' = Covered(e)
  BY <1>8, <1>9, <1>10
<1>12. OnePer(exec[e].traces, e, Covered(e))
  BY <1>3 DEF LeafInv, LeafOK
<1>13. OnePer(Prepended(c, exec[e].traces), c, Covered(e))
  <2>1. \A d \in Covered(e) : Under(d, Append(c, 1))
    BY <1>8
  <2>2. Covered(e) \subseteq Seq(Nat)
    BY <1>6, <1>8
  <2> QED BY <1>1, <1>4, <1>12, <2>1, <2>2, OneEachPrepended
<1> QED BY <1>2, <1>11, <1>13 DEF LeafOK

(* A branch adds its leaves to those of the branches joined before.        *)
LEMMA JoinAddsLeaves ==
  ASSUME AllInv, LeafInv, NEW c \in DOMAIN args, NEW i \in exec[c].hits, JoinBranch(c, i)
  PROVE  LeafOK(c)'
PROOF
<1> DEFINE e  == Append(c, i)
           ps == Prepended(c, exec[e].traces)
<1>1. /\ DOMAIN exec = DOMAIN args /\ exec[c] \in ExecShape /\ c \in Seq(Nat) /\ i \in Nat
      /\ exec[c].joined \subseteq Nat
  BY DEF AllInv, IInv, ExecInv, TreeInv, ExecShape
<1>2. /\ exec[c].pc = "called" /\ Filter(c) /\ i \notin exec[c].joined
      /\ e \in DOMAIN args /\ exec[e].pc = "done" /\ args' = args
  BY DEF JoinBranch, Started
<1>3. /\ exec'[c].pc = "called" /\ exec'[c].hits = exec[c].hits
      /\ exec'[c].joined = exec[c].joined \cup {i}
      /\ exec'[c].traces = exec[c].traces \o ps
  BY <1>1, <1>2 DEF JoinBranch, JoinedTraces, ExecShape
<1>4. exec[e].traces \in Seq(TraceShape) /\ exec[c].traces \in Seq(TraceShape)
  BY <1>2 DEF AllInv, IInv, ExecInv, ExecShape
<1>5. Leaves' = Leaves /\ Leaves \subseteq Seq(Nat)
  BY <1>2 DEF Leaves, AllInv, IInv, TreeInv
<1>6. Covered(e) = {d \in Leaves : Under(d, e)}
  BY <1>2 DEF Covered, Reported
<1>7. Covered(c) = {d \in Leaves : \E j \in exec[c].joined : Under(d, Append(c, j))}
  BY <1>2 DEF Covered, Reported
<1>8. Covered(c)' = {d \in Leaves : \E j \in exec[c].joined \cup {i} : Under(d, Append(c, j))}
  BY <1>3, <1>5 DEF Covered, Reported, Under, Prefix
<1>9. Covered(c)' = Covered(c) \cup Covered(e)
  BY <1>6, <1>7, <1>8
<1>10. \A d \in Covered(c) : d \notin Covered(e)
  BY <1>1, <1>2, <1>5, <1>6, <1>7, BelowOneSuccessor
<1>11. OnePer(ps, c, Covered(e))
  <2>1. OnePer(exec[e].traces, e, Covered(e))
    BY <1>2 DEF LeafInv, LeafOK
  <2>2. Covered(e) \subseteq Seq(Nat) /\ \A d \in Covered(e) : Under(d, Append(c, i))
    BY <1>5, <1>6
  <2> QED BY <1>1, <1>4, <2>1, <2>2, OneEachPrepended
<1>12. OnePer(exec[c].traces, c, Covered(c))
  BY DEF LeafInv, LeafOK
<1>13. OnePer(exec[c].traces \o ps, c, Covered(c) \cup Covered(e))
  <2>1. ps \in Seq(TraceShape)
    BY <1>1, <1>4, TracesShape
  <2> HIDE DEF ps
  <2> QED BY <1>4, <1>10, <1>11, <1>12, <2>1, OneEachOfBoth
<1> QED BY <1>3, <1>9, <1>13 DEF LeafOK

(* A filter returns when it has joined all it activated, and it activated  *)
(* some branch.                                                            *)
LEMMA FilterReturnsLeaves ==
  ASSUME AllInv, LeafInv, NEW c \in DOMAIN args, FilterReturn(c)
  PROVE  LeafOK(c)'
PROOF
<1>1. DOMAIN exec = DOMAIN args /\ exec[c] \in ExecShape /\ c \in Seq(Nat)
      /\ exec[c].joined \subseteq Nat
  BY DEF AllInv, IInv, ExecInv, TreeInv, ExecShape
<1>2. /\ exec[c].pc = "called" /\ Filter(c) /\ ~ Linear(c)
      /\ exec[c].joined = exec[c].hits /\ args' = args
      /\ exec'[c].pc = "done" /\ exec'[c].traces = exec[c].traces
  BY <1>1, LinearIsNoFilter DEF FilterReturn, AllJoined, ExecShape
<1>3. Leaves' = Leaves /\ Leaves \subseteq DOMAIN args /\ Leaves \subseteq Seq(Nat)
  BY <1>2 DEF Leaves, AllInv, IInv, TreeInv
<1>4. c \notin Leaves
  <2>1. PICK i \in exec[c].joined : TRUE
    BY <1>2 DEF LeafInv, LeafOK
  <2>2. Append(c, i) \in DOMAIN args /\ i \in Nat
    BY <1>1 DEF AllInv, RunInv, CallOK, Joined, PassedUp, Started
  <2>3. DOMAIN args \subseteq Seq(Nat)
    BY DEF AllInv, IInv, TreeInv
  <2> QED BY <2>2, <2>3, LeafHasNoSuccessor DEF Leaves
<1>5. Covered(c) = {d \in Leaves : \E j \in exec[c].joined : Under(d, Append(c, j))}
  BY <1>2 DEF Covered, Reported
<1>6. Covered(c)' = {d \in Leaves : Under(d, c)}
  BY <1>2, <1>3 DEF Covered, Reported, Under, Prefix
<1>7. ASSUME NEW d \in Leaves
      PROVE  Under(d, c) <=> \E j \in exec[c].joined : Under(d, Append(c, j))
  <2>1. ASSUME Under(d, c) PROVE \E j \in exec[c].joined : Under(d, Append(c, j))
    <3>1. d \in DOMAIN args /\ d # c
      BY <1>3, <1>4
    <3>2. PICK j \in Nat : Append(c, j) \in DOMAIN args /\ Under(d, Append(c, j))
      BY <2>1, <3>1, CallsOnTheWay
    <3>3. j \in exec[c].hits
      BY <1>2, <3>2 DEF AllInv, RunInv, CallOK, Below, Started
    <3> QED BY <1>2, <3>2, <3>3
  <2>2. ASSUME NEW j \in exec[c].joined, Under(d, Append(c, j)) PROVE Under(d, c)
    BY <1>1, <1>3, <2>2, UnderCaller
  <2> QED BY <2>1, <2>2
<1>8. Covered(c)' = Covered(c)
  BY <1>5, <1>6, <1>7
<1> QED BY <1>2, <1>8 DEF LeafInv, LeafOK

-----------------------------------------------------------------------------
(* Every step keeps the traces those of the leaves.                        *)
LEMMA NextLeaves == AllInv /\ AllInv' /\ LeafInv /\ [Next]_vars => LeafInv'
PROOF
<1> SUFFICES ASSUME AllInv, AllInv', LeafInv, [Next]_vars PROVE LeafInv'
  OBVIOUS
<1>0. IInv' /\ exec \in [DOMAIN args -> ExecShape]
  BY DEF AllInv, IInv, ExecInv
<1>1. ASSUME NEW c \in DOMAIN args, InvalidType(c) \/ LinearStep(c) \/ FilterStep(c)
      PROVE  StepOf(c) /\ exec[c].pc # "done"
  <2>1. StepOf(c)
    BY <1>1, CallStepsOK
  <2> QED BY <2>1 DEF StepOf, OnlyCall
<1>2. CASE Execute
  <2>1. \A c \in DOMAIN args' : exec'[c] = Entered
    BY <1>2 DEF AllInv, Execute, StartInv
  <2>2. Entered.pc = "ready" /\ Entered.joined = {} /\ Entered.traces = <<>>
    BY DEF Entered
  <2>3. \A c \in DOMAIN args' : Covered(c)' = {}
    BY <2>1, <2>2 DEF Covered, Reported
  <2> QED BY <2>1, <2>2, <2>3, NoneYet DEF LeafInv, LeafOK
<1>3. ASSUME NEW c \in DOMAIN args, InvalidType(c) PROVE LeafOK(c)'
  BY <1>3, FailsOneTrace DEF InvalidType
<1>4. ASSUME NEW c \in DOMAIN args, LinearStep(c) PROVE LeafOK(c)'
  <2>0. StepOf(c) /\ exec[c].pc # "done"
    BY <1>1, <1>4
  <2>1. CASE NoWorkerFound(c)
    BY <2>1, FailsOneTrace DEF NoWorkerFound
  <2>2. CASE Dispatch(c)
    <3>1. /\ exec'[c].pc = "await" /\ exec'[c].joined = exec[c].joined
          /\ exec'[c].traces = exec[c].traces
      BY <1>0, <2>2 DEF Dispatch, ExecShape
    <3> QED BY <1>0, <2>0, <3>1, GathersNothing
  <2>3. CASE DispatchError(c)
    BY <2>3, FailsOneTrace DEF DispatchError
  <2>4. CASE WorkerFailure(c)
    BY <2>4, FailsOneTrace DEF WorkerFailure, Responded
  <2>5. CASE RejectOverwrite(c)
    BY <2>5, FailsOneTrace DEF RejectOverwrite, Responded
  <2>6. CASE CompleteTerminal(c)
    BY <2>6, ReturnsOneTrace DEF CompleteTerminal, Responded
  <2>7. CASE CompleteDangling(c)
    BY <2>7, FailsOneTrace DEF CompleteDangling, Responded
  <2>8. CASE CompleteAndContinue(c)
    <3>1. Linear(c) /\ c # Append(c, 1)
      BY <2>8 DEF CompleteAndContinue, Responded, AllInv, IInv, ExecInv, Started
    <3>2. /\ exec'[c].pc = "called" /\ exec'[c].joined = exec[c].joined
          /\ exec'[c].traces = exec[c].traces
      BY <1>0, <2>8, <3>1 DEF CompleteAndContinue, WithCall, ExecShape
    <3>3. ~ Filter(c)
      BY <3>1, LinearIsNoFilter
    <3> QED BY <1>0, <2>0, <3>2, <3>3, GathersNothing
  <2>9. CASE LinearReturn(c)
    BY <2>9, LinearReturnsLeaves
  <2> QED BY <1>4, <2>1, <2>2, <2>3, <2>4, <2>5, <2>6, <2>7, <2>8, <2>9 DEF LinearStep
<1>5. ASSUME NEW c \in DOMAIN args, FilterStep(c) PROVE LeafOK(c)'
  <2>0. StepOf(c) /\ exec[c].pc # "done"
    BY <1>1, <1>5
  <2>1. CASE FilterFails(c)
    BY <2>1, FailsOneTrace DEF FilterFails
  <2>2. CASE FilterNoHit(c)
    BY <2>2, ReturnsOneTrace DEF FilterNoHit
  <2>3. CASE FilterSplit(c)
    <3>1. /\ exec'[c].pc = "called" /\ exec'[c].joined = exec[c].joined
          /\ exec'[c].traces = exec[c].traces /\ exec'[c].hits # {}
      BY <1>0, <2>3 DEF FilterSplit, ExecShape
    <3> QED BY <1>0, <2>0, <3>1, GathersNothing
  <2>4. CASE FilterReturn(c)
    BY <2>4, FilterReturnsLeaves
  <2>5. ASSUME NEW i \in exec[c].hits, StartBranch(c, i) PROVE LeafOK(c)'
    <3>1. exec'[c] = exec[c] /\ exec[c].pc = "called" /\ Filter(c)
      BY <1>0, <2>5 DEF StartBranch, Started, WithCall
    <3> QED BY <1>0, <2>0, <3>1, GathersNothing DEF LeafInv, LeafOK
  <2>6. ASSUME NEW i \in exec[c].hits, JoinBranch(c, i) PROVE LeafOK(c)'
    BY <2>6, JoinAddsLeaves
  <2> QED BY <1>5, <2>1, <2>2, <2>3, <2>4, <2>5, <2>6 DEF FilterStep
<1>6. ASSUME NEW c \in DOMAIN args, InvalidType(c) \/ LinearStep(c) \/ FilterStep(c)
      PROVE  LeafInv'
  BY <1>0, <1>1, <1>3, <1>4, <1>5, <1>6, OthersKeepLeaves
<1>7. CASE args' = args /\ exec' = exec
  <2>1. Leaves' = Leaves
    BY <1>7 DEF Leaves
  <2>2. \A c \in DOMAIN args : Covered(c)' = Covered(c) /\ Filter(c)' = Filter(c)
    BY <1>7, <2>1 DEF Covered, Reported, Under, Prefix, Filter, Node
  <2> QED BY <1>7, <2>2 DEF LeafInv, LeafOK
<1> QED BY <1>2, <1>6, <1>7 DEF Next, EngineStep, Finish, WorkerAnswers, vars

(* Some sequence of traces with one to each of D is as long as D is large. *)
LEMMA OnePerCounts ==
  ASSUME NEW ts, NEW c, NEW D, Len(ts) \in Nat, OnePer(ts, c, D)
  PROVE  Len(ts) = Cardinality(D)
PROOF
<1> DEFINE f == [k \in 1..Len(ts) |-> EndOf(ts[k])]
<1>1. f \in Bijection(1..Len(ts), D)
  <2>1. f \in [1..Len(ts) -> D] /\ \A k \in 1..Len(ts) : f[k] = EndOf(ts[k])
    BY DEF OnePer
  <2>2. \A k, l \in 1..Len(ts) : f[k] = f[l] => k = l
    BY <2>1 DEF OnePer
  <2>3. \A d \in D : \E k \in 1..Len(ts) : f[k] = d
    BY <2>1 DEF OnePer
  <2> HIDE DEF f
  <2> QED BY <2>1, <2>2, <2>3, Fun_IsBij
<1>2. ExistsBijection(1..Len(ts), D)
  BY <1>1 DEF ExistsBijection
<1> QED BY <1>2, FS_CountingElements

(* When Execute returns, every call has returned and every branch that was *)
(* activated was executed; the result holds one trace to each leaf of the  *)
(* calls made, in whatever order the branches were joined.                 *)
THEOREM NoTraceIsLost == Spec => []OneTracePerLeaf
PROOF
<1>1. AllInv /\ VerdictInv /\ LeafInv => OneTracePerLeaf
  <2> SUFFICES ASSUME AllInv, VerdictInv, LeafInv, Final
               PROVE /\ \A c \in DOMAIN args :
                          exec[c].pc = "done" /\ \A i \in exec[c].hits : Started(Append(c, i))
                     /\ {result.traces[k].nodes : k \in 1..Len(result.traces)}
                          = {PathTo(c) : c \in Leaves}
                     /\ Len(result.traces) = Cardinality(Leaves)
    BY DEF OneTracePerLeaf
  <2>1. Root \in DOMAIN args /\ exec[Root].pc = "done" /\ result.traces = exec[Root].traces
    BY DEF VerdictInv, AllInv, StartInv, Final
  <2>2. \A c \in DOMAIN args : exec[c].pc = "done"
    BY <2>1, AllThrough
  <2>3. \A c \in DOMAIN args : \A i \in exec[c].hits : Started(Append(c, i))
    BY <2>2 DEF AllInv, RunInv, CallOK, Through, Joined, PassedUp
  <2>4. Covered(Root) = Leaves
    <3>1. Leaves \subseteq Seq(Nat)
      BY DEF Leaves, AllInv, IInv, TreeInv
    <3> QED BY <2>1, <3>1, UnderItself DEF Covered, Reported, Root
  <2>5. OnePer(result.traces, Root, Leaves)
    BY <2>1, <2>4 DEF LeafInv, LeafOK
  <2>6. ASSUME NEW d \in Leaves PROVE PathFrom(Root, d) = PathTo(d)
    <3>1. Len(d) \in Nat /\ Len(Root) = 0
      BY LenProperties DEF Leaves, AllInv, IInv, TreeInv, Root
    <3>2. Len(d) - Len(Root) + 1 = Len(d) + 1
      BY <3>1
    <3>3. \A k \in 1..(Len(d) + 1) : Len(Root) + k - 1 = k - 1
      BY <3>1
    <3> QED BY <3>2, <3>3 DEF PathFrom, PathTo
  <2>7. Len(result.traces) \in Nat
    BY LenProperties DEF AllInv, StartInv
  <2>8. {result.traces[k].nodes : k \in 1..Len(result.traces)} = {PathTo(c) : c \in Leaves}
    BY <2>5, <2>6 DEF OnePer
  <2> QED BY <2>2, <2>3, <2>5, <2>7, <2>8, OnePerCounts
<1>2. Init => VerdictInv /\ LeafInv
  BY DEF Init, VerdictInv, Final, LeafInv
<1> QED BY AllHolds, NextVerdict, NextLeaves, <1>1, <1>2, PTL DEF Spec

-----------------------------------------------------------------------------
(***************************************************************************)
(* The parents a worker is sent: right down to the first filter.           *)
(*                                                                         *)
(* Whichever branch writes a slot of an array, it writes the id of a call at*)
(* that depth (ParentInv); and down to the first filter there is one call at*)
(* each depth (OneWayToFilter).                                            *)
(***************************************************************************)

(* The slots that nothing was written to.                                  *)
Blank == ""

(* append(s, x), for a slice of the arrays that are there: the slice it    *)
(* returns ends with x after what s holds, and in the arrays that were     *)
(* there no slot changes but the one after the last of s, to x.            *)
LEMMA AppendInPlace ==
  ASSUME NEW A, NEW D, NEW heap \in [D -> Seq(A)], NEW b \in D, NEW n \in Nat, NEW x \in A,
         n < Len(heap[b])
  PROVE  LET after == [heap EXCEPT ![b][n + 1] = x]
         IN /\ after \in [D -> Seq(A)]
            /\ after[b][n + 1] = x
            /\ \A k \in 1..n : after[b][k] = heap[b][k]
            /\ \A a \in D : /\ Len(after[a]) = Len(heap[a])
                            /\ \A k \in 1..Len(heap[a]) :
                                 after[a][k] = heap[a][k] \/ (k = n + 1 /\ after[a][k] = x)
PROOF
<1> DEFINE old   == heap[b]
           new   == [old EXCEPT ![n + 1] = x]
           after == [heap EXCEPT ![b] = new]
<1>1. \A a \in D : heap[a] \in Seq(A) /\ Len(heap[a]) \in Nat
  BY LenProperties
<1>2. n + 1 \in 1..Len(old)
  BY <1>1
<1>3. /\ new \in Seq(A) /\ Len(new) = Len(old)
      /\ \A k \in 1..Len(old) : new[k] = IF k = n + 1 THEN x ELSE old[k]
  BY <1>1, <1>2, ExceptSeq
<1>4. \A k \in 1..n : k \in 1..Len(old) /\ k # n + 1
  BY <1>1
<1> HIDE DEF new
<1>5. /\ after \in [D -> Seq(A)] /\ after[b] = new
      /\ \A a \in D : a # b => after[a] = heap[a]
  BY <1>3
<1> HIDE DEF after
<1>6. new[n + 1] = x /\ \A k \in 1..n : new[k] = old[k]
  BY <1>2, <1>3, <1>4
<1>7. ASSUME NEW a \in D
      PROVE /\ Len(after[a]) = Len(heap[a])
            /\ \A k \in 1..Len(heap[a]) :
                 after[a][k] = heap[a][k] \/ (k = n + 1 /\ after[a][k] = x)
  <2>1. CASE a = b
    BY <1>3, <1>5, <2>1
  <2>2. CASE a # b
    BY <1>5, <2>2
  <2> QED BY <2>1, <2>2
<1> QED BY <1>5, <1>6, <1>7 DEF after, new

(* append(s, x), for a slice without room: a new array.                    *)
LEMMA AppendCopies ==
  ASSUME NEW A, NEW D, NEW heap \in [D -> Seq(A)], NEW s, NEW x \in A, Blank \in A,
         NEW n \in Nat, s.arr \in D, s.len = n, Len(heap[s.arr]) = n
  PROVE  /\ Grown(heap, s, x) \in Seq(A)
         /\ n + 1 <= Len(Grown(heap, s, x)) /\ Grown(heap, s, x)[n + 1] = x
         /\ \A k \in 1..n : Grown(heap, s, x)[k] = heap[s.arr][k]
PROOF
<1> DEFINE old == heap[s.arr]
           m   == IF n = 0 THEN 1 ELSE 2 * n
           g   == [k \in 1..m |-> IF k <= n THEN old[k] ELSE IF k = n + 1 THEN x ELSE Blank]
<1>1. old \in Seq(A)
  OBVIOUS
<1>2. Grown(heap, s, x) = g
  BY DEF Grown, Blank
<1>3. m \in Nat /\ n + 1 <= m /\ n + 1 \in 1..m /\ ~ (n + 1 <= n)
  OBVIOUS
<1>4. \A k \in 1..n : k \in 1..m /\ k <= n
  BY <1>3
<1> HIDE DEF m, old
<1>5. \A k \in 1..n : old[k] \in A
  <2>1. Len(old) = n
    BY DEF old
  <2> QED BY <1>1, <2>1, ElementOfSeq
<1>6. \A k \in 1..m : (IF k <= n THEN old[k] ELSE IF k = n + 1 THEN x ELSE Blank) \in A
  <2> TAKE k \in 1..m
  <2>1. k <= n => k \in 1..n
    BY <1>3
  <2> QED BY <1>5, <2>1
<1>7. g \in Seq(A) /\ Len(g) = m
  <2>1. g \in Seq(A)
    BY <1>3, <1>6, IsASeq
  <2> QED BY <1>3, <2>1
<1>8. g[n + 1] = x /\ \A k \in 1..n : g[k] = old[k]
  BY <1>3, <1>4
<1> HIDE DEF g
<1> QED BY <1>2, <1>3, <1>7, <1>8 DEF old

FillsTo(A, D, heap, s, x, fresh, n, r, after) ==
  /\ D \subseteq DOMAIN after /\ DOMAIN after \subseteq D \cup {fresh}
  /\ after \in [DOMAIN after -> Seq(A)]
  /\ r.arr \in DOMAIN after /\ r.len = n + 1 /\ n + 1 <= Len(after[r.arr])
  /\ after[r.arr][n + 1] = x
  /\ \A k \in 1..n : after[r.arr][k] = heap[s.arr][k]
  /\ \A a \in D : /\ Len(after[a]) = Len(heap[a])
                  /\ \A k \in 1..Len(heap[a]) :
                       after[a][k] = heap[a][k] \/ (k = n + 1 /\ after[a][k] = x)

(* append(s, x), in either case.                                           *)
LEMMA AppendFills ==
  ASSUME NEW A, NEW D, NEW heap \in [D -> Seq(A)], NEW s, NEW x \in A, Blank \in A,
         NEW fresh, fresh \notin D, NEW n \in Nat,
         s.arr \in D, s.len = n, n <= Len(heap[s.arr]),
         NEW r, r = Appended(heap, s, fresh),
         NEW after, after = ArraysAfter(heap, s, x, fresh)
  PROVE  FillsTo(A, D, heap, s, x, fresh, n, r, after)
PROOF
<1>1. Len(heap[s.arr]) \in Nat
  BY LenProperties
<1>2. CASE HasRoom(heap, s)
  <2>1. n < Len(heap[s.arr]) /\ n + 1 <= Len(heap[s.arr])
    BY <1>1, <1>2 DEF HasRoom
  <2>2. after = [heap EXCEPT ![s.arr][n + 1] = x]
    BY <1>2 DEF ArraysAfter
  <2>3. r.arr = s.arr /\ r.len = n + 1
    BY <1>2 DEF Appended
  <2>4. /\ after \in [D -> Seq(A)]
        /\ after[s.arr][n + 1] = x
        /\ \A k \in 1..n : after[s.arr][k] = heap[s.arr][k]
        /\ \A a \in D : /\ Len(after[a]) = Len(heap[a])
                        /\ \A k \in 1..Len(heap[a]) :
                             after[a][k] = heap[a][k] \/ (k = n + 1 /\ after[a][k] = x)
    BY <2>1, <2>2, AppendInPlace
  <2>5. DOMAIN after = D
    BY <2>4
  <2> QED BY <2>1, <2>3, <2>4, <2>5 DEF FillsTo
<1>3. CASE ~ HasRoom(heap, s)
  <2> DEFINE new == Grown(heap, s, x)
  <2>1. Len(heap[s.arr]) = n
    BY <1>1, <1>3 DEF HasRoom
  <2>2. /\ new \in Seq(A) /\ n + 1 <= Len(new) /\ new[n + 1] = x
        /\ \A k \in 1..n : new[k] = heap[s.arr][k]
    BY <2>1, AppendCopies
  <2>3. after = [a \in D \cup {fresh} |-> IF a = fresh THEN new ELSE heap[a]]
    BY <1>3 DEF ArraysAfter
  <2>4. r.arr = fresh /\ r.len = n + 1
    BY <1>3 DEF Appended
  <2> HIDE DEF new
  <2>5. /\ DOMAIN after = D \cup {fresh} /\ after[fresh] = new
        /\ \A a \in D : after[a] = heap[a]
    BY <2>3
  <2>6. after \in [DOMAIN after -> Seq(A)]
    BY <2>2, <2>3
  <2> QED BY <2>2, <2>4, <2>5, <2>6 DEF FillsTo
<1> QED BY <1>2, <1>3

-----------------------------------------------------------------------------
(* How deep a call is, and its node's id.                                  *)
Depths == {<<Len(d) + 1, Node(d).id>> : d \in DOMAIN args}

(* Each slot of a call's list holds the id of a call at its depth.         *)
SliceOK(c) ==
  LET s == args[c].parents
  IN /\ s.arr \in DOMAIN arrays /\ s.len = Len(c) /\ Len(c) <= Len(arrays[s.arr])
     /\ \A k \in 1..Len(c) : <<k, arrays[s.arr][k]>> \in Depths

IdOrBlank == NodeIDs(wf) \cup {Blank}
ArraysOK ==
  /\ <<>> \in DOMAIN arrays /\ DOMAIN arrays \subseteq DOMAIN args \cup {<<>>}
  /\ arrays \in [DOMAIN arrays -> Seq(IdOrBlank)]

ParentInv ==
  /\ ArraysOK
  /\ \A c \in DOMAIN args : SliceOK(c)
  /\ \A c \in DOMAIN wire :
       /\ Len(wire[c].parents) = Len(c)
       /\ \A k \in 1..Len(c) : <<k, wire[c].parents[k]>> \in Depths

(* No call loses its depth or its node.                                    *)
LEMMA DepthsStay == ASSUME Kept PROVE Depths \subseteq Depths'
BY DEF Depths, Kept, Node

(* A call writes its id into the slot after its list, in place or in a     *)
(* copy, and in no list does a slot change but that of its own depth.      *)
LEMMA AppendKeepsSlots ==
  ASSUME IInv, ParentInv, Kept, NEW c \in DOMAIN args, NEW i \in Nat, NEW p,
         ~ Started(Append(c, i)), Calls(c, i, p)
  PROVE  ArraysOK' /\ \A d \in DOMAIN args' : SliceOK(d)'
PROOF
<1> DEFINE e == Append(c, i)
           s == args[c].parents
           n == Len(c)
           x == Node(c).id
           A == IdOrBlank
           r == Appended(arrays, s, e)
<1>1. /\ c \in Seq(Nat) /\ n \in Nat /\ Len(e) = n + 1 /\ e # <<>> /\ e \notin DOMAIN args
  BY AppendProperties, LenProperties DEF IInv, TreeInv, Started
<1>2. x \in A /\ Blank \in A /\ IdOrBlank' = A
  BY DEF IInv, TreeInv, Defined, IdOrBlank, Kept
<1>3. /\ s.arr \in DOMAIN arrays /\ s.len = n /\ n <= Len(arrays[s.arr])
      /\ \A k \in 1..n : <<k, arrays[s.arr][k]>> \in Depths
  BY DEF ParentInv, SliceOK
<1>4. /\ <<>> \in DOMAIN arrays /\ DOMAIN arrays \subseteq DOMAIN args \cup {<<>>}
      /\ arrays \in [DOMAIN arrays -> Seq(A)] /\ e \notin DOMAIN arrays
  BY <1>1 DEF ParentInv, ArraysOK
<1>5. /\ DOMAIN args' = DOMAIN args \cup {e} /\ args'[e].parents = r
      /\ arrays' = ArraysAfter(arrays, s, x, e)
  BY DEF Calls
<1>6. \A d \in DOMAIN args : args'[d] = args[d]
  BY DEF Kept
<1>7. <<n + 1, x>> \in Depths'
  BY <1>5, <1>6 DEF Depths, Node
<1>8. /\ DOMAIN arrays \subseteq DOMAIN arrays' /\ DOMAIN arrays' \subseteq DOMAIN arrays \cup {e}
      /\ arrays' \in [DOMAIN arrays' -> Seq(A)]
      /\ r.arr \in DOMAIN arrays' /\ r.len = n + 1 /\ n + 1 <= Len(arrays'[r.arr])
      /\ arrays'[r.arr][n + 1] = x
      /\ \A k \in 1..n : arrays'[r.arr][k] = arrays[s.arr][k]
      /\ \A a \in DOMAIN arrays :
           /\ Len(arrays'[a]) = Len(arrays[a])
           /\ \A k \in 1..Len(arrays[a]) :
                arrays'[a][k] = arrays[a][k] \/ (k = n + 1 /\ arrays'[a][k] = x)
  <2> HIDE DEF A, x, e, s, n
  <2>1. r = Appended(arrays, s, e)
    OBVIOUS
  <2> HIDE DEF r
  <2>2. FillsTo(A, DOMAIN arrays, arrays, s, x, e, n, r, arrays')
    BY <1>1, <1>2, <1>3, <1>4, <1>5, <2>1, AppendFills
  <2> QED BY <2>2 DEF FillsTo
<1> HIDE DEF e, r, n, x
<1>9. ArraysOK'
  BY <1>2, <1>4, <1>5, <1>8 DEF ArraysOK
<1>10. Depths \subseteq Depths'
  BY DepthsStay
<1>11. ASSUME NEW d \in DOMAIN args PROVE SliceOK(d)'
  <2> DEFINE a == args[d].parents.arr
  <2>1. /\ a \in DOMAIN arrays /\ args[d].parents.len = Len(d) /\ Len(d) <= Len(arrays[a])
        /\ \A k \in 1..Len(d) : <<k, arrays[a][k]>> \in Depths
    BY DEF ParentInv, SliceOK
  <2>2. Len(d) \in Nat /\ Len(arrays[a]) \in Nat
    BY <1>4, <2>1, LenProperties DEF IInv, TreeInv
  <2>3. args'[d].parents.arr = a /\ args'[d].parents.len = Len(d)
    BY <1>6, <2>1
  <2> HIDE DEF a
  <2>4. \A k \in 1..Len(d) : k \in 1..Len(arrays[a])
    BY <2>1, <2>2
  <2>5. \A k \in 1..Len(d) : <<k, arrays'[a][k]>> \in Depths'
    BY <1>7, <1>8, <1>10, <2>1, <2>4
  <2> QED BY <1>8, <2>1, <2>3, <2>5 DEF SliceOK
<1>12. SliceOK(e)'
  <2>1. \A k \in 1..(n + 1) : <<k, arrays'[r.arr][k]>> \in Depths'
    <3> TAKE k \in 1..(n + 1)
    <3>1. k = n + 1 \/ k \in 1..n
      BY <1>1
    <3> QED BY <1>3, <1>7, <1>8, <1>10, <3>1
  <2> QED BY <1>1, <1>5, <1>8, <2>1 DEF SliceOK
<1> QED BY <1>5, <1>9, <1>11, <1>12

-----------------------------------------------------------------------------
(* A step that makes no call and sends nothing.                            *)
LEMMA QuietParents ==
  ASSUME ParentInv, Kept, args' = args, arrays' = arrays,
         DOMAIN wire' = DOMAIN wire,
         \A c \in DOMAIN wire : wire'[c].parents = wire[c].parents
  PROVE  ParentInv'
PROOF
<1>1. Depths' = Depths /\ IdOrBlank' = IdOrBlank
  BY DEF Depths, Node, IdOrBlank, Kept
<1>2. ArraysOK'
  BY <1>1 DEF ParentInv, ArraysOK
<1>3. \A c \in DOMAIN args : SliceOK(c)'
  BY <1>1 DEF ParentInv, SliceOK
<1> QED BY <1>1, <1>2, <1>3 DEF ParentInv

(* The lists that were sent stay what they are.                            *)
LEMMA CallParents ==
  ASSUME IInv, ParentInv, Kept, NEW c \in DOMAIN args, NEW i \in Nat, NEW p,
         ~ Started(Append(c, i)), Calls(c, i, p), wire' = wire
  PROVE  ParentInv'
PROOF
<1>1. ArraysOK' /\ \A d \in DOMAIN args' : SliceOK(d)'
  BY AppendKeepsSlots
<1>2. Depths \subseteq Depths'
  BY DepthsStay
<1> QED BY <1>1, <1>2 DEF ParentInv

(* A message is sent with what the slots of its call's list hold.          *)
LEMMA DispatchParents ==
  ASSUME IInv, ParentInv, Kept, NEW c \in DOMAIN args, Dispatch(c) PROVE ParentInv'
PROOF
<1> DEFINE s == args[c].parents
           a == arrays[s.arr]
           n == Len(c)
           m == Contents(arrays, s)
<1>1. args' = args /\ arrays' = arrays
  BY DEF Dispatch
<1>2. Depths' = Depths /\ IdOrBlank' = IdOrBlank
  BY <1>1 DEF Depths, Node, IdOrBlank, Kept
<1>3. ArraysOK' /\ \A d \in DOMAIN args' : SliceOK(d)'
  BY <1>1, <1>2 DEF ParentInv, ArraysOK, SliceOK
<1>4. /\ n \in Nat /\ s.len = n /\ n <= Len(a) /\ a \in Seq(IdOrBlank)
      /\ \A k \in 1..n : <<k, a[k]>> \in Depths
  BY LenProperties DEF ParentInv, SliceOK, ArraysOK, IInv, TreeInv
<1>5. /\ DOMAIN wire' = DOMAIN wire \cup {c} /\ wire'[c].parents = m
      /\ \A d \in DOMAIN wire : d # c => wire'[d] = wire[d]
  BY DEF Dispatch
<1>6. m = SubSeq(a, 1, n)
  BY <1>4 DEF Contents
<1> HIDE DEF a, n, m
<1>7. Len(a) \in Nat /\ \A k \in 1..n : k \in 1..Len(a)
  BY <1>4, LenProperties
<1>8. Len(m) = n /\ \A k \in 1..n : m[k] = a[k]
  <2>1. \A k \in 1..n : a[k] \in IdOrBlank
    BY <1>4, <1>7, ElementOfSeq
  <2>2. 1 \in Nat /\ n - 1 + 1 = n
    BY <1>4
  <2> QED BY <1>4, <1>6, <1>7, <2>1, SubSeqProperties
<1>9. ASSUME NEW d \in DOMAIN wire'
      PROVE  /\ Len(wire'[d].parents) = Len(d)
             /\ \A k \in 1..Len(d) : <<k, wire'[d].parents[k]>> \in Depths
  <2>1. CASE d = c
    BY <1>4, <1>5, <1>8, <2>1 DEF n
  <2>2. CASE d # c
    BY <1>5, <2>2 DEF ParentInv
  <2> QED BY <2>1, <2>2
<1> QED BY <1>2, <1>3, <1>9 DEF ParentInv

(* The root call's list is nil.                                            *)
LEMMA ExecuteParents ==
  ASSUME StartInv, WireInv, ParentInv, Kept, Execute PROVE ParentInv'
PROOF
<1>1. /\ DOMAIN args = {} /\ DOMAIN wire = {} /\ wire' = wire /\ arrays' = arrays
      /\ IdOrBlank' = IdOrBlank
  BY DEF Execute, StartInv, WireInv, IdOrBlank
<1>2. /\ DOMAIN args' \subseteq {Root}
      /\ \A d \in DOMAIN args' : args'[d].parents = NilSlice
  BY <1>1 DEF Execute
<1>3. ArraysOK'
  BY <1>1 DEF ParentInv, ArraysOK
<1>4. ASSUME NEW d \in DOMAIN args' PROVE SliceOK(d)'
  <2>1. /\ Len(d) = 0 /\ args'[d].parents.arr = <<>> /\ args'[d].parents.len = 0
    BY <1>2 DEF NilSlice, Root
  <2>2. <<>> \in DOMAIN arrays /\ Len(arrays[<<>>]) \in Nat
    BY LenProperties DEF ParentInv, ArraysOK
  <2>3. 0 <= Len(arrays[<<>>]) /\ 1..0 = {}
    BY <2>2
  <2> QED BY <1>1, <2>1, <2>2, <2>3 DEF SliceOK
<1> QED BY <1>1, <1>3, <1>4 DEF ParentInv

LEMMA InitParents == Init => ParentInv
PROOF
<1>1. ASSUME Init PROVE ArraysOK
  BY <1>1 DEF Init, ArraysOK, NoArrays
<1> QED BY <1>1 DEF Init, ParentInv

(* Every step keeps the slices what they should be.                        *)
LEMMA NextParents == AllInv /\ ParentInv /\ [Next]_vars => ParentInv'
PROOF
<1> SUFFICES ASSUME AllInv, ParentInv, [Next]_vars PROVE ParentInv'
  OBVIOUS
<1>0. IInv /\ StartInv /\ WireInv /\ Kept
  BY NextKeeps DEF AllInv, PayInv
<1>1. CASE Execute
  BY <1>0, <1>1, ExecuteParents
<1>2. CASE args' = args /\ arrays' = arrays /\ wire' = wire
  BY <1>0, <1>2, QuietParents
<1>3. ASSUME NEW c \in DOMAIN args, LinearStep(c) PROVE ParentInv'
  <2>1. CASE CompleteAndContinue(c)
    <3>1. ~ Started(Append(c, 1))
      BY <1>0, <2>1 DEF CompleteAndContinue, Responded, IInv, ExecInv
    <3>2. wire' = wire /\ Calls(c, 1, Append(c, 1)) /\ 1 \in Nat
      BY <2>1 DEF CompleteAndContinue
    <3> QED BY <1>0, <3>1, <3>2, CallParents
  <2>2. CASE Dispatch(c)
    BY <1>0, <2>2, DispatchParents
  <2> QED BY <1>2, <1>3, <2>1, <2>2
          DEF LinearStep, NoWorkerFound, DispatchError, WorkerFailure, RejectOverwrite,
              CompleteTerminal, CompleteDangling, LinearReturn
<1>4. ASSUME NEW c \in DOMAIN args, FilterStep(c) PROVE ParentInv'
  <2>1. ASSUME NEW i \in exec[c].hits, StartBranch(c, i) PROVE ParentInv'
    <3>1. i \in Nat
      BY <1>0 DEF IInv, ExecInv, ExecShape
    <3> QED BY <1>0, <2>1, <3>1, CallParents DEF StartBranch
  <2> QED BY <1>2, <1>4, <2>1 DEF FilterStep, FilterFails, FilterNoHit, FilterSplit,
                                  FilterReturn, JoinBranch
<1>5. ASSUME NEW c \in DOMAIN wire, WorkerAnswers(c) PROVE ParentInv'
  <2>1. /\ args' = args /\ arrays' = arrays /\ DOMAIN wire' = DOMAIN wire
        /\ \A d \in DOMAIN wire : wire'[d].parents = wire[d].parents
    BY <1>5 DEF WorkerAnswers
  <2> QED BY <1>0, <2>1, QuietParents
<1> QED BY <1>1, <1>2, <1>3, <1>4, <1>5 DEF Next, EngineStep, InvalidType, Finish, vars

-----------------------------------------------------------------------------
(* Up to the first filter above a call, only linear nodes are above it.    *)
LEMMA LinearUpTo ==
  ASSUME NEW c, Len(c) \in Nat, NEW j \in 1..Len(c), j <= ToFirstFilter(c)
  PROVE  \A i \in 1..j : Linear(Prefix(c, i - 1))
PROOF
<1> DEFINE S == {k \in 1..Len(c) : \A l \in 0..(k - 1) : Linear(Prefix(c, l))}
<1> SUFFICES ASSUME NEW i \in 1..j, ~ Linear(Prefix(c, i - 1)) PROVE FALSE
  OBVIOUS
<1>1. S \subseteq 1..(j - 1)
  <2> SUFFICES ASSUME NEW k \in S, k >= j PROVE FALSE
    OBVIOUS
  <2>1. i - 1 \in 0..(k - 1)
    OBVIOUS
  <2> QED BY <2>1
<1>2. IsFiniteSet(1..(j - 1)) /\ Cardinality(1..(j - 1)) = j - 1
  <2>1. 1 \in Int /\ j - 1 \in Int /\ (1 > j - 1 => j - 1 = 0) /\ (j - 1) - 1 + 1 = j - 1
    OBVIOUS
  <2> DEFINE b == j - 1
  <2> HIDE DEF b
  <2>2. IsFiniteSet(1..b) /\ Cardinality(1..b) = IF 1 > b THEN 0 ELSE b - 1 + 1
    BY <2>1, FS_Interval DEF b
  <2> QED BY <2>1, <2>2 DEF b
<1>3. Cardinality(S) \in Nat /\ Cardinality(S) <= j - 1
  BY <1>1, <1>2, FS_Subset, FS_CardinalityType
<1>4. ToFirstFilter(c) = Cardinality(S)
  BY DEF ToFirstFilter
<1> HIDE DEF S
<1> QED BY <1>3, <1>4

(* Two calls agree as long as only linear nodes are above them.            *)
LEMMA OneWayToFilter ==
  ASSUME AllInv, NEW c \in DOMAIN args, NEW d \in DOMAIN args,
         NEW n \in Nat, n <= Len(c), n <= Len(d),
         \A j \in 1..n : Linear(Prefix(c, j - 1))
  PROVE  \A j \in 1..n : d[j] = c[j]
PROOF
<1> DEFINE T == {j \in 1..n : d[j] # c[j]}
<1> SUFFICES ASSUME T # {} PROVE FALSE
  OBVIOUS
<1>0. c \in Seq(Nat) /\ d \in Seq(Nat) /\ Len(c) \in Nat /\ Len(d) \in Nat
  BY LenProperties DEF AllInv, IInv, TreeInv
<1>1. PICK j \in T : \A k \in T : j <= k
  <2>1. T \subseteq Nat
    OBVIOUS
  <2> QED BY <2>1, LeastNatural
<1>2. j \in 1..n /\ d[j] # c[j] /\ \A k \in 1..(j - 1) : d[k] = c[k]
  <2>1. \A k \in 1..(j - 1) : k \in 1..n /\ ~ (j <= k)
    OBVIOUS
  <2> QED BY <1>1, <2>1
<1> HIDE DEF T
<1>3. j \in 1..Len(c) /\ j \in 1..Len(d)
  BY <1>0, <1>2
<1>4. ASSUME NEW e \in DOMAIN args, e \in Seq(Nat), Len(e) \in Nat, j \in 1..Len(e)
      PROVE  /\ Prefix(e, j) \in DOMAIN args /\ Prefix(e, j - 1) \in DOMAIN args
             /\ Prefix(e, j) = Append(Prefix(e, j - 1), e[j])
             /\ Prefix(e, j - 1) \in Seq(Nat) /\ Len(Prefix(e, j - 1)) = j - 1
             /\ \A k \in 1..(j - 1) : Prefix(e, j - 1)[k] = e[k]
             /\ e[j] \in Nat
  <2> DEFINE f == Prefix(e, j)
             g == Prefix(e, j - 1)
  <2>1. j \in Nat /\ j - 1 \in 0..(Len(e) - 1) /\ (j = Len(e) \/ j \in 0..(Len(e) - 1))
    BY <1>2, <1>4
  <2>2. \A k \in 1..j : e[k] \in Nat
    BY <1>4
  <2>3. /\ f \in Seq(Nat) /\ Len(f) = j /\ \A k \in 1..j : f[k] = e[k]
    BY <1>4, <2>1, <2>2, SubSeqProperties DEF Prefix
  <2>4. /\ g \in Seq(Nat) /\ Len(g) = j - 1 /\ \A k \in 1..(j - 1) : g[k] = e[k]
    BY <1>4, <2>1, <2>2, SubSeqProperties DEF Prefix
  <2>5. f \in DOMAIN args /\ g \in DOMAIN args
    BY <1>4, <2>1, SubSeqFull DEF AllInv, PayInv, HeapInv, Prefix
  <2> HIDE DEF f, g
  <2>6. /\ Append(g, e[j]) \in Seq(Nat) /\ Len(Append(g, e[j])) = j
        /\ \A k \in 1..j : Append(g, e[j])[k] = e[k]
    BY <2>1, <2>2, <2>4, AppendProperties
  <2>7. f = Append(g, e[j])
    BY <2>3, <2>6, SeqEqual
  <2> QED BY <2>1, <2>2, <2>4, <2>5, <2>7 DEF f, g
<1>5. Prefix(c, j - 1) = Prefix(d, j - 1)
  <2> DEFINE f == Prefix(c, j - 1)
             g == Prefix(d, j - 1)
  <2>1. f \in Seq(Nat) /\ Len(f) = j - 1 /\ \A k \in 1..(j - 1) : f[k] = c[k]
    BY <1>0, <1>3, <1>4
  <2>2. g \in Seq(Nat) /\ Len(g) = j - 1 /\ \A k \in 1..(j - 1) : g[k] = d[k]
    BY <1>0, <1>3, <1>4
  <2> HIDE DEF f, g
  <2>3. \A k \in 1..Len(f) : f[k] = g[k]
    BY <1>2, <2>1, <2>2
  <2>4. f = g
    BY <2>1, <2>2, <2>3, SeqEqual
  <2> QED BY <2>4 DEF f, g
<1> DEFINE b == Prefix(c, j - 1)
<1>6. b \in DOMAIN args /\ Linear(b) /\ Started(Append(b, c[j])) /\ Started(Append(b, d[j]))
  BY <1>0, <1>2, <1>3, <1>4, <1>5 DEF Started
<1>7. c[j] \in Nat /\ d[j] \in Nat
  BY <1>0, <1>3, <1>4
<1> HIDE DEF b
<1>8. c[j] = 1 /\ d[j] = 1
  BY <1>6, <1>7, LinearIsNoFilter DEF AllInv, RunInv, CallOK, Below
<1> QED BY <1>2, <1>8

(* The parent_nodes a worker is sent are as many as there are calls above  *)
(* its node; those above the first filter are the ids of the calls above   *)
(* it, and what lies deeper, where branches may write one array, is still  *)
(* the id of some call at that depth.                                      *)
THEOREM ParentsBelowFilters == Spec => []ParentsUpToSplit
PROOF
<1>1. AllInv /\ ParentInv => ParentsUpToSplit
  <2> SUFFICES ASSUME AllInv, ParentInv, NEW c \in DOMAIN wire, NEW k \in 1..Len(c)
               PROVE  \E d \in DOMAIN args :
                        /\ Len(d) = k - 1 /\ Node(d).id = wire[c].parents[k]
                        /\ \A j \in 1..(k - 1) : j <= ToFirstFilter(c) => d[j] = c[j]
    BY DEF ParentInv, ParentsUpToSplit
  <2>1. c \in DOMAIN args /\ Len(c) \in Nat
    BY LenProperties DEF AllInv, WireInv, IInv, TreeInv
  <2>2. PICK d \in DOMAIN args : <<k, wire[c].parents[k]>> = <<Len(d) + 1, Node(d).id>>
    BY DEF ParentInv, Depths
  <2>3. Len(d) \in Nat /\ Len(d) = k - 1 /\ Node(d).id = wire[c].parents[k]
    <3>1. Len(d) \in Nat
      BY LenProperties DEF AllInv, IInv, TreeInv
    <3>2. k = Len(d) + 1 /\ wire[c].parents[k] = Node(d).id
      BY <2>2
    <3> QED BY <2>1, <3>1, <3>2
  <2>4. ASSUME NEW j \in 1..(k - 1), j <= ToFirstFilter(c) PROVE d[j] = c[j]
    <3>1. \A i \in 1..j : Linear(Prefix(c, i - 1))
      BY <2>1, <2>4, LinearUpTo
    <3>2. j \in Nat /\ j <= Len(c) /\ j <= Len(d) /\ j \in 1..j
      BY <2>1, <2>3
    <3> QED BY <2>1, <3>1, <3>2, OneWayToFilter
  <2> QED BY <2>3, <2>4
<1> QED BY AllHolds, InitParents, NextParents, <1>1, PTL DEF Spec

-----------------------------------------------------------------------------
(***************************************************************************)
(* The types of the variables of Engine.                                   *)
(***************************************************************************)

(* What TypeOK says of the variables the other invariants leave open: the  *)
(* maps, the counters, the replies, and the result before it is given.     *)
Answers(c)  == Replies(Node(c).id) \cup {NoReply}
Unset       == ~ Final => result.traces = <<>>
MapsInv     == \A a \in DOMAIN maps : maps[a] \in Payloads
AnswersInv  ==
  \A c \in DOMAIN wire :
    /\ wire[c].reply \in Answers(c)
    /\ wire[c] = [url |-> wire[c].url, parents |-> wire[c].parents, posts |-> wire[c].posts,
                 reply |-> wire[c].reply]
RotationInv == next \in [DOMAIN Handlers -> Counters]
DataInv ==
  strict \in StrictModes /\ MapsInv /\ AnswersInv /\ RotationInv /\ Unset

(* The counter stays within its width.                                     *)
LEMMA BumpStays == ASSUME NEW n \in Counters PROVE Bump(n) \in Counters
BY CounterRangeAssumption DEF Counters, Bump

(* A reply is one of the bodies, from a known source.                      *)
LEMMA BodiesAre ==
  ASSUME NEW w \in Workflows, NEW id \in NodeIDs(w), NEW r \in Replies(id)
  PROVE  r \in Bodies /\ r.output \in Sources
PROOF
<1>1. id \in UNION {NodeIDs(v) : v \in Workflows}
  OBVIOUS
<1> DEFINE I == UNION {NodeIDs(v) : v \in Workflows}
<1> HIDE DEF I
<1>2. r \in UNION {Replies(i) : i \in I}
  BY <1>1 DEF I
<1>3. r \in Bodies
  BY <1>2 DEF Bodies, I
<1> QED BY <1>3 DEF Sources

(* What a source holds is a field with a value.                            *)
LEMMA SourceFields ==
  ASSUME NEW p \in Sources
  PROVE  DOMAIN p \subseteq Field /\ \A f \in DOMAIN p : p[f] \in Value
PROOF
<1>1. DOMAIN p \subseteq Field
  BY DEF Field
<1>2. {p[f] : f \in DOMAIN p} \subseteq Value
  BY DEF Value
<1> QED BY <1>1, <1>2

(* A map of some fields to values is a payload.                            *)
LEMMA PayloadIs ==
  ASSUME NEW p, NEW S, p = [f \in S |-> p[f]], S \subseteq Field, \A f \in S : p[f] \in Value
  PROVE  p \in Payloads
PROOF
<1>1. p \in [S -> Value] /\ S \in SUBSET Field
  OBVIOUS
<1> QED BY <1>1 DEF Payloads

(* The input is a payload.                                                 *)
LEMMA InputIsPayload == ASSUME NEW p \in Inputs PROVE p \in Payloads
PROOF
<1>1. p \in Sources /\ p = [f \in DOMAIN p |-> p[f]]
  BY InputAssumption DEF Sources
<1> QED BY <1>1, SourceFields, PayloadIs

(* A payload with an output merged into it is one.                         *)
LEMMA MergedIsPayload ==
  ASSUME NEW p \in Payloads, NEW out \in Sources
  PROVE  Merge(p, out) \in Payloads
PROOF
<1> DEFINE S == DOMAIN p \cup DOMAIN out
           m == Merge(p, out)
<1>1. PICK T \in SUBSET Field : p \in [T -> Value]
  BY DEF Payloads
<1>2. DOMAIN p \subseteq Field /\ \A f \in DOMAIN p : p[f] \in Value
  BY <1>1
<1>3. DOMAIN out \subseteq Field /\ \A f \in DOMAIN out : out[f] \in Value
  BY SourceFields
<1>4. m = [f \in S |-> IF f \in DOMAIN out THEN out[f] ELSE p[f]]
  BY DEF Merge
<1>5. m = [f \in S |-> m[f]] /\ S \subseteq Field /\ \A f \in S : m[f] \in Value
  BY <1>2, <1>3, <1>4
<1> HIDE DEF m, S
<1> QED BY <1>5, PayloadIs DEF m

LEMMA InitData == Init => DataInv
PROOF
<1> SUFFICES ASSUME Init PROVE DataInv
  OBVIOUS
<1>1. 0 \in Counters
  BY CounterRangeAssumption DEF Counters
<1>2. MapsInv /\ AnswersInv
  BY DEF Init, MapsInv, AnswersInv
<1>3. RotationInv
  BY <1>1 DEF Init, RotationInv
<1> QED BY <1>2, <1>3 DEF Init, DataInv, Unset

(* The maps stay payloads.                                                 *)
LEMMA NextMapsInv == AllInv /\ DataInv /\ [Next]_vars => MapsInv'
PROOF
<1> SUFFICES ASSUME AllInv, DataInv, [Next]_vars PROVE MapsInv'
  OBVIOUS
<1>1. CASE Execute
  <2>1. input \in Payloads
    BY InputIsPayload DEF AllInv, PayInv, HeapInv
  <2> QED BY <1>1, <2>1 DEF Execute, DataInv, MapsInv
<1>2. CASE maps' = maps
  BY <1>2 DEF DataInv, MapsInv
<1>3. ASSUME NEW c \in DOMAIN args, CompleteAndContinue(c) PROVE MapsInv'
  <2> DEFINE e == Append(c, 1)
             m == Merge(Payload(c), Output(c))
  <2>1. Payload(c) \in Payloads
    BY DEF AllInv, PayInv, HeapInv, DataInv, MapsInv, Payload
  <2>2. Posted(c) /\ wire[c].reply # NoReply /\ maps' = WithMerged(c, e)
    BY <1>3 DEF CompleteAndContinue, Responded, AllInv, WireInv
  <2>3. wf \in Workflows /\ Node(c).id \in NodeIDs(wf) /\ wire[c].reply \in Replies(Node(c).id)
    BY <2>2 DEF AllInv, IInv, TreeInv, Defined, DataInv, AnswersInv, Answers, Posted
  <2>4. Output(c) \in Sources
    BY <2>3, BodiesAre DEF Output
  <2>5. m \in Payloads
    BY <2>1, <2>4, MergedIsPayload
  <2> HIDE DEF m, e
  <2>6. \A a \in DOMAIN maps' : maps'[a] = m \/ (a \in DOMAIN maps /\ maps'[a] = maps[a])
    BY <2>2 DEF WithMerged, m
  <2> QED BY <2>5, <2>6 DEF DataInv, MapsInv
<1>4. ASSUME NEW c \in DOMAIN args, LinearStep(c) PROVE MapsInv'
  BY <1>2, <1>3, <1>4
     DEF LinearStep, NoWorkerFound, Dispatch, DispatchError, WorkerFailure, RejectOverwrite,
         CompleteTerminal, CompleteDangling, LinearReturn
<1>5. ASSUME NEW c \in DOMAIN args, FilterStep(c) PROVE MapsInv'
  BY <1>2, <1>5 DEF FilterStep, FilterFails, FilterNoHit, FilterSplit, FilterReturn,
                    JoinBranch, StartBranch
<1> QED BY <1>1, <1>2, <1>4, <1>5
        DEF Next, EngineStep, InvalidType, Finish, WorkerAnswers, vars

(* The replies stay those of their nodes.                                  *)
LEMMA NextAnswersInv == AllInv /\ DataInv /\ [Next]_vars => AnswersInv'
PROOF
<1> SUFFICES ASSUME AllInv, DataInv, [Next]_vars PROVE AnswersInv'
  OBVIOUS
<1>1. \A c \in DOMAIN wire : c \in DOMAIN args /\ Answers(c)' = Answers(c)
  BY NextKeeps DEF AllInv, PayInv, WireInv, Kept, Answers, Node
<1>2. CASE wire' = wire
  BY <1>1, <1>2 DEF DataInv, AnswersInv
<1>3. ASSUME NEW c \in DOMAIN args, Dispatch(c) PROVE AnswersInv'
  <2>1. /\ DOMAIN wire' = DOMAIN wire \cup {c} /\ wire'[c].reply = NoReply
        /\ wire'[c] = [url |-> wire'[c].url, parents |-> wire'[c].parents, posts |-> wire'[c].posts,
                     reply |-> wire'[c].reply]
        /\ \A d \in DOMAIN wire : d # c => wire'[d] = wire[d]
    BY <1>3 DEF Dispatch
  <2>2. NoReply \in Answers(c)'
    BY DEF Answers
  <2> QED BY <1>1, <2>1, <2>2 DEF DataInv, AnswersInv
<1>4. ASSUME NEW c \in DOMAIN wire, WorkerAnswers(c) PROVE AnswersInv'
  <2>1. PICK r \in Replies(Node(c).id) : wire' = [wire EXCEPT ![c].reply = r]
    BY <1>4 DEF WorkerAnswers
  <2>2. r \in Answers(c) /\ wire[c].reply \in Answers(c)
    BY DEF Answers, DataInv, AnswersInv
  <2>3. DOMAIN wire' = DOMAIN wire /\ \A d \in DOMAIN wire : d # c => wire'[d] = wire[d]
    BY <2>1
  <2>4. wire'[c] = [url |-> wire[c].url, parents |-> wire[c].parents, posts |-> wire[c].posts,
                      reply |-> r]
    <3>1. wire'[c] = [wire[c] EXCEPT !.reply = r]
      BY <2>1
    <3>2. wire[c] = [url |-> wire[c].url, parents |-> wire[c].parents, posts |-> wire[c].posts,
                 reply |-> wire[c].reply]
      BY DEF DataInv, AnswersInv
    <3> QED BY <3>1, <3>2
  <2>5. /\ wire'[c].reply = r
        /\ wire'[c] = [url |-> wire'[c].url, parents |-> wire'[c].parents, posts |-> wire'[c].posts,
                     reply |-> wire'[c].reply]
    BY <2>4
  <2> QED BY <1>1, <2>2, <2>3, <2>5 DEF DataInv, AnswersInv
<1>5. ASSUME NEW c \in DOMAIN args, LinearStep(c) PROVE AnswersInv'
  BY <1>2, <1>3, <1>5
     DEF LinearStep, NoWorkerFound, DispatchError, WorkerFailure, RejectOverwrite,
         CompleteTerminal, CompleteDangling, CompleteAndContinue, LinearReturn
<1>6. ASSUME NEW c \in DOMAIN args, FilterStep(c) PROVE AnswersInv'
  BY <1>2, <1>6 DEF FilterStep, FilterFails, FilterNoHit, FilterSplit, FilterReturn,
                    JoinBranch, StartBranch
<1> QED BY <1>2, <1>4, <1>5, <1>6 DEF Next, EngineStep, Execute, InvalidType, Finish, vars

(* The data stays within its types.                                        *)
LEMMA NextDataInv == AllInv /\ DataInv /\ [Next]_vars => DataInv'
PROOF
<1> SUFFICES ASSUME AllInv, DataInv, [Next]_vars PROVE DataInv'
  OBVIOUS
<1>1. MapsInv' /\ AnswersInv'
  BY NextMapsInv, NextAnswersInv
<1>2. ASSUME NEW c \in DOMAIN args, Dispatch(c) PROVE RotationInv'
  <2>1. CASE Known(Node(c).id)
    <3> DEFINE id == Node(c).id
    <3>1. id \in DOMAIN Handlers /\ next' = [next EXCEPT ![id] = Bump(@)]
      BY <1>2, <2>1 DEF Dispatch, Known
    <3> HIDE DEF id
    <3>2. next[id] \in Counters /\ next' = [next EXCEPT ![id] = Bump(next[id])]
      BY <3>1 DEF DataInv, RotationInv
    <3>3. Bump(next[id]) \in Counters
      BY <3>2, BumpStays
    <3> QED BY <3>2, <3>3 DEF DataInv, RotationInv
  <2>2. CASE ~ Known(Node(c).id)
    BY <1>2, <2>2 DEF Dispatch, DataInv, RotationInv
  <2> QED BY <2>1, <2>2
<1>3. ASSUME next' = next PROVE RotationInv'
  BY <1>3 DEF DataInv, RotationInv
<1>4. ASSUME NEW c \in DOMAIN args, LinearStep(c) PROVE RotationInv'
  BY <1>2, <1>3, <1>4
     DEF LinearStep, NoWorkerFound, Dispatch, DispatchError, WorkerFailure, RejectOverwrite,
         CompleteTerminal, CompleteDangling, CompleteAndContinue, LinearReturn
<1>5. ASSUME NEW c \in DOMAIN args, FilterStep(c) PROVE RotationInv'
  BY <1>3, <1>5 DEF FilterStep, FilterFails, FilterNoHit, FilterSplit, FilterReturn,
                    JoinBranch, StartBranch
<1>6. RotationInv'
  BY <1>3, <1>4, <1>5
     DEF Next, EngineStep, Execute, InvalidType, Finish, WorkerAnswers, vars
<1>7. Unset'
  <2>1. CASE result' = result
    BY <2>1 DEF DataInv, Unset, Final
  <2>2. CASE Execute
    <3>1. /\ ~ Final /\ result' = [result EXCEPT !.status = result'.status]
      BY <2>2 DEF Execute, AllInv, StartInv, Final
    <3> QED BY <3>1 DEF DataInv, Unset, AllInv, StartInv
  <2>3. CASE Finish
    BY <2>3 DEF Finish, Unset, Final, OverallStatus
  <2>4. ASSUME NEW c \in DOMAIN args, InvalidType(c) \/ LinearStep(c) \/ FilterStep(c)
        PROVE  result' = result
    BY <2>4, CallStepsAreLocal DEF AllInv, OnlyCall
  <2> QED BY <2>1, <2>2, <2>3, <2>4 DEF Next, EngineStep, WorkerAnswers, vars
<1> QED BY <1>1, <1>6, <1>7, StrictStays DEF DataInv

-----------------------------------------------------------------------------
(* The traces a call holds are of calls that were made.                    *)
LEMMA TracesOfCalls ==
  ASSUME AllInv, NEW c \in DOMAIN args PROVE exec[c].traces \in Seq(TraceType)
PROOF
<1> DEFINE ts == exec[c].traces
<1>1. ts \in Seq(TraceShape) /\ Traced(c)
  BY DEF AllInv, IInv, ExecInv, ExecShape, RunInv, CallOK
<1>2. ASSUME NEW k \in 1..Len(ts) PROVE ts[k] \in TraceType
  <2>1. ts[k] \in TraceShape /\ TraceThrough(ts[k], DecidedCalls, OkCalls)
    BY <1>1 DEF Traced
  <2>2. ts[k].nodes \in Seq(Seq(Nat)) /\ \A j \in 1..Len(ts[k].nodes) : ts[k].nodes[j] \in DOMAIN args
    BY <2>1 DEF TraceShape, TraceThrough, DecidedCalls
  <2>3. ts[k].nodes \in Seq(DOMAIN args)
    <3> DEFINE ns == ts[k].nodes
    <3> HIDE DEF ns
    <3>1. ns \in Seq(Seq(Nat)) /\ \A j \in 1..Len(ns) : ns[j] \in DOMAIN args
      BY <2>2 DEF ns
    <3>2. ns \in Seq(DOMAIN args)
      BY <3>1, ListOf
    <3> QED BY <3>2 DEF ns
  <2> QED BY <2>1, <2>3 DEF TraceShape, TraceType
<1> HIDE DEF ts
<1>3. ts \in Seq(TraceType)
  BY <1>1, <1>2
<1> QED BY <1>3 DEF ts

(* A call's own branches are edges of its node.                            *)
LEMMA CallTyped ==
  ASSUME AllInv, NEW c \in DOMAIN args PROVE exec[c] \in ExecType(c)
PROOF
<1>1. exec[c] \in ExecShape /\ c \in Seq(Nat)
  BY DEF AllInv, IInv, ExecInv, TreeInv
<1>2. exec[c].hits \subseteq 1..Len(Succ(c))
  BY DEF AllInv, IInv, ExecInv
<1>3. ASSUME NEW i \in exec[c].joined PROVE i \in 1..Len(Succ(c))
  <2>1. i \in Nat /\ Append(c, i) \in DOMAIN args
    BY <1>1, <1>3 DEF ExecShape, AllInv, RunInv, CallOK, Joined, PassedUp, Started
  <2>2. Append(c, i) # Root
    BY <1>1, <2>1, AppendProperties DEF Root
  <2>3. PICK d \in DOMAIN args, j \in Nat : Append(c, i) = Append(d, j) /\ j \in 1..Len(Succ(d))
    BY <2>1, <2>2 DEF AllInv, IInv, TreeInv, MadeBy
  <2>4. d = c /\ j = i
    BY <1>1, <2>1, <2>3, AddressInjective DEF AllInv, IInv, TreeInv
  <2> QED BY <2>3, <2>4
<1>4. exec[c].traces \in Seq(TraceType)
  BY TracesOfCalls
<1> QED BY <1>1, <1>2, <1>3, <1>4 DEF ExecShape, ExecType

(* Every variable of an execution stays within its type: in particular a   *)
(* payload has only fields and values that came in with the input or an    *)
(* answer, a slice stays within its backing array, and a trace names calls *)
(* that were made.                                                         *)
THEOREM EngineTypes == Spec => []TypeOK
PROOF
<1>1. AllInv /\ VerdictInv /\ ParentInv /\ DataInv => TypeOK
  <2> SUFFICES ASSUME AllInv, VerdictInv, ParentInv, DataInv PROVE TypeOK
    OBVIOUS
  <2>1. /\ wf \in Workflows /\ input \in Inputs /\ strict \in StrictModes
        /\ DOMAIN args \subseteq Seq(Nat) /\ DOMAIN exec = DOMAIN args
        /\ DOMAIN wire \subseteq DOMAIN args
    BY DEF AllInv, IInv, TreeInv, ExecInv, PayInv, HeapInv, WireInv, DataInv
  <2>2. ASSUME NEW c \in DOMAIN args
        PROVE  /\ Node(c) \in NodesOf(wf)
               /\ args[c].payload \in DOMAIN maps
               /\ args[c].parents.arr \in DOMAIN arrays
               /\ args[c].parents.len \in 0..Len(arrays[args[c].parents.arr])
               /\ exec[c] \in ExecType(c)
    <3>1. Node(c) \in NodesOf(wf)
      BY <2>1, NodesParsed DEF AllInv, IInv, TreeInv, Defined
    <3>2. args[c].payload \in DOMAIN maps
      BY DEF AllInv, PayInv, HeapInv
    <3>3. /\ args[c].parents.arr \in DOMAIN arrays
          /\ args[c].parents.len = Len(c)
          /\ Len(c) <= Len(arrays[args[c].parents.arr])
      BY DEF ParentInv, SliceOK
    <3>4. Len(c) \in Nat /\ Len(arrays[args[c].parents.arr]) \in Nat
      BY <2>1, <3>3, LenProperties DEF ParentInv, ArraysOK
    <3>5. args[c].parents.len \in 0..Len(arrays[args[c].parents.arr])
      BY <3>3, <3>4
    <3> QED BY <3>1, <3>2, <3>3, <3>5, CallTyped
  <2>3. \A a \in DOMAIN arrays : arrays[a] \in Seq(NodeIDs(wf) \cup {""})
    BY DEF ParentInv, ArraysOK, IdOrBlank, Blank
  <2>4. \A c \in DOMAIN wire : wire[c].reply \in Bodies \cup {NoReply}
    <3> TAKE c \in DOMAIN wire
    <3>1. Node(c).id \in NodeIDs(wf) /\ wire[c].reply \in Answers(c)
      BY <2>1 DEF AllInv, IInv, TreeInv, Defined, DataInv, AnswersInv
    <3> QED BY <2>1, <3>1, BodiesAre DEF Answers
  <2>5. result.traces \in Seq(TraceType)
    <3>1. CASE Final
      <4>1. Root \in DOMAIN args /\ result.traces = exec[Root].traces
        BY <3>1 DEF VerdictInv, AllInv, StartInv, Final
      <4> QED BY <4>1, TracesOfCalls
    <3>2. CASE ~ Final
      <4>1. result.traces = <<>>
        BY <3>2 DEF DataInv, Unset
      <4>2. \A S : <<>> \in Seq(S)
        OBVIOUS
      <4> QED BY <4>1, <4>2
    <3> QED BY <3>1, <3>2
  <2>6. result.status \in CallStatus \cup {"none", "error"}
    BY DEF AllInv, StartInv
  <2> QED BY <2>1, <2>2, <2>3, <2>4, <2>5, <2>6 DEF TypeOK, DataInv, MapsInv, RotationInv
<1>2. Init => VerdictInv /\ ParentInv /\ DataInv
  <2>1. Init => VerdictInv
    BY DEF Init, VerdictInv, Final
  <2> QED BY <2>1, InitParents, InitData
<1> QED BY AllHolds, NextVerdict, NextParents, NextDataInv, <1>1, <1>2, PTL DEF Spec

-----------------------------------------------------------------------------
(* What a definition has that passes validation, as far as an execution    *)
(* asks: a start, known types, and a node for each successor.              *)
LEMMA AcceptedDefinition ==
  ASSUME NEW w, ValidateWithSchema("go", w, NoSchema) = {}
  PROVE  /\ Defined(w, w.start)
         /\ \A n \in NodesOf(w) : n.type \in NodeTypes
         /\ \A n \in NodesOf(w) : \A i \in 1..Len(Successors(n)) : Defined(w, Successors(n)[i])
PROOF
<1>1. StartErrors(w) = {} /\ StructureErrors(w) = {} /\ ReferenceErrors(w) = {}
  BY DEF ValidateWithSchema
<1>2. Defined(w, w.start)
  BY <1>1 DEF StartErrors
<1>3. ASSUME NEW n \in NodesOf(w) PROVE n.type \in NodeTypes
  <2> SUFFICES ASSUME n.type \notin NodeTypes PROVE <<"type", n.id>> \in StructureErrors(w)
    BY <1>1
  <2> QED BY DEF StructureErrors
<1>4. ASSUME NEW n \in NodesOf(w), NEW i \in 1..Len(Successors(n)) PROVE Defined(w, Successors(n)[i])
  <2> DEFINE e == <<n.id, i, Successors(n)[i]>>
  <2>1. e \in Edges(w)
    BY DEF Edges
  <2>2. ~ Defined(w, e[3]) => <<"undefined", e[1], e[3]>> \in ReferenceErrors(w)
    <3> HIDE DEF e
    <3> QED BY <2>1 DEF ReferenceErrors
  <2> QED BY <1>1, <2>2
<1> QED BY <1>2, <1>3, <1>4

(* A call that fails, fails for none of the errors a definition can be     *)
(* blamed for: its type is known, somebody serves it, and what it leads to *)
(* is defined.                                                             *)
Blameless(ex) == \A c \in DOMAIN ex : ex[c].error \notin DefinitionErrors
RunsWell == Refused(wf) \/ ~ WorkersGiven \/ (result.status # "error" /\ Blameless(exec))

LEMMA ServedAndDefined ==
  ASSUME IInv, RotationInv, WorkersGiven, ~ Refused(wf), NEW c \in DOMAIN args
  PROVE  /\ Node(c).type \in NodeTypes
         /\ Linear(c) => WorkerFor(Node(c)) # NoWorker
         /\ Linear(c) /\ Node(c).next # NoNode => Defined(wf, Node(c).next)
         /\ Filter(c) => \A i \in Branches(c) : Defined(wf, Node(c).branches[i].next)
PROOF
<1>1. Node(c) \in NodesOf(wf)
  BY NodesParsed DEF IInv, TreeInv, Defined
<1>2. ValidateWithSchema("go", wf, NoSchema) = {} /\ Unserved(wf) = {}
  BY DEF Refused
<1>3. /\ Node(c).type \in NodeTypes
      /\ \A i \in 1..Len(Succ(c)) : Defined(wf, Succ(c)[i])
  BY <1>1, <1>2, AcceptedDefinition DEF Succ
<1>4. ASSUME Linear(c) PROVE WorkerFor(Node(c)) # NoWorker
  <2> DEFINE id == Node(c).id
             urls == Handlers[id]
  <2>1. Known(id)
    <3> SUFFICES ASSUME ~ Known(id) PROVE id \in Unserved(wf)
      BY <1>2
    <3>1. Node(c).type # "filter"
      BY <1>4 DEF Linear, LinearTypes
    <3> QED BY <1>1, <3>1 DEF Unserved
  <2>2. id \in DOMAIN Handlers /\ urls # <<>> /\ IsList(urls)
    BY <2>1, EngineAssumption DEF Known
  <2>3. next[id] \in Nat
    BY <2>2, CounterRangeAssumption DEF RotationInv, Counters
  <2>4. Len(urls) \in Nat /\ Len(urls) > 0
    <3>1. \E S : urls \in Seq(S)
      BY <2>2 DEF IsList
    <3> HIDE DEF urls
    <3> QED BY <2>2, <3>1, EmptySeq, LenProperties
  <2>5. (next[id] % Len(urls)) + 1 \in 1..Len(urls)
    <3> HIDE DEF urls, id
    <3> QED BY <2>3, <2>4
  <2>6. Pick(urls, next[id]) # NoWorker
    BY <2>2, <2>5, CliAssumption DEF Pick
  <2> QED BY <2>1, <2>6 DEF WorkerFor
<1>5. ASSUME Linear(c), Node(c).next # NoNode PROVE Defined(wf, Node(c).next)
  <2>1. Succ(c) = <<Node(c).next>>
    BY <1>5 DEF Succ, Successors, Linear, LinearTypes
  <2> QED BY <1>3, <2>1
<1>6. ASSUME Filter(c), NEW i \in Branches(c) PROVE Defined(wf, Node(c).branches[i].next)
  <2>1. Succ(c) = [k \in 1..Len(Node(c).branches) |-> Node(c).branches[k].next]
    BY <1>6 DEF Succ, Successors, Filter
  <2>2. Len(Node(c).branches) \in Nat
    BY <1>1, NodesParsed DEF IInv, TreeInv
  <2>3. Len(Succ(c)) = Len(Node(c).branches) /\ Succ(c)[i] = Node(c).branches[i].next
    BY <1>6, <2>1, <2>2 DEF Branches
  <2> QED BY <1>3, <1>6, <2>3 DEF Branches
<1> QED BY <1>3, <1>4, <1>5, <1>6

LEMMA CallsAreBlameless ==
  ASSUME IInv, RotationInv, WorkersGiven, ~ Refused(wf), Blameless(exec),
         NEW c \in DOMAIN args, InvalidType(c) \/ LinearStep(c) \/ FilterStep(c)
  PROVE  Blameless(exec')
PROOF
<1> DEFINE Fine(e) == e \notin DefinitionErrors
<1>1. /\ Fine("none") /\ Fine("DISPATCH_ERROR") /\ Fine("WORKER_ERROR")
      /\ Fine("MONOTONICITY_VIOLATION") /\ Fine("CONDITION_ERROR")
  BY DEF DefinitionErrors
<1>2. DOMAIN exec = DOMAIN args /\ Fine(exec[c].error) /\ Entered.error = "none"
  BY DEF IInv, ExecInv, Blameless, Entered
<1>3. exec[c] = [pc |-> exec[c].pc, status |-> exec[c].status, error |-> exec[c].error,
                 hits |-> exec[c].hits, joined |-> exec[c].joined, traces |-> exec[c].traces]
  BY DEF IInv, ExecInv, ExecShape
<1>4. ASSUME NEW x, x.error = exec[c].error, exec' = [exec EXCEPT ![c] = x] PROVE Blameless(exec')
  BY <1>2, <1>4 DEF Blameless
<1>5. ASSUME NEW s, NEW e, NEW t, Fine(e), exec' = [exec EXCEPT ![c] = Returned(@, c, s, e, t)]
      PROVE  Blameless(exec')
  <2>1. exec'[c].error = e
    <3>1. exec[c] \in ExecShape
      BY DEF IInv, ExecInv
    <3>2. Returned(exec[c], c, s, e, t).error = e
      BY <3>1 DEF Returned, ExecShape
    <3> QED BY <1>2, <1>5, <3>2
  <2> QED BY <1>2, <1>5, <2>1 DEF Blameless
<1>6. ASSUME NEW s, NEW e, Fine(e), Fails(c, s, e) PROVE Blameless(exec')
  BY <1>5, <1>6 DEF Fails
<1>7. ~ InvalidType(c) /\ ~ NoWorkerFound(c) /\ ~ CompleteDangling(c)
  <2>1. CompleteDangling(c) => Linear(c)
    BY DEF CompleteDangling, Responded, IInv, ExecInv
  <2> QED BY <2>1, ServedAndDefined DEF InvalidType, NoWorkerFound, CompleteDangling
<1>8. CASE LinearStep(c)
  <2>1. CASE DispatchError(c) \/ WorkerFailure(c) \/ RejectOverwrite(c)
    BY <1>1, <1>6, <2>1 DEF DispatchError, WorkerFailure, RejectOverwrite
  <2>2. CASE CompleteTerminal(c)
    <3>1. Fine(Warning(c))
      BY <1>1 DEF Warning
    <3> HIDE DEF Fine
    <3> QED BY <1>5, <2>2, <3>1 DEF CompleteTerminal
  <2>3. CASE Dispatch(c) \/ LinearReturn(c)
    BY <1>3, <1>4, <2>3 DEF Dispatch, LinearReturn
  <2>4. CASE CompleteAndContinue(c)
    <3>1. Fine(Warning(c))
      BY <1>1 DEF Warning
    <3> DEFINE ex == WithCall(exec, c, 1)
    <3>2. exec' = [ex EXCEPT ![c].pc = "called", ![c].status = "completed", ![c].error = Warning(c)]
      BY <2>4 DEF CompleteAndContinue
    <3>3. c \in Seq(Nat) /\ c # Append(c, 1)
      <4>1. c \in Seq(Nat)
        BY DEF IInv, TreeInv
      <4> QED BY <4>1, AppendProperties
    <3>4. c \in DOMAIN ex /\ ex[c] = exec[c] /\ \A d \in DOMAIN ex : Fine(ex[d].error)
      BY <1>1, <1>2, <3>3 DEF Blameless, WithCall
    <3>5. ex = [d \in DOMAIN ex |-> ex[d]]
      BY DEF WithCall
    <3>6. \A d \in DOMAIN exec' : exec'[d].error = IF d = c THEN Warning(c) ELSE ex[d].error
      <4> HIDE DEF ex
      <4> QED BY <1>3, <3>2, <3>4, <3>5
    <3> QED BY <3>1, <3>2, <3>4, <3>6 DEF Blameless
  <2> QED BY <1>7, <1>8, <2>1, <2>2, <2>3, <2>4 DEF LinearStep
<1>9. CASE FilterStep(c)
  <2>1. CASE FilterFails(c)
    <3>1. PICK i \in Stops(c) : Fails(c, "failed", Verdict(c, i))
      BY <2>1 DEF FilterFails
    <3>2. i \in Branches(c) /\ Filter(c)
      BY <2>1, <3>1 DEF FilterFails, Stops
    <3>3. Defined(wf, Node(c).branches[i].next)
      BY <3>2, ServedAndDefined
    <3>4. Verdict(c, i) = "CONDITION_ERROR"
      BY <3>1, <3>3 DEF Stops, Verdict
    <3> QED BY <1>1, <1>6, <3>1, <3>4
  <2>2. CASE FilterNoHit(c)
    BY <1>1, <1>5, <2>2 DEF FilterNoHit
  <2>3. CASE FilterSplit(c) \/ FilterReturn(c)
    BY <1>3, <1>4, <2>3 DEF FilterSplit, FilterReturn
  <2>4. ASSUME NEW i \in exec[c].hits, StartBranch(c, i) PROVE Blameless(exec')
    BY <1>1, <1>2, <2>4 DEF StartBranch, WithCall, Blameless
  <2>5. ASSUME NEW i \in exec[c].hits, JoinBranch(c, i) PROVE Blameless(exec')
    BY <1>3, <1>4, <2>5 DEF JoinBranch
  <2> QED BY <1>9, <2>1, <2>2, <2>3, <2>4, <2>5 DEF FilterStep
<1> QED BY <1>7, <1>8, <1>9

LEMMA NextRunsWell == IInv /\ StartInv /\ RotationInv /\ RunsWell /\ [Next]_vars => RunsWell'
PROOF
<1> SUFFICES ASSUME IInv, StartInv, RotationInv, RunsWell, [Next]_vars PROVE RunsWell'
  OBVIOUS
<1>1. wf' = wf
  BY DEF Next, EngineStep, Execute, InvalidType, Finish, WorkerAnswers, vars, LinearStep, FilterStep,
         NoWorkerFound, Dispatch, DispatchError, WorkerFailure, RejectOverwrite, CompleteTerminal,
         CompleteDangling, CompleteAndContinue, LinearReturn, FilterFails, FilterNoHit, FilterSplit,
         FilterReturn, JoinBranch, StartBranch
<1>2. Refused(wf)' <=> Refused(wf)
  BY <1>1 DEF Refused, ValidateWithSchema
<1>3. CASE Refused(wf) \/ ~ WorkersGiven
  BY <1>2, <1>3 DEF RunsWell
<1>4. CASE ~ Refused(wf) /\ WorkersGiven
  <2>1. result.status # "error" /\ Blameless(exec)
    BY <1>4 DEF RunsWell
  <2>2. CASE Execute
    <3>1. Defined(wf, wf.start)
      BY <1>4, AcceptedDefinition DEF Refused
    <3>2. exec' = [a \in {Root} |-> Entered] /\ result'.status = "running"
      BY <2>2, <3>1 DEF Execute, StartInv
    <3> QED BY <3>2 DEF RunsWell, Blameless, Entered, DefinitionErrors
  <2>3. ASSUME NEW c \in DOMAIN args, InvalidType(c) \/ LinearStep(c) \/ FilterStep(c)
        PROVE  RunsWell'
    <3>1. result' = result
      BY <2>3, CallStepsAreLocal DEF OnlyCall
    <3>2. Blameless(exec')
      BY <1>4, <2>1, <2>3, CallsAreBlameless
    <3> QED BY <2>1, <3>1, <3>2 DEF RunsWell, Blameless
  <2>4. CASE Finish
    BY <2>1, <2>4 DEF Finish, RunsWell, OverallStatus, Blameless
  <2>5. CASE result' = result /\ exec' = exec
    BY <2>1, <2>5 DEF RunsWell, Blameless
  <2> QED BY <2>2, <2>3, <2>4, <2>5 DEF Next, EngineStep, WorkerAnswers, vars
<1> QED BY <1>3, <1>4

(* What `steppr run` executes under --workers after its checks fails, if   *)
(* at all, for what workers answer or conditions meet, whatever the        *)
(* workflow, the workers and the order of their answers.                   *)
THEOREM CheckedRunsAreBlameless == Spec => []CheckedRunsFailAtWorkers
PROOF
<1>1. IInv /\ RunsWell => CheckedRunsFailAtWorkers
  BY DEF RunsWell, Blameless, CheckedRunsFailAtWorkers, IInv, ExecInv
<1>2. Init => RunsWell
  BY DEF Init, RunsWell, Blameless
<1>3. AllInv => IInv /\ StartInv
  BY DEF AllInv
<1>4. Init => VerdictInv /\ DataInv
  BY InitData DEF Init, VerdictInv, Final
<1>5. DataInv => RotationInv
  BY DEF DataInv
<1> QED BY AllHolds, NextDataInv, NextRunsWell, <1>1, <1>2, <1>3, <1>4, <1>5, PTL DEF Spec
=============================================================================
