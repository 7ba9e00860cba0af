--------------------------- MODULE TsEngineProofs ---------------------------
(***************************************************************************)
(* Proofs about TsEngine, for any definitions, inputs, workers, handlers   *)
(* and orders of answers: first the calls and their returns, then what it  *)
(* makes of the answers it is given, that the verdict can be trusted, that *)
(* payloads are those of their lineage, and that it runs workflows as      *)
(* WorkflowRun does.                                                       *)
(***************************************************************************)
EXTENDS TsEngineProperties, WorkflowProofs, FunctionTheorems

CallStatus == {"running", "completed", "failed"}
ErrorCode  == {"none", "NO_WORKER", "DISPATCH_ERROR", "WORKER_ERROR", "MONOTONICITY_VIOLATION",
               "MISSING_NODE", "CONDITION_ERROR"}
TraceShape == [nodes : Seq(Seq(Nat)), status : {"completed", "failed"}]
ExecShape ==
  [pc : {"ready", "await", "called", "done", "threw"}, status : CallStatus, error : ErrorCode,
   hits : SUBSET Nat, traces : Seq(TraceShape)]

Ok(c)      == exec[c].status = "completed" /\ exec[c].error = "none"
Decided(c) == exec[c].pc \in {"called", "done"}

(* The calls form a tree, in which calls have children once they went on.  *)
CallsInv ==
  /\ wf \in Workflows
  /\ DOMAIN args \subseteq Seq(Nat)
  /\ exec \in [DOMAIN args -> ExecShape]
  /\ \A c \in DOMAIN args :
       /\ Node(c) \in NodesOf(wf)
       /\ c = Root \/ \E d \in DOMAIN args : \E i \in exec[d].hits : c = Append(d, i)
       /\ \A i \in exec[c].hits : i \in 1..Len(Succ(c)) /\ Append(c, i) \in DOMAIN args
       /\ ~ Decided(c) => /\ exec[c].status = "running" /\ exec[c].error = "none"
                          /\ exec[c].hits = {} /\ exec[c].traces = <<>>
       /\ exec[c].pc = "called" => Ok(c)
       /\ exec[c].pc = "await" => ~ Filter(c)

-----------------------------------------------------------------------------
LEMMA NodesParsed ==
  ASSUME NEW w \in Workflows
  PROVE  /\ \A id \in NodeIDs(w) : NodeMap(w)[id] \in NodesOf(w) /\ NodeMap(w)[id].id = id
         /\ \A n \in NodesOf(w) : Len(n.branches) \in Nat /\ n.id \in NodeIDs(w)
BY ParsedNodes, TsEngineAssumption

LEMMA EnteredIs ==
  /\ Entered \in ExecShape /\ Entered.pc = "ready" /\ Entered.status = "running"
  /\ Entered.error = "none" /\ Entered.hits = {} /\ Entered.traces = <<>>
BY DEF Entered, ExecShape, CallStatus, ErrorCode

LEMMA CallShapes ==
  ASSUME CallsInv, NEW c \in DOMAIN args
  PROVE  /\ DOMAIN exec = DOMAIN args /\ exec[c] \in ExecShape /\ c \in Seq(Nat)
         /\ Node(c) \in NodesOf(wf) /\ Len(Node(c).branches) \in Nat /\ Node(c).id \in NodeIDs(wf)
         /\ Len(Succ(c)) \in Nat /\ ~ Filter(c) => Len(Succ(c)) <= 1
PROOF
<1>1. /\ DOMAIN exec = DOMAIN args /\ exec[c] \in ExecShape /\ c \in Seq(Nat)
      /\ Node(c) \in NodesOf(wf) /\ wf \in Workflows
  BY DEF CallsInv
<1>2. Len(Node(c).branches) \in Nat /\ Node(c).id \in NodeIDs(wf)
  BY <1>1, NodesParsed
<1>3. Len(Succ(c)) \in Nat /\ ~ Filter(c) => Len(Succ(c)) <= 1
  BY <1>2 DEF Succ, Successors, Filter
<1> QED BY <1>1, <1>2, <1>3

-----------------------------------------------------------------------------
(* The steps of a call, by what they do to the tree of calls.              *)
CallStep(c) ==
  \/ NoWorkerFound(c) \/ Post(c) \/ FilterFails(c) \/ FilterNoHit(c)
  \/ FilterSplit(c) \/ Resolves(c) \/ ConnectionFails(c)
  \/ \E o \in Outcomes :
       DispatchError(c, o) \/ MergeThrows(c, o) \/ WorkerFailure(c, o)
         \/ RejectOverwrite(c, o) \/ CompleteTerminal(c, o)
         \/ CompleteDangling(c, o) \/ CompleteAndContinue(c, o)

Same == wf' = wf /\ input' = input /\ strict' = strict /\ found' = found /\ registry' = registry

Undecided(c) == exec[c].pc \in {"ready", "await"}

(* It is over, and never had children.                                     *)
Ends(c) ==
  /\ Undecided(c) /\ args' = args /\ result' = result
  /\ \E s \in CallStatus, e \in ErrorCode :
       exec' = [exec EXCEPT ![c] =
                  Returned(@, c, s, e, IF s = "completed" /\ e = "none" THEN "completed" ELSE "failed")]

(* It begins to wait for a worker, or for ever.                            *)
Stalls(c) ==
  /\ Undecided(c) /\ args' = args
  /\ \/ ~ Filter(c) /\ exec' = [exec EXCEPT ![c].pc = "await"] /\ result' = result
     \/ exec' = [exec EXCEPT ![c].pc = "threw"] /\ result' = [result EXCEPT !.status = "rejected"]

(* It succeeds, and calls some of its successors.                          *)
Opens(c, is, p) ==
  /\ Undecided(c) /\ result' = result
  /\ is # {} /\ is \subseteq 1..Len(Succ(c)) /\ \A i \in is : Defined(wf, Succ(c)[i])
  /\ Calls(c, is, p)
  /\ exec' = [WithCalls(exec, c, is) EXCEPT
                ![c].pc = "called", ![c].status = "completed", ![c].hits = is]

LEMMA SplitOpens ==
  ASSUME CallsInv, NEW c \in DOMAIN args, FilterSplit(c)
  PROVE  Opens(c, Hits(c), Payload(c))
PROOF
<1>1. /\ Succ(c) = [i \in 1..Len(Node(c).branches) |-> Node(c).branches[i].next]
      /\ Len(Node(c).branches) \in Nat
  BY CallShapes DEF FilterSplit, Filter, Succ, Successors
<1>2. Len(Succ(c)) = Len(Node(c).branches)
  BY <1>1
<1>3. \A i \in Hits(c) : Defined(wf, Succ(c)[i])
  <2> TAKE i \in Hits(c)
  <2>1. i \in 1..Len(Node(c).branches) /\ Verdict(c, i) = "hit"
    BY DEF Hits, Branches
  <2>2. Defined(wf, Node(c).branches[i].next)
    BY <2>1 DEF Verdict
  <2> QED BY <1>1, <2>1, <2>2
<1>4. Hits(c) \subseteq 1..Len(Succ(c))
  BY <1>2 DEF Hits, Branches
<1> QED BY <1>3, <1>4 DEF FilterSplit, Opens, Undecided, Enters, Ready

LEMMA ContinueOpens ==
  ASSUME NEW c \in DOMAIN args, NEW o, CompleteAndContinue(c, o), ~ Filter(c)
  PROVE  Opens(c, {1}, Merged(Payload(c), Body(c, o)))
PROOF
<1>1. Succ(c) = <<Node(c).next>> /\ Defined(wf, Node(c).next)
  BY DEF CompleteAndContinue, Succ, Successors, Filter
<1>2. Len(Succ(c)) = 1 /\ Succ(c)[1] = Node(c).next
  BY <1>1
<1> QED BY <1>1, <1>2 DEF CompleteAndContinue, Accepted, OK, Waits, Opens, Undecided

LEMMA StepKinds ==
  ASSUME CallsInv, NEW c \in DOMAIN args, CallStep(c)
  PROVE  /\ Same
         /\ Ends(c) \/ Stalls(c) \/ (\E is, p : Opens(c, is, p)) \/ Resolves(c)
PROOF
<1> USE DEF Undecided, Enters, Ready, Waits, OK, Request, Resolver
<1>1. DOMAIN exec = DOMAIN args /\ exec[c] \in ExecShape /\ Len(Node(c).branches) \in Nat
  BY CallShapes
<1>2. Same
  BY DEF CallStep, Same, NoWorkerFound, Post, FilterFails, FilterNoHit, FilterSplit, Resolves,
         ConnectionFails, DispatchError, MergeThrows, WorkerFailure, RejectOverwrite,
         CompleteTerminal, CompleteDangling, CompleteAndContinue
<1>3. ASSUME NEW s \in CallStatus, NEW e \in ErrorCode, Fails(c, s, e), ~ (s = "completed" /\ e = "none"),
             Undecided(c), args' = args, result' = result
      PROVE  Ends(c)
  BY <1>3 DEF Fails, Ends
<1>4. ASSUME exec' = [exec EXCEPT ![c] = Returned(@, c, "completed", "none", "completed")],
             Undecided(c), args' = args, result' = result
      PROVE  Ends(c)
  BY <1>4 DEF Ends, CallStatus, ErrorCode
<1>5. CASE NoWorkerFound(c)
  BY <1>2, <1>3, <1>5 DEF NoWorkerFound, CallStatus, ErrorCode
<1>6. CASE Post(c)
  BY <1>2, <1>6 DEF Post, Stalls
<1>7. CASE FilterFails(c)
  <2>1. PICK i \in Stops(c) : Fails(c, "failed", Verdict(c, i))
    BY <1>7 DEF FilterFails
  <2>2. Verdict(c, i) \in {"CONDITION_ERROR", "MISSING_NODE"}
    BY <2>1 DEF Stops
  <2> QED BY <1>2, <1>3, <1>7, <2>1, <2>2 DEF FilterFails, CallStatus, ErrorCode
<1>8. CASE FilterNoHit(c)
  BY <1>2, <1>4, <1>8 DEF FilterNoHit
<1>9. CASE FilterSplit(c)
  BY <1>2, <1>9, SplitOpens
<1>10. CASE ConnectionFails(c)
  BY <1>2, <1>3, <1>10 DEF ConnectionFails, CallStatus, ErrorCode
<1>11. ASSUME NEW o, DispatchError(c, o) PROVE Ends(c)
  BY <1>3, <1>11 DEF DispatchError, CallStatus, ErrorCode
<1>12. ASSUME NEW o, MergeThrows(c, o) PROVE Stalls(c)
  BY <1>12 DEF MergeThrows, Stalls
<1>13. ASSUME NEW o, WorkerFailure(c, o) PROVE Ends(c)
  BY <1>3, <1>13 DEF WorkerFailure, CallStatus, ErrorCode
<1>14. ASSUME NEW o, RejectOverwrite(c, o) PROVE Ends(c)
  BY <1>3, <1>14 DEF RejectOverwrite, CallStatus, ErrorCode
<1>15. ASSUME NEW o, CompleteTerminal(c, o) PROVE Ends(c)
  BY <1>4, <1>15 DEF CompleteTerminal, Accepted
<1>16. ASSUME NEW o, CompleteDangling(c, o) PROVE Ends(c)
  BY <1>3, <1>16 DEF CompleteDangling, Accepted, CallStatus, ErrorCode
<1>17. ASSUME NEW o, CompleteAndContinue(c, o), ~ Filter(c) PROVE \E is, p : Opens(c, is, p)
  BY <1>17, ContinueOpens
<1> QED
  BY <1>2, <1>5, <1>6, <1>7, <1>8, <1>9, <1>10, <1>11, <1>12, <1>13, <1>14, <1>15, <1>16, <1>17
     DEF CallStep, CallsInv, CompleteAndContinue, Accepted

-----------------------------------------------------------------------------
(* Below(c) is a recursive function: that it exists, and what is in it.    *)
Gathers(u, n, g) == u = [i \in 0..n |-> IF i = 0 THEN <<>> ELSE u[i - 1] \o g[i]]

LEMMA GatherExists ==
  ASSUME NEW n \in Nat, NEW g
  PROVE  \E u : Gathers(u, n, g)
PROOF
<1> DEFINE S == {m \in 0..n : ~ \E u : Gathers(u, m, g)}
<1> SUFFICES ASSUME S # {} PROVE FALSE
  OBVIOUS
<1>1. S \subseteq Nat
  OBVIOUS
<1>2. PICK m \in S : \A k \in S : m <= k
  BY <1>1, LeastNatural
<1>3. CASE m = 0
  <2> DEFINE v == [i \in 0..0 |-> <<>>]
  <2>1. Gathers(v, 0, g)
    <3>1. \A i \in 0..0 : i = 0
      OBVIOUS
    <3> QED BY <3>1 DEF Gathers
  <2> QED BY <1>2, <1>3, <2>1
<1>4. CASE m # 0
  <2>1. m \in Nat /\ m - 1 \in 0..n /\ m - 1 \notin S /\ m - 1 \in Nat
    BY <1>1, <1>2, <1>4
  <2>2. PICK u : Gathers(u, m - 1, g)
    BY <2>1
  <2> DEFINE v == [i \in 0..m |-> IF i = m THEN u[m - 1] \o g[m] ELSE u[i]]
  <2>3. Gathers(v, m, g)
    <3>1. u = [i \in 0..(m - 1) |-> IF i = 0 THEN <<>> ELSE u[i - 1] \o g[i]]
      BY <2>2 DEF Gathers
    <3>2. ASSUME NEW i \in 0..m
          PROVE  v[i] = IF i = 0 THEN <<>> ELSE v[i - 1] \o g[i]
      <4>1. CASE i = m
        BY <1>4, <2>1, <4>1
      <4>2. CASE i # m
        <5>1. i \in 0..(m - 1) /\ (i # 0 => i - 1 \in 0..m /\ i - 1 # m)
          BY <2>1, <4>2
        <5>2. u[i] = IF i = 0 THEN <<>> ELSE u[i - 1] \o g[i]
          BY <3>1, <5>1
        <5> QED BY <4>2, <5>1, <5>2
      <4> QED BY <4>1, <4>2
    <3> DEFINE w == [i \in 0..m |-> IF i = 0 THEN <<>> ELSE v[i - 1] \o g[i]]
    <3>3. v = w
      BY <3>2
    <3> HIDE DEF v
    <3> QED BY <3>3 DEF Gathers
  <2> QED BY <1>2, <2>3
<1> QED BY <1>3, <1>4

(* s holds the elements of the first k of the sequences g, and no others.  *)
Gathered(s, k, g, T) ==
  /\ s \in Seq(T)
  /\ \A j \in 1..Len(s) : \E i \in 1..k : \E l \in 1..Len(g[i]) : s[j] = g[i][l]
  /\ \A i \in 1..k : \A l \in 1..Len(g[i]) : \E j \in 1..Len(s) : s[j] = g[i][l]

LEMMA GatherIs ==
  ASSUME NEW T, NEW n \in Nat, NEW g, \A i \in 1..n : g[i] \in Seq(T),
         NEW u, Gathers(u, n, g)
  PROVE  \A k \in 0..n : Gathered(u[k], k, g, T)
PROOF
<1> DEFINE P(k) == Gathered(u[k], k, g, T)
           S == {k \in 0..n : ~ P(k)}
<1> SUFFICES ASSUME S # {} PROVE FALSE
  OBVIOUS
<1>1. PICK m \in S : \A k \in S : m <= k
  <2>1. S \subseteq Nat
    OBVIOUS
  <2> QED BY <2>1, LeastNatural
<1>2. m \in 0..n /\ ~ P(m)
  OBVIOUS
<1>3. \A k \in 0..n : u[k] = IF k = 0 THEN <<>> ELSE u[k - 1] \o g[k]
  BY DEF Gathers
<1>4. CASE m = 0
  <2>1. u[m] = <<>>
    BY <1>2, <1>3, <1>4
  <2>2. P(m)
    BY <2>1, <1>4 DEF Gathered
  <2> QED BY <1>2, <2>2
<1>5. CASE m # 0
  <2>1. m \in 1..n /\ m - 1 \in 0..n /\ P(m - 1)
    <3>1. m \in 1..n /\ m - 1 \in 0..n /\ m - 1 \notin S
      <4> HIDE DEF P, S
      <4>1. m \in 1..n /\ m - 1 \in 0..n /\ ~ (m <= m - 1)
        BY <1>2, <1>5
      <4> QED BY <1>1, <4>1
    <3> QED BY <3>1
  <2> DEFINE a == u[m - 1]
             b == g[m]
             s == u[m]
  <2>2. s = a \o b /\ a \in Seq(T) /\ b \in Seq(T)
    BY <1>2, <1>3, <1>5, <2>1 DEF Gathered
  <2>3. /\ \A j \in 1..Len(a) : \E i \in 1..(m - 1) : \E l \in 1..Len(g[i]) : a[j] = g[i][l]
        /\ \A i \in 1..(m - 1) : \A l \in 1..Len(g[i]) : \E j \in 1..Len(a) : a[j] = g[i][l]
    BY <2>1 DEF Gathered
  <2> HIDE DEF a, b, s
  <2>4. /\ s \in Seq(T) /\ Len(s) = Len(a) + Len(b) /\ Len(a) \in Nat /\ Len(b) \in Nat
        /\ \A j \in 1..Len(a) : s[j] = a[j]
        /\ \A j \in (Len(a) + 1)..(Len(a) + Len(b)) : s[j] = b[j - Len(a)]
    BY <2>2, ConcatProperties, LenProperties
  <2>5. ASSUME NEW j \in 1..Len(s)
        PROVE  \E i \in 1..m : \E l \in 1..Len(g[i]) : s[j] = g[i][l]
    <3>1. CASE j \in 1..Len(a)
      <4>1. PICK i \in 1..(m - 1) : \E l \in 1..Len(g[i]) : a[j] = g[i][l]
        BY <2>3, <3>1
      <4>2. i \in 1..m
        BY <2>1
      <4> QED BY <2>4, <3>1, <4>1, <4>2
    <3>2. CASE j \notin 1..Len(a)
      <4>1. j \in (Len(a) + 1)..(Len(a) + Len(b)) /\ j - Len(a) \in 1..Len(b)
        BY <2>4, <3>2
      <4>2. s[j] = g[m][j - Len(a)] /\ m \in 1..m
        BY <2>1, <2>4, <4>1 DEF b
      <4> QED BY <4>1, <4>2 DEF b
    <3> QED BY <3>1, <3>2
  <2>6. ASSUME NEW i \in 1..m, NEW l \in 1..Len(g[i])
        PROVE  \E j \in 1..Len(s) : s[j] = g[i][l]
    <3>1. CASE i = m
      <4>1. /\ Len(a) + l \in (Len(a) + 1)..(Len(a) + Len(b)) /\ Len(a) + l \in 1..Len(s)
            /\ (Len(a) + l) - Len(a) = l
        BY <2>4, <3>1 DEF b
      <4>2. s[Len(a) + l] = g[i][l]
        BY <2>4, <3>1, <4>1 DEF b
      <4> QED BY <4>1, <4>2
    <3>2. CASE i # m
      <4>1. i \in 1..(m - 1)
        BY <2>1, <3>2
      <4>2. PICK j \in 1..Len(a) : a[j] = g[i][l]
        BY <2>3, <4>1
      <4>3. j \in 1..Len(s) /\ s[j] = a[j]
        BY <2>4
      <4> QED BY <4>2, <4>3
    <3> QED BY <3>1, <3>2
  <2>7. P(m)
    BY <2>4, <2>5, <2>6 DEF s, Gathered
  <2> QED BY <1>2, <2>7
<1> QED BY <1>4, <1>5

(* What Below(c) gathers: the traces of the calls c made, by branch.       *)
TracesOf(c) ==
  [i \in 1..Len(Succ(c)) |-> IF i \in exec[c].hits THEN exec[Append(c, i)].traces ELSE <<>>]

LEMMA BelowGathers ==
  ASSUME CallsInv, NEW c \in DOMAIN args
  PROVE  /\ \A i \in 1..Len(Succ(c)) : TracesOf(c)[i] \in Seq(TraceShape)
         /\ \E u : Gathers(u, Len(Succ(c)), TracesOf(c)) /\ Below(c) = u[Len(Succ(c))]
PROOF
<1> DEFINE n == Len(Succ(c))
           g == [i \in 1..n |-> IF i \in exec[c].hits THEN exec[Append(c, i)].traces ELSE <<>>]
<1>1. n \in Nat
  BY CallShapes
<1>2. \A i \in exec[c].hits : i \in 1..n /\ exec[Append(c, i)].traces \in Seq(TraceShape)
  <2> TAKE i \in exec[c].hits
  <2>1. i \in 1..n /\ Append(c, i) \in DOMAIN args
    BY DEF CallsInv
  <2> QED BY <2>1, CallShapes DEF ExecShape
<1>3. \A i \in 1..n : g[i] \in Seq(TraceShape)
  BY <1>2
<1>4. \A u : u = [i \in 0..n |-> IF i = 0 THEN <<>>
                   ELSE u[i - 1] \o (IF i \in exec[c].hits THEN exec[Append(c, i)].traces ELSE <<>>)]
              <=> Gathers(u, n, g)
  <2> TAKE u
  <2>1. \A i \in 0..n : i # 0 =>
          g[i] = IF i \in exec[c].hits THEN exec[Append(c, i)].traces ELSE <<>>
    BY <1>1
  <2> HIDE DEF g, n
  <2> QED BY <2>1 DEF Gathers
<1>5. \E u : Gathers(u, n, g) /\ Below(c) = u[n]
  <2>1. \E u : Gathers(u, n, g)
    BY <1>1, GatherExists
  <2> HIDE DEF g
  <2> QED BY <1>4, <2>1 DEF Below
<1> QED BY <1>3, <1>5 DEF TracesOf

(* The traces below c are those of the calls it made.                      *)
LEMMA BelowIs ==
  ASSUME CallsInv, NEW c \in DOMAIN args
  PROVE  /\ Below(c) \in Seq(TraceShape)
         /\ \A j \in 1..Len(Below(c)) : \E i \in exec[c].hits :
              \E l \in 1..Len(exec[Append(c, i)].traces) : Below(c)[j] = exec[Append(c, i)].traces[l]
         /\ \A i \in exec[c].hits : \A l \in 1..Len(exec[Append(c, i)].traces) :
              \E j \in 1..Len(Below(c)) : Below(c)[j] = exec[Append(c, i)].traces[l]
PROOF
<1> DEFINE n == Len(Succ(c))
           g == TracesOf(c)
<1>1. n \in Nat
  BY CallShapes
<1>2. \A i \in exec[c].hits : i \in 1..n
  BY DEF CallsInv
<1>3. \A i \in 1..n : g[i] \in Seq(TraceShape)
  BY BelowGathers
<1>4. PICK u : Gathers(u, n, g) /\ Below(c) = u[n]
  BY BelowGathers
<1>5. \A i \in 1..n : /\ i \in exec[c].hits => g[i] = exec[Append(c, i)].traces
                      /\ i \notin exec[c].hits => g[i] = <<>>
  BY DEF TracesOf
<1> HIDE DEF g, n
<1>6. Gathered(u[n], n, g, TraceShape)
  <2>1. \A k \in 0..n : Gathered(u[k], k, g, TraceShape)
    BY <1>1, <1>3, <1>4, GatherIs
  <2> QED BY <1>1, <2>1
<1>8. \A i \in 1..n : \A l \in 1..Len(g[i]) : i \in exec[c].hits
  <2> SUFFICES ASSUME NEW i \in 1..n, i \notin exec[c].hits, NEW l \in 1..Len(g[i]) PROVE FALSE
    OBVIOUS
  <2>1. Len(g[i]) = 0
    BY <1>5
  <2> QED BY <2>1
<1> DEFINE b == Below(c)
<1>9. b = u[n]
  BY <1>4
<1> HIDE DEF b
<1>10. ASSUME NEW j \in 1..Len(b)
       PROVE  \E i \in exec[c].hits : \E l \in 1..Len(exec[Append(c, i)].traces) :
                b[j] = exec[Append(c, i)].traces[l]
  <2>1. PICK i \in 1..n : \E l \in 1..Len(g[i]) : b[j] = g[i][l]
    BY <1>6, <1>9 DEF Gathered
  <2>2. i \in exec[c].hits /\ g[i] = exec[Append(c, i)].traces
    BY <1>5, <1>8, <2>1
  <2> QED BY <2>1, <2>2
<1>11. ASSUME NEW i \in exec[c].hits, NEW l \in 1..Len(exec[Append(c, i)].traces)
       PROVE  \E j \in 1..Len(b) : b[j] = exec[Append(c, i)].traces[l]
  <2>1. i \in 1..n /\ g[i] = exec[Append(c, i)].traces
    BY <1>2, <1>5
  <2>2. l \in 1..Len(g[i])
    BY <2>1
  <2>3. \E j \in 1..Len(u[n]) : u[n][j] = g[i][l]
    BY <1>6, <2>1, <2>2 DEF Gathered
  <2>4. g[i][l] = exec[Append(c, i)].traces[l]
    BY <2>1
  <2> QED BY <1>9, <2>3, <2>4
<1> QED BY <1>6, <1>9, <1>10, <1>11 DEF b, Gathered

LEMMA TraceIs == \A ns, s : Trace(ns, s).nodes = ns /\ Trace(ns, s).status = s
BY DEF Trace

(* A trace with a node in front of it keeps its status and its last node.  *)
EndOf(t) == t.nodes[Len(t.nodes)]

LEMMA PrependedIs ==
  ASSUME NEW c \in Seq(Nat), NEW ts \in Seq(TraceShape)
  PROVE  /\ Prepended(c, ts) \in Seq(TraceShape) /\ Len(Prepended(c, ts)) = Len(ts)
         /\ \A k \in 1..Len(ts) :
              /\ Prepended(c, ts)[k].status = ts[k].status
              /\ Len(ts[k].nodes) >= 1 => /\ Len(Prepended(c, ts)[k].nodes) >= 1
                                          /\ EndOf(Prepended(c, ts)[k]) = EndOf(ts[k])
PROOF
<1> DEFINE P == Prepended(c, ts)
<1>1. /\ Len(P) = Len(ts) /\ Len(ts) \in Nat /\ DOMAIN P = 1..Len(ts)
      /\ \A k \in 1..Len(ts) : P[k] = Trace(<<c>> \o ts[k].nodes, ts[k].status)
  <2>1. Len(ts) \in Nat
    BY LenProperties
  <2> QED BY <2>1 DEF Prepended
<1>2. ASSUME NEW k \in 1..Len(ts)
      PROVE  /\ P[k] \in TraceShape /\ P[k].status = ts[k].status
             /\ Len(ts[k].nodes) >= 1 => Len(P[k].nodes) >= 1 /\ EndOf(P[k]) = EndOf(ts[k])
  <2> DEFINE ns == ts[k].nodes
             ms == <<c>> \o ns
             n  == Len(ns)
  <2>1. ts[k] \in TraceShape
    BY <1>1
  <2>2. ns \in Seq(Seq(Nat)) /\ n \in Nat /\ <<c>> \in Seq(Seq(Nat)) /\ Len(<<c>>) = 1
    BY <2>1, LenProperties DEF TraceShape
  <2>3. /\ ms \in Seq(Seq(Nat)) /\ Len(ms) = n + 1
        /\ \A j \in 2..(n + 1) : ms[j] = ns[j - 1]
    BY <2>2, ConcatProperties
  <2>4. P[k] = Trace(ms, ts[k].status)
    BY <1>1
  <2> HIDE DEF P, ms, n, ns
  <2>5. P[k].nodes = ms /\ P[k].status = ts[k].status /\ P[k] = [nodes |-> ms, status |-> ts[k].status]
    BY <2>4, TraceIs DEF Trace
  <2>6. P[k] \in TraceShape
    BY <2>1, <2>3, <2>5 DEF TraceShape
  <2>7. ASSUME n >= 1 PROVE ms[n + 1] = ns[n]
    <3>1. n + 1 \in 2..(n + 1) /\ (n + 1) - 1 = n
      BY <2>2, <2>7
    <3> QED BY <2>3, <3>1
  <2>8. n >= 1 => Len(P[k].nodes) >= 1 /\ P[k].nodes[Len(P[k].nodes)] = ns[n]
    BY <2>2, <2>3, <2>5, <2>7
  <2> QED BY <2>5, <2>6, <2>8 DEF EndOf, ns, n
<1> HIDE DEF P
<1>3. P \in Seq(TraceShape)
  <2>1. \A k \in 1..Len(ts) : Trace(<<c>> \o ts[k].nodes, ts[k].status) \in TraceShape
    BY <1>1, <1>2
  <2> QED BY <1>1, <2>1, IsASeq DEF P, Prepended
<1> QED BY <1>1, <1>2, <1>3 DEF P

-----------------------------------------------------------------------------
(* What a step of call c may do to the calls: move c, but not back, and    *)
(* begin the calls below it.                                               *)
StepOf(c) ==
  /\ Same
  /\ Undecided(c) \/ exec[c].pc = "called"
  /\ DOMAIN args \subseteq DOMAIN args'
  /\ \A d \in DOMAIN args : args'[d] = args[d] /\ (d # c => exec'[d] = exec[d])
  /\ \A d \in DOMAIN args' : d \notin DOMAIN args =>
       exec'[d] = Entered /\ \E i \in exec'[c].hits : d = Append(c, i)
  /\ Decided(c) => /\ exec'[c].pc = "done" /\ exec'[c].status = exec[c].status
                   /\ exec'[c].error = exec[c].error /\ exec'[c].hits = exec[c].hits

(* Only c moves, to x.                                                     *)
MovesTo(c, x) ==
  /\ args' = args /\ exec' = [exec EXCEPT ![c] = x]
  /\ x \in ExecShape /\ x.hits = exec[c].hits /\ x.pc # "called"
  /\ \/ Undecided(c)
     \/ /\ exec[c].pc = "called" /\ x.pc = "done"
        /\ x.status = exec[c].status /\ x.error = exec[c].error
  /\ x.pc # "done" => /\ x.status = "running" /\ x.error = "none"
                      /\ x.hits = {} /\ x.traces = <<>>
  /\ x.pc = "await" => ~ Filter(c)

LEMMA CallMoves ==
  ASSUME CallsInv, Same, NEW c \in DOMAIN args, NEW x, MovesTo(c, x)
  PROVE  CallsInv' /\ StepOf(c) /\ exec'[c] = x
PROOF
<1> USE DEF MovesTo
<1>1. exec \in [DOMAIN args -> ExecShape] /\ wf' = wf /\ args' = args
  BY DEF CallsInv, Same
<1>2. exec' \in [DOMAIN args -> ExecShape] /\ exec'[c] = x
      /\ \A d \in DOMAIN args : d # c => exec'[d] = exec[d]
  BY <1>1
<1>3. \A d \in DOMAIN args : exec'[d].hits = exec[d].hits
  BY <1>2
<1>4. StepOf(c)
  BY <1>2 DEF StepOf, Decided, Undecided
<1>5. ASSUME NEW d \in DOMAIN args
      PROVE  /\ args[d].node \in NodesOf(wf)
             /\ d = Root \/ \E a \in DOMAIN args : \E i \in exec'[a].hits : d = Append(a, i)
             /\ \A i \in exec'[d].hits : i \in 1..Len(Succ(d)) /\ Append(d, i) \in DOMAIN args
             /\ exec'[d].pc \notin {"called", "done"} =>
                  /\ exec'[d].status = "running" /\ exec'[d].error = "none"
                  /\ exec'[d].hits = {} /\ exec'[d].traces = <<>>
             /\ exec'[d].pc = "called" => exec'[d].status = "completed" /\ exec'[d].error = "none"
             /\ exec'[d].pc = "await" => ~ Filter(d)
  <2>1. /\ args[d].node \in NodesOf(wf)
        /\ d = Root \/ \E a \in DOMAIN args : \E i \in exec[a].hits : d = Append(a, i)
        /\ \A i \in exec[d].hits : i \in 1..Len(Succ(d)) /\ Append(d, i) \in DOMAIN args
    BY DEF CallsInv, Node
  <2>2. CASE d = c
    BY <1>2, <1>3, <2>1, <2>2
  <2>3. CASE d # c
    <3>1. exec'[d] = exec[d]
      BY <1>2, <2>3
    <3>2. /\ exec[d].pc \notin {"called", "done"} =>
               /\ exec[d].status = "running" /\ exec[d].error = "none"
               /\ exec[d].hits = {} /\ exec[d].traces = <<>>
          /\ exec[d].pc = "called" => exec[d].status = "completed" /\ exec[d].error = "none"
          /\ exec[d].pc = "await" => ~ Filter(d)
      BY DEF CallsInv, Decided, Ok
    <3>3. d = Root \/ \E a \in DOMAIN args : \E i \in exec'[a].hits : d = Append(a, i)
      BY <1>3, <2>1
    <3> QED BY <2>1, <3>1, <3>2, <3>3
  <2> QED BY <2>2, <2>3
<1>6. CallsInv'
  BY <1>1, <1>2, <1>5 DEF CallsInv, Node, Succ, Filter, Decided, Ok
<1> QED BY <1>2, <1>4, <1>6

LEMMA ReturnedIs ==
  ASSUME NEW e \in ExecShape, NEW c \in Seq(Nat), NEW s \in CallStatus, NEW r \in ErrorCode,
         NEW t \in {"completed", "failed"}
  PROVE  /\ Returned(e, c, s, r, t) \in ExecShape
         /\ Returned(e, c, s, r, t).pc = "done" /\ Returned(e, c, s, r, t).status = s
         /\ Returned(e, c, s, r, t).error = r /\ Returned(e, c, s, r, t).hits = e.hits
         /\ Returned(e, c, s, r, t).traces = <<Trace(<<c>>, t)>>
PROOF
<1>1. <<Trace(<<c>>, t)>> \in Seq(TraceShape)
  BY DEF TraceShape, Trace
<1> QED BY <1>1 DEF Returned, ExecShape

LEMMA EndsKeeps ==
  ASSUME CallsInv, Same, NEW c \in DOMAIN args, Ends(c)
  PROVE  /\ CallsInv' /\ StepOf(c) /\ exec'[c].pc = "done" /\ exec'[c].hits = {}
         /\ exec'[c].traces = <<Trace(<<c>>, IF Ok(c)' THEN "completed" ELSE "failed")>>
PROOF
<1>1. DOMAIN exec = DOMAIN args /\ exec[c] \in ExecShape /\ c \in Seq(Nat) /\ exec[c].hits = {}
      /\ Undecided(c) /\ args' = args
  BY CallShapes DEF Ends, CallsInv, Undecided, Decided
<1>2. PICK s \in CallStatus, e \in ErrorCode :
        exec' = [exec EXCEPT ![c] =
                   Returned(exec[c], c, s, e, IF s = "completed" /\ e = "none" THEN "completed" ELSE "failed")]
  BY DEF Ends
<1> DEFINE t == IF s = "completed" /\ e = "none" THEN "completed" ELSE "failed"
           x == Returned(exec[c], c, s, e, t)
<1>3. /\ x \in ExecShape /\ x.pc = "done" /\ x.status = s /\ x.error = e /\ x.hits = {}
      /\ x.traces = <<Trace(<<c>>, t)>>
  BY <1>1, ReturnedIs
<1>4. exec' = [exec EXCEPT ![c] = x]
  BY <1>2
<1> HIDE DEF x
<1>5. MovesTo(c, x)
  BY <1>1, <1>3, <1>4 DEF MovesTo
<1>6. CallsInv' /\ StepOf(c) /\ exec'[c] = x
  BY <1>5, CallMoves
<1> QED BY <1>3, <1>6 DEF Ok

LEMMA StallsKeeps ==
  ASSUME CallsInv, Same, NEW c \in DOMAIN args, Stalls(c)
  PROVE  CallsInv' /\ StepOf(c) /\ exec'[c].pc \in {"await", "threw"}
PROOF
<1>1. /\ DOMAIN exec = DOMAIN args /\ exec[c] \in ExecShape /\ Undecided(c) /\ args' = args
      /\ exec[c].status = "running" /\ exec[c].error = "none"
      /\ exec[c].hits = {} /\ exec[c].traces = <<>>
  BY CallShapes DEF Stalls, CallsInv, Undecided, Decided
<1>2. PICK p \in {"await", "threw"} :
        exec' = [exec EXCEPT ![c].pc = p] /\ (p = "await" => ~ Filter(c))
  BY DEF Stalls
<1> DEFINE x == [exec[c] EXCEPT !.pc = p]
<1>3. /\ x \in ExecShape /\ x.pc = p /\ x.status = exec[c].status /\ x.error = exec[c].error
      /\ x.hits = exec[c].hits /\ x.traces = exec[c].traces
  BY <1>1 DEF ExecShape
<1>4. exec' = [exec EXCEPT ![c] = x]
  BY <1>2
<1> HIDE DEF x
<1>5. MovesTo(c, x)
  BY <1>1, <1>2, <1>3, <1>4 DEF MovesTo
<1>6. CallsInv' /\ StepOf(c) /\ exec'[c] = x
  BY <1>5, CallMoves
<1> QED BY <1>3, <1>6

LEMMA ResolvesKeeps ==
  ASSUME CallsInv, Same, NEW c \in DOMAIN args, Resolves(c)
  PROVE  /\ CallsInv' /\ StepOf(c) /\ exec'[c].pc = "done"
         /\ exec'[c].traces = Prepended(c, Below(c))
PROOF
<1>1. DOMAIN exec = DOMAIN args /\ exec[c] \in ExecShape /\ c \in Seq(Nat)
  BY CallShapes
<1>2. exec[c].pc = "called" /\ args' = args
      /\ exec' = [exec EXCEPT ![c].pc = "done", ![c].traces = Prepended(c, Below(c))]
  BY DEF Resolves
<1>3. Prepended(c, Below(c)) \in Seq(TraceShape)
  BY <1>1, BelowIs, PrependedIs
<1> DEFINE ts == Prepended(c, Below(c))
           x == [exec[c] EXCEPT !.pc = "done", !.traces = ts]
<1> HIDE DEF ts
<1>4. /\ x \in ExecShape /\ x.pc = "done" /\ x.status = exec[c].status /\ x.error = exec[c].error
      /\ x.hits = exec[c].hits /\ x.traces = ts
  BY <1>1, <1>3 DEF ExecShape, ts
<1>5. exec' = [exec EXCEPT ![c] = x]
  BY <1>1, <1>2 DEF ts
<1> HIDE DEF x
<1>6. MovesTo(c, x)
  BY <1>1, <1>2, <1>4, <1>5 DEF MovesTo
<1>7. CallsInv' /\ StepOf(c) /\ exec'[c] = x
  BY <1>6, CallMoves
<1> QED BY <1>4, <1>7 DEF ts

(* A call that is undecided has no children yet.                           *)
LEMMA NoneBelow ==
  ASSUME CallsInv, NEW c \in DOMAIN args, ~ Decided(c), NEW i \in Nat
  PROVE  Append(c, i) \notin DOMAIN args
PROOF
<1> SUFFICES ASSUME Append(c, i) \in DOMAIN args PROVE FALSE
  OBVIOUS
<1>1. c \in Seq(Nat) /\ exec[c].hits = {}
  BY DEF CallsInv
<1>0. Append(c, i) # Root
  BY <1>1, AppendProperties DEF Root
<1>2. PICK d \in DOMAIN args : \E j \in exec[d].hits : Append(c, i) = Append(d, j)
  BY <1>0 DEF CallsInv
<1>3. PICK j \in exec[d].hits : Append(c, i) = Append(d, j)
  BY <1>2
<1>4. d \in Seq(Nat) /\ j \in Nat
  BY CallShapes DEF ExecShape
<1>5. d = c
  BY <1>1, <1>3, <1>4, AddressInjective
<1> QED BY <1>1, <1>3, <1>5

(* What there is when it has called them.                                  *)
Opened(c, is, p) ==
  /\ is \subseteq Nat /\ \A i \in is : Append(c, i) \notin DOMAIN args
  /\ DOMAIN args' = DOMAIN args \cup {Append(c, i) : i \in is}
  /\ \A d \in DOMAIN args : args'[d] = args[d]
  /\ \A i \in is : args'[Append(c, i)].node = Callee(c, i) /\ args'[Append(c, i)].payload = p
  /\ \A i \in is : Callee(c, i) \in NodesOf(wf)
  /\ DOMAIN exec' = DOMAIN args' /\ exec'[c] \in ExecShape
  /\ exec'[c].pc = "called" /\ exec'[c].status = "completed" /\ exec'[c].error = "none"
  /\ exec'[c].hits = is /\ exec'[c].traces = <<>>
  /\ \A d \in DOMAIN args : d # c => exec'[d] = exec[d]
  /\ \A i \in is : exec'[Append(c, i)] = Entered

LEMMA OpensIs ==
  ASSUME CallsInv, NEW c \in DOMAIN args, NEW is, NEW p, Opens(c, is, p)
  PROVE  Opened(c, is, p)
PROOF
<1>1. /\ DOMAIN exec = DOMAIN args /\ exec[c] \in ExecShape /\ c \in Seq(Nat) /\ Len(Succ(c)) \in Nat
      /\ wf \in Workflows
  BY CallShapes DEF CallsInv
<1>2. is \subseteq Nat /\ is \subseteq 1..Len(Succ(c)) /\ \A i \in is : Defined(wf, Succ(c)[i])
  BY <1>1 DEF Opens
<1>3. exec[c].hits = {} /\ exec[c].error = "none" /\ exec[c].traces = <<>> /\ ~ Decided(c)
  BY DEF Opens, CallsInv, Undecided, Decided
<1>4. \A i \in is : Append(c, i) \notin DOMAIN args
  BY <1>2, <1>3, NoneBelow
<1>5. \A i \in is : Append(c, i)[Len(Append(c, i))] = i
  BY <1>1, <1>2, AppendProperties
<1> DEFINE new == {Append(c, i) : i \in is}
<1>6. args' = [a \in DOMAIN args \cup new |->
                 IF a \in new THEN [node |-> Callee(c, a[Len(a)]), payload |-> p] ELSE args[a]]
  BY DEF Opens, Calls
<1>7. /\ DOMAIN args' = DOMAIN args \cup new
      /\ \A d \in DOMAIN args : args'[d] = args[d]
      /\ \A i \in is : args'[Append(c, i)].node = Callee(c, i) /\ args'[Append(c, i)].payload = p
  BY <1>4, <1>5, <1>6
<1>8. \A i \in is : Callee(c, i) \in NodesOf(wf)
  BY <1>1, <1>2, NodesParsed DEF Callee, Defined
<1> DEFINE f == WithCalls(exec, c, is)
<1>9. /\ DOMAIN f = DOMAIN args \cup new
      /\ \A d \in DOMAIN args : f[d] = exec[d]
      /\ \A i \in is : f[Append(c, i)] = Entered
  BY <1>1, <1>4 DEF WithCalls
<1>10. exec' = [f EXCEPT ![c].pc = "called", ![c].status = "completed", ![c].hits = is]
  BY DEF Opens
<1> HIDE DEF f
<1> DEFINE x == [exec[c] EXCEPT !.pc = "called", !.status = "completed", !.hits = is]
<1>11. /\ x \in ExecShape /\ x.pc = "called" /\ x.status = "completed" /\ x.error = "none"
       /\ x.hits = is /\ x.traces = <<>>
  BY <1>1, <1>2, <1>3 DEF ExecShape, CallStatus
<1>12. f[c] = exec[c] /\ c \in DOMAIN f
  BY <1>9
<1>13. exec' = [f EXCEPT ![c] = x]
  BY <1>10, <1>12
<1> HIDE DEF x
<1>14. DOMAIN exec' = DOMAIN f /\ exec'[c] = x /\ \A d \in DOMAIN f : d # c => exec'[d] = f[d]
  BY <1>12, <1>13
<1> HIDE DEF new
<1>15. \A i \in is : Append(c, i) # c /\ Append(c, i) \in DOMAIN f
  BY <1>4, <1>9 DEF new
<1> QED BY <1>2, <1>4, <1>7, <1>8, <1>9, <1>11, <1>14, <1>15 DEF new, Opened

LEMMA OpensKeeps ==
  ASSUME CallsInv, Same, NEW c \in DOMAIN args, NEW is, NEW p, Opens(c, is, p)
  PROVE  CallsInv' /\ StepOf(c)
PROOF
<1>1. /\ is \subseteq Nat /\ \A i \in is : Append(c, i) \notin DOMAIN args
      /\ DOMAIN args' = DOMAIN args \cup {Append(c, i) : i \in is}
      /\ \A d \in DOMAIN args : args'[d] = args[d]
      /\ \A i \in is : args'[Append(c, i)].node \in NodesOf(wf)
      /\ DOMAIN exec' = DOMAIN args' /\ exec'[c] \in ExecShape
      /\ exec'[c].pc = "called" /\ exec'[c].status = "completed" /\ exec'[c].error = "none"
      /\ exec'[c].hits = is /\ exec'[c].traces = <<>>
      /\ \A d \in DOMAIN args : d # c => exec'[d] = exec[d]
      /\ \A i \in is : exec'[Append(c, i)] = Entered
  <2>1. Opened(c, is, p)
    BY OpensIs
  <2> QED BY <2>1 DEF Opened
<1>2. wf' = wf /\ wf \in Workflows /\ exec \in [DOMAIN args -> ExecShape] /\ c \in Seq(Nat)
      /\ exec[c].hits = {} /\ ~ Decided(c) /\ is \subseteq 1..Len(Succ(c))
  BY DEF Same, CallsInv, Opens, Undecided, Decided
<1>3. StepOf(c)
  <2>1. \A d \in DOMAIN args' : d \notin DOMAIN args =>
          exec'[d] = Entered /\ \E i \in exec'[c].hits : d = Append(c, i)
    <3> SUFFICES ASSUME NEW d \in DOMAIN args', d \notin DOMAIN args
                 PROVE  exec'[d] = Entered /\ \E i \in is : d = Append(c, i)
      BY <1>1
    <3>1. PICK i \in is : d = Append(c, i)
      BY <1>1
    <3> QED BY <1>1, <3>1
  <2>2. Undecided(c)
    BY DEF Opens
  <2> QED BY <1>1, <1>2, <2>1, <2>2 DEF StepOf
<1>4. DOMAIN args' \subseteq Seq(Nat)
  <2>1. \A i \in is : Append(c, i) \in Seq(Nat)
    BY <1>1, <1>2, AppendProperties
  <2> SUFFICES ASSUME NEW d \in DOMAIN args' PROVE d \in Seq(Nat)
    OBVIOUS
  <2>2. CASE d \in DOMAIN args
    BY <2>2 DEF CallsInv
  <2>3. CASE d \notin DOMAIN args
    BY <1>1, <2>1, <2>3
  <2> QED BY <2>2, <2>3
<1>5. exec' \in [DOMAIN args' -> ExecShape]
  <2>1. \A d \in DOMAIN args' : exec'[d] \in ExecShape
    BY <1>1, <1>2, EnteredIs
  <2>2. exec' = [d \in DOMAIN exec' |-> exec'[d]]
    <3>1. exec' = [WithCalls(exec, c, is) EXCEPT
                ![c].pc = "called", ![c].status = "completed", ![c].hits = is]
      BY DEF Opens
    <3> QED BY <3>1
  <2> QED BY <1>1, <2>1, <2>2
<1>6. ASSUME NEW d \in DOMAIN args
      PROVE  /\ args'[d].node \in NodesOf(wf)
             /\ d = Root \/ \E a \in DOMAIN args' : \E i \in exec'[a].hits : d = Append(a, i)
             /\ \A i \in exec'[d].hits : i \in 1..Len(Succ(d)) /\ Append(d, i) \in DOMAIN args'
             /\ exec'[d].pc \notin {"called", "done"} =>
                  /\ exec'[d].status = "running" /\ exec'[d].error = "none"
                  /\ exec'[d].hits = {} /\ exec'[d].traces = <<>>
             /\ exec'[d].pc = "called" => exec'[d].status = "completed" /\ exec'[d].error = "none"
             /\ exec'[d].pc = "await" => ~ Filter(d)
  <2>1. /\ args[d].node \in NodesOf(wf)
        /\ d = Root \/ \E a \in DOMAIN args : \E i \in exec[a].hits : d = Append(a, i)
        /\ \A i \in exec[d].hits : i \in 1..Len(Succ(d)) /\ Append(d, i) \in DOMAIN args
    BY DEF CallsInv, Node
  <2>2. d = Root \/ \E a \in DOMAIN args' : \E i \in exec'[a].hits : d = Append(a, i)
    <3> SUFFICES ASSUME NEW a \in DOMAIN args, NEW i \in exec[a].hits, d = Append(a, i)
                 PROVE  \E b \in DOMAIN args' : \E j \in exec'[b].hits : d = Append(b, j)
      BY <2>1
    <3>1. a # c /\ a \in DOMAIN args' /\ exec'[a] = exec[a]
      BY <1>1, <1>2
    <3> QED BY <3>1
  <2>3. CASE d = c
    BY <1>1, <1>2, <2>1, <2>2, <2>3
  <2>4. CASE d # c
    <3>1. exec'[d] = exec[d] /\ args'[d] = args[d]
      BY <1>1, <2>4
    <3> QED BY <1>1, <2>1, <2>2, <3>1 DEF CallsInv, Decided, Ok
  <2> QED BY <2>3, <2>4
<1>7. ASSUME NEW i \in is
      PROVE  /\ args'[Append(c, i)].node \in NodesOf(wf)
             /\ \E a \in DOMAIN args' : \E j \in exec'[a].hits : Append(c, i) = Append(a, j)
             /\ exec'[Append(c, i)] = Entered
  BY <1>1
<1>8. CallsInv'
  <2> SUFFICES ASSUME NEW d \in DOMAIN args'
               PROVE  /\ args'[d].node \in NodesOf(wf)
                      /\ d = Root \/ \E a \in DOMAIN args' : \E i \in exec'[a].hits : d = Append(a, i)
                      /\ \A i \in exec'[d].hits : i \in 1..Len(Succ(d)') /\ Append(d, i) \in DOMAIN args'
                      /\ exec'[d].pc \notin {"called", "done"} =>
                           /\ exec'[d].status = "running" /\ exec'[d].error = "none"
                           /\ exec'[d].hits = {} /\ exec'[d].traces = <<>>
                      /\ exec'[d].pc = "called" => exec'[d].status = "completed" /\ exec'[d].error = "none"
                      /\ exec'[d].pc = "await" => ~ Filter(d)'
    BY <1>2, <1>4, <1>5 DEF CallsInv, Node, Decided, Ok
  <2>1. CASE d \in DOMAIN args
    <3>1. Succ(d)' = Succ(d) /\ Filter(d)' = Filter(d)
      BY <1>1, <2>1 DEF Succ, Filter, Node
    <3> QED BY <1>6, <2>1, <3>1
  <2>2. CASE d \notin DOMAIN args
    <3>1. PICK i \in is : d = Append(c, i)
      BY <1>1, <2>2
    <3> QED BY <1>7, <3>1, EnteredIs
  <2> QED BY <2>1, <2>2
<1> QED BY <1>3, <1>8

LEMMA CallStepKeeps ==
  ASSUME CallsInv, NEW c \in DOMAIN args, CallStep(c)
  PROVE  CallsInv' /\ StepOf(c)
BY StepKinds, EndsKeeps, StallsKeeps, OpensKeeps, ResolvesKeeps

LEMMA CallStepResult ==
  ASSUME CallsInv, NEW c \in DOMAIN args, CallStep(c)
  PROVE  \/ result' = result
         \/ exec'[c].pc = "threw" /\ result' = [result EXCEPT !.status = "rejected"]
PROOF
<1>1. CASE Ends(c) \/ (\E is, p : Opens(c, is, p)) \/ Resolves(c)
  BY <1>1 DEF Ends, Opens, Resolves
<1>2. CASE Stalls(c)
  BY <1>2, CallShapes DEF Stalls, ExecShape
<1> QED BY <1>1, <1>2, StepKinds

-----------------------------------------------------------------------------
(* The steps that are no steps of a call.                                  *)
LEMMA NextIs == Next => \/ Execute \/ Finish \/ DiscoverWorker \/ DiscoverFails
                        \/ \E c \in DOMAIN args : CallStep(c)
BY DEF Next, EngineStep, Answer, CallStep

Idles == wf' = wf /\ input' = input /\ strict' = strict /\ args' = args /\ exec' = exec
         /\ sent' = sent /\ got' = got

LEMMA OthersIdle == Finish \/ DiscoverWorker \/ DiscoverFails \/ UNCHANGED vars => Idles
BY DEF Finish, DiscoverWorker, DiscoverFails, vars, Idles, Request, Resolver

LEMMA ExecuteIs ==
  ASSUME Execute, args = <<>>
  PROVE  /\ wf' = wf /\ input' = input /\ strict' = strict /\ sent' = sent /\ got' = got
         /\ \/ /\ Defined(wf, wf.start) /\ DOMAIN args' = {Root} /\ DOMAIN exec' = {Root}
               /\ args'[Root] = [node |-> NodeMap(wf)[wf.start], payload |-> input]
               /\ exec'[Root] = Entered /\ exec' = [a \in {Root} |-> Entered]
               /\ result' = [result EXCEPT !.status = "running"]
            \/ /\ ~ Defined(wf, wf.start) /\ args' = args /\ exec' = exec
               /\ result' = [result EXCEPT !.status = "rejected"]
PROOF
<1>1. CASE Defined(wf, wf.start)
  BY <1>1 DEF Execute, Request, Resolver
<1>2. CASE ~ Defined(wf, wf.start)
  BY <1>2 DEF Execute, Request, Resolver
<1> QED BY <1>1, <1>2

-----------------------------------------------------------------------------
(* What result says of the tree of calls.                                  *)
Threw == \E c \in DOMAIN args : exec[c].pc = "threw"

ResultInv ==
  /\ result \in [status : {"none", "running", "completed", "failed", "rejected"},
                 traces : Seq(TraceShape)]
  /\ args = <<>> \/ Root \in DOMAIN args
  /\ result.status = "none" => args = <<>>
  /\ result.status = "running" \/ Final => Root \in DOMAIN args
  /\ Final => /\ exec[Root].pc = "done" /\ result.traces = exec[Root].traces
              /\ result.status = AllOK(exec[Root].traces)
  /\ result.status = "rejected" =>
       found < Len(WorkerURLs) \/ ~ Defined(wf, wf.start) \/ Threw

LEMMA InitCalls == Init => CallsInv
BY DEF Init, CallsInv

LEMMA NextCalls == CallsInv /\ ResultInv /\ [Next]_vars => CallsInv'
PROOF
<1> SUFFICES ASSUME CallsInv, ResultInv, [Next]_vars PROVE CallsInv'
  OBVIOUS
<1>1. CASE Execute
  <2>1. args = <<>> /\ DOMAIN args = {} /\ DOMAIN exec = {}
    BY <1>1 DEF Execute, ResultInv, CallsInv
  <2>2. CASE Defined(wf, wf.start)
    <3>1. /\ wf' = wf /\ DOMAIN args' = {Root} /\ args'[Root].node = NodeMap(wf)[wf.start]
          /\ exec' = [a \in {Root} |-> Entered]
      BY <1>1, <2>1, <2>2, ExecuteIs
    <3>2. NodeMap(wf)[wf.start] \in NodesOf(wf) /\ wf \in Workflows
      BY <2>2, NodesParsed DEF CallsInv, Defined
    <3>3. Root \in Seq(Nat)
      BY DEF Root
    <3> QED BY <3>1, <3>2, <3>3, EnteredIs DEF CallsInv, Node, Decided, Ok
  <2>3. CASE ~ Defined(wf, wf.start)
    <3>1. wf' = wf /\ args' = args /\ exec' = exec
      BY <1>1, <2>1, <2>3, ExecuteIs
    <3> QED BY <3>1 DEF CallsInv, Node, Succ, Filter, Decided, Ok
  <2> QED BY <2>2, <2>3
<1>2. CASE Idles
  BY <1>2 DEF Idles, CallsInv, Node, Succ, Filter, Decided, Ok
<1>3. CASE \E c \in DOMAIN args : CallStep(c)
  BY <1>3, CallStepKeeps
<1> QED BY <1>1, <1>2, <1>3, NextIs, OthersIdle

-----------------------------------------------------------------------------
(* What is known of each call.  Every trace it holds ends in a call that   *)
(* decides it; what it returned, those below it had returned, and a        *)
(* failure below it is passed up.                                          *)
HasFailed(c) == \E k \in 1..Len(exec[c].traces) : exec[c].traces[k].status = "failed"

DecidedCalls == {c \in DOMAIN args : Decided(c)}
OkCalls      == {c \in DOMAIN args : Ok(c)}
Good(t, decided, ok) ==
  /\ Len(t.nodes) >= 1 /\ EndOf(t) \in decided
  /\ t.status = "completed" <=> EndOf(t) \in ok
Traced(c) == \A k \in 1..Len(exec[c].traces) : Good(exec[c].traces[k], DecidedCalls, OkCalls)

PassedUp(c) ==
  /\ ~ Ok(c) => HasFailed(c)
  /\ \A i \in exec[c].hits : /\ exec[Append(c, i)].pc = "done"
                             /\ HasFailed(Append(c, i)) => HasFailed(c)
CallOK(c) == Traced(c) /\ (exec[c].pc = "done" => PassedUp(c))
RunInv == \A c \in DOMAIN args : CallOK(c)

LEMMA GoodStays ==
  ASSUME CallsInv, CallsInv', NEW c \in DOMAIN args, StepOf(c), NEW t, Good(t, DecidedCalls, OkCalls)
  PROVE  Good(t, DecidedCalls', OkCalls')
PROOF
<1>1. \A d \in DecidedCalls : d \in DecidedCalls' /\ (d \in OkCalls <=> d \in OkCalls')
  BY DEF StepOf, DecidedCalls, OkCalls, Decided, Ok
<1> QED BY <1>1 DEF Good

LEMMA OthersStayOK ==
  ASSUME CallsInv, CallsInv', RunInv, NEW c \in DOMAIN args, StepOf(c), CallOK(c)'
  PROVE  RunInv'
PROOF
<1> SUFFICES ASSUME NEW d \in DOMAIN args', d # c PROVE CallOK(d)'
  BY DEF RunInv
<1>1. CASE d \notin DOMAIN args
  <2>1. exec'[d].traces = <<>> /\ exec'[d].pc = "ready"
    BY <1>1, EnteredIs DEF StepOf
  <2> QED BY <2>1 DEF CallOK, Traced
<1>2. CASE d \in DOMAIN args
  <2>1. exec'[d] = exec[d] /\ CallOK(d)
    BY <1>2 DEF StepOf, RunInv
  <2>2. Traced(d)'
    BY <2>1, GoodStays DEF CallOK, Traced
  <2>3. ASSUME exec[d].pc = "done" PROVE PassedUp(d)'
    <3>1. PassedUp(d)
      BY <2>1, <2>3 DEF CallOK
    <3>2. ASSUME NEW i \in exec[d].hits
          PROVE  exec'[Append(d, i)] = exec[Append(d, i)]
      <4>1. Append(d, i) \in DOMAIN args /\ exec[Append(d, i)].pc = "done"
        BY <1>2, <3>1 DEF PassedUp, CallsInv
      <4>2. Append(d, i) # c
        BY <4>1 DEF StepOf, Undecided
      <4> QED BY <4>1, <4>2 DEF StepOf
    <3> QED BY <2>1, <3>1, <3>2 DEF PassedUp, HasFailed, Ok
  <2> QED BY <2>1, <2>2, <2>3 DEF CallOK
<1> QED BY <1>1, <1>2

LEMMA ResolvesOK ==
  ASSUME CallsInv, CallsInv', RunInv, NEW c \in DOMAIN args, StepOf(c), Resolves(c),
         exec'[c].pc = "done", exec'[c].traces = Prepended(c, Below(c))
  PROVE  CallOK(c)'
PROOF
<1>1. c \in Seq(Nat) /\ Below(c) \in Seq(TraceShape) /\ Ok(c)
      /\ exec[c].pc = "called" /\ args' = args
  BY CallShapes, BelowIs DEF CallsInv, Resolves
<1>2. Ok(c)' /\ exec'[c].hits = exec[c].hits
  BY <1>1 DEF StepOf, Decided, Ok
<1> DEFINE b == Below(c)
           p == Prepended(c, b)
<1>3. /\ Len(p) = Len(b)
      /\ \A k \in 1..Len(b) :
           /\ p[k].status = b[k].status
           /\ Len(b[k].nodes) >= 1 => Len(p[k].nodes) >= 1 /\ EndOf(p[k]) = EndOf(b[k])
  BY <1>1, PrependedIs
<1>4. /\ \A j \in 1..Len(b) : \E i \in exec[c].hits :
           \E l \in 1..Len(exec[Append(c, i)].traces) : b[j] = exec[Append(c, i)].traces[l]
      /\ \A i \in exec[c].hits : \A l \in 1..Len(exec[Append(c, i)].traces) :
           \E j \in 1..Len(b) : b[j] = exec[Append(c, i)].traces[l]
  BY BelowIs
<1>5. exec'[c].traces = p
  OBVIOUS
<1> HIDE DEF p, b
<1>6. ASSUME NEW k \in 1..Len(p) PROVE Good(p[k], DecidedCalls', OkCalls')
  <2>1. PICK i \in exec[c].hits : \E l \in 1..Len(exec[Append(c, i)].traces) :
          b[k] = exec[Append(c, i)].traces[l]
    BY <1>3, <1>4
  <2>2. Append(c, i) \in DOMAIN args
    BY DEF CallsInv
  <2>3. Good(b[k], DecidedCalls, OkCalls)
    BY <2>1, <2>2 DEF RunInv, CallOK, Traced
  <2>4. Good(b[k], DecidedCalls', OkCalls')
    BY <2>3, GoodStays
  <2> QED BY <1>3, <2>4 DEF Good
<1>7. \A i \in exec[c].hits :
        /\ exec'[Append(c, i)] = exec[Append(c, i)] /\ exec[Append(c, i)].pc = "done"
        /\ HasFailed(Append(c, i)) => \E k \in 1..Len(p) : p[k].status = "failed"
  <2> TAKE i \in exec[c].hits
  <2>1. exec[Append(c, i)].pc = "done" /\ Append(c, i) \in DOMAIN args
    BY DEF Resolves, AllDone, CallsInv
  <2>2. Append(c, i) # c
    BY <1>1, <2>1
  <2>3. ASSUME HasFailed(Append(c, i)) PROVE \E k \in 1..Len(p) : p[k].status = "failed"
    <3>1. PICK l \in 1..Len(exec[Append(c, i)].traces) : exec[Append(c, i)].traces[l].status = "failed"
      BY <2>3 DEF HasFailed
    <3>2. PICK j \in 1..Len(b) : b[j] = exec[Append(c, i)].traces[l]
      BY <1>4
    <3> QED BY <1>3, <3>1, <3>2
  <2> QED BY <2>1, <2>2, <2>3 DEF StepOf
<1>8. Traced(c)'
  BY <1>5, <1>6 DEF Traced
<1>9. PassedUp(c)'
  BY <1>2, <1>5, <1>7 DEF PassedUp, HasFailed
<1> QED BY <1>8, <1>9 DEF CallOK

LEMMA EndsOK ==
  ASSUME CallsInv, CallsInv', NEW c \in DOMAIN args, StepOf(c),
         exec'[c].pc = "done", exec'[c].hits = {},
         exec'[c].traces = <<Trace(<<c>>, IF Ok(c)' THEN "completed" ELSE "failed")>>
  PROVE  CallOK(c)'
PROOF
<1> DEFINE t == Trace(<<c>>, IF Ok(c)' THEN "completed" ELSE "failed")
<1>1. t.nodes = <<c>> /\ t.status = IF Ok(c)' THEN "completed" ELSE "failed"
  BY TraceIs
<1>2. Len(t.nodes) >= 1 /\ EndOf(t) = c
  <2>1. Len(<<c>>) = 1 /\ <<c>>[1] = c
    OBVIOUS
  <2> HIDE DEF t
  <2> QED BY <1>1, <2>1 DEF EndOf
<1>3. Len(exec'[c].traces) = 1 /\ exec'[c].traces[1] = t
  OBVIOUS
<1> HIDE DEF t
<1>4. c \in DecidedCalls' /\ (c \in OkCalls' <=> Ok(c)')
  BY DEF StepOf, DecidedCalls, OkCalls, Decided
<1>5. Good(t, DecidedCalls', OkCalls')
  BY <1>1, <1>2, <1>4 DEF Good
<1>6. Traced(c)'
  BY <1>3, <1>5 DEF Traced
<1>7. PassedUp(c)'
  BY <1>1, <1>3 DEF PassedUp, HasFailed
<1> QED BY <1>6, <1>7 DEF CallOK

LEMMA NextRun == CallsInv /\ ResultInv /\ RunInv /\ [Next]_vars => RunInv'
PROOF
<1> SUFFICES ASSUME CallsInv, ResultInv, RunInv, [Next]_vars PROVE RunInv'
  OBVIOUS
<1>0. CallsInv'
  BY NextCalls
<1>1. ASSUME NEW c \in DOMAIN args, CallStep(c) PROVE RunInv'
  <2>1. StepOf(c) /\ Same
    BY <1>1, CallStepKeeps, StepKinds
  <2>2. CASE Ends(c)
    BY <1>0, <2>1, <2>2, EndsKeeps, EndsOK, OthersStayOK
  <2>3. CASE Stalls(c) \/ \E is, p : Opens(c, is, p)
    <3>1. exec'[c].pc # "done" /\ exec'[c].traces = <<>> /\ c \in DOMAIN args'
      <4>1. CASE Stalls(c)
        BY <2>1, <4>1, StallsKeeps DEF CallsInv, StepOf, Decided
      <4>2. ASSUME NEW is, NEW p, Opens(c, is, p)
            PROVE  exec'[c].pc # "done" /\ exec'[c].traces = <<>> /\ c \in DOMAIN args'
        BY <4>2, OpensIs DEF Opened
      <4> QED BY <2>3, <4>1, <4>2
    <3>2. CallOK(c)'
      BY <3>1 DEF CallOK, Traced
    <3> QED BY <1>0, <2>1, <3>2, OthersStayOK
  <2>4. CASE Resolves(c)
    BY <1>0, <2>1, <2>4, ResolvesKeeps, ResolvesOK, OthersStayOK
  <2> QED BY <1>1, <2>2, <2>3, <2>4, StepKinds
<1>2. CASE Execute
  <2>1. args = <<>>
    BY <1>2 DEF Execute, ResultInv
  <2>2. \A c \in DOMAIN args' : exec'[c] = Entered
    <3>1. DOMAIN args = {}
      BY <2>1
    <3>2. \/ DOMAIN args' = {Root} /\ exec'[Root] = Entered
          \/ args' = args
      BY <1>2, <2>1, ExecuteIs
    <3> QED BY <3>1, <3>2
  <2> QED BY <2>2, EnteredIs DEF RunInv, CallOK, Traced
<1>3. CASE Idles
  <2>1. args' = args /\ exec' = exec
    BY <1>3 DEF Idles
  <2>2. DecidedCalls' = DecidedCalls /\ OkCalls' = OkCalls /\ \A c : HasFailed(c)' <=> HasFailed(c)
    BY <2>1 DEF DecidedCalls, OkCalls, Decided, Ok, HasFailed
  <2> SUFFICES ASSUME NEW c \in DOMAIN args PROVE CallOK(c)'
    BY <2>1 DEF RunInv
  <2>3. CallOK(c)
    BY DEF RunInv
  <2>4. Traced(c)' <=> Traced(c)
    BY <2>1, <2>2 DEF Traced
  <2>5. PassedUp(c)' <=> PassedUp(c)
    BY <2>1 DEF PassedUp, HasFailed, Ok
  <2> QED BY <2>1, <2>3, <2>4, <2>5 DEF CallOK
<1> QED BY <1>1, <1>2, <1>3, NextIs, OthersIdle

-----------------------------------------------------------------------------
(* Once the root call has returned all calls have, and their failures have *)
(* been passed up to it: the shortest address of which this is not true    *)
(* would be a child of one of which it is.                                 *)
LEMMA RootDone ==
  ASSUME CallsInv, RunInv, Root \in DOMAIN args, exec[Root].pc = "done"
  PROVE  /\ \A c \in DOMAIN args : exec[c].pc = "done"
         /\ HasFailed(Root) <=> \E c \in DOMAIN args : ~ Ok(c)
PROOF
<1> DEFINE Fine(c) == exec[c].pc = "done" /\ (HasFailed(c) => HasFailed(Root))
           S == {c \in DOMAIN args : ~ Fine(c)}
           T == {Len(c) : c \in S}
<1>1. \A c \in DOMAIN args : Fine(c)
  <2> SUFFICES ASSUME S # {} PROVE FALSE
    OBVIOUS
  <2>1. T \subseteq Nat /\ T # {}
    <3>1. \A c \in DOMAIN args : Len(c) \in Nat
      BY LenProperties DEF CallsInv
    <3> QED BY <3>1
  <2>2. PICK n \in T : \A m \in T : n <= m
    BY <2>1, LeastNatural
  <2>3. PICK c \in S : Len(c) = n
    OBVIOUS
  <2>4. c # Root
    <3>1. Fine(Root)
      OBVIOUS
    <3> QED BY <3>1
  <2>5. PICK d \in DOMAIN args : \E i \in exec[d].hits : c = Append(d, i)
    BY <2>4 DEF CallsInv
  <2>6. d \in Seq(Nat) /\ Len(d) \in Nat /\ exec[d].hits \subseteq Nat
    BY CallShapes, LenProperties DEF ExecShape
  <2>7. Len(c) = Len(d) + 1
    BY <2>5, <2>6, AppendProperties
  <2>8. d \notin S
    <3> SUFFICES ASSUME d \in S PROVE FALSE
      OBVIOUS
    <3>1. Len(d) \in T
      OBVIOUS
    <3> HIDE DEF T, S
    <3> QED BY <2>2, <2>3, <2>6, <2>7, <3>1
  <2>9. Fine(d)
    BY <2>8
  <2>10. exec[c].pc = "done" /\ (HasFailed(c) => HasFailed(d))
    BY <2>5, <2>9 DEF RunInv, CallOK, PassedUp
  <2>11. Fine(c)
    BY <2>9, <2>10
  <2> QED BY <2>11
<1>2. ASSUME NEW c \in DOMAIN args, ~ Ok(c) PROVE HasFailed(Root)
  <2>1. HasFailed(c)
    BY <1>1, <1>2 DEF RunInv, CallOK, PassedUp
  <2> QED BY <1>1, <2>1
<1>3. ASSUME HasFailed(Root) PROVE \E c \in DOMAIN args : ~ Ok(c)
  <2>1. PICK k \in 1..Len(exec[Root].traces) : exec[Root].traces[k].status = "failed"
    BY <1>3 DEF HasFailed
  <2>2. Good(exec[Root].traces[k], DecidedCalls, OkCalls)
    BY DEF RunInv, CallOK, Traced
  <2> QED BY <2>1, <2>2 DEF Good, DecidedCalls, OkCalls
<1> QED BY <1>1, <1>2, <1>3

LEMMA FinalIsStill ==
  CallsInv /\ ResultInv /\ RunInv /\ Final /\ Next => FALSE
PROOF
<1> SUFFICES ASSUME CallsInv, ResultInv, RunInv, Final, Next PROVE FALSE
  OBVIOUS
<1>1. \A c \in DOMAIN args : exec[c].pc = "done"
  BY RootDone DEF ResultInv
<1>2. ~ \E c \in DOMAIN args : CallStep(c)
  BY <1>1, CallStepKeeps DEF StepOf, Undecided
<1> QED BY <1>2, NextIs DEF Final, Execute, Finish, DiscoverWorker, DiscoverFails

LEMMA InitRun == Init => ResultInv /\ RunInv
BY DEF Init, ResultInv, RunInv, Final

LEMMA NextResult == CallsInv /\ ResultInv /\ RunInv /\ [Next]_vars => ResultInv'
PROOF
<1> SUFFICES ASSUME CallsInv, ResultInv, RunInv, [Next]_vars PROVE ResultInv'
  OBVIOUS
<1>1. CASE UNCHANGED vars
  BY <1>1 DEF vars, ResultInv, Final, Threw
<1>2. ASSUME Next PROVE ~ Final
  BY <1>2, FinalIsStill
<1>3. result.traces \in Seq(TraceShape) /\ result = [status |-> result.status, traces |-> result.traces]
  BY DEF ResultInv
<1>4. ASSUME NEW c \in DOMAIN args, CallStep(c) PROVE ResultInv'
  <2>1. StepOf(c) /\ Same /\ ~ Final /\ args # <<>> /\ Root \in DOMAIN args
    BY <1>2, <1>4, CallStepKeeps, StepKinds DEF ResultInv, Next, EngineStep, Answer, CallStep
  <2>2. Root \in DOMAIN args' /\ found' = found /\ wf' = wf
    BY <2>1 DEF StepOf, Same
  <2>3. Threw => Threw'
    <3> SUFFICES ASSUME NEW d \in DOMAIN args, exec[d].pc = "threw" PROVE Threw'
      BY DEF Threw
    <3>1. d # c
      BY <2>1 DEF StepOf, Undecided
    <3>2. exec'[d] = exec[d] /\ d \in DOMAIN args'
      BY <2>1, <3>1 DEF StepOf
    <3> QED BY <3>2 DEF Threw
  <2>4. CASE result' = result
    BY <2>1, <2>2, <2>3, <2>4 DEF ResultInv, Final
  <2>5. CASE exec'[c].pc = "threw" /\ result' = [result EXCEPT !.status = "rejected"]
    <3>1. /\ result'.status = "rejected"
          /\ result' \in [status : {"none", "running", "completed", "failed", "rejected"},
                          traces : Seq(TraceShape)]
      BY <1>3, <2>5
    <3>2. Threw'
      BY <2>1, <2>5 DEF Threw, StepOf
    <3> QED BY <2>2, <3>1, <3>2 DEF ResultInv, Final
  <2> QED BY <1>4, <2>4, <2>5, CallStepResult
<1>5. CASE Execute
  <2>1. args = <<>> /\ result.status = "none"
    BY <1>5 DEF Execute, ResultInv
  <2>2. CASE Defined(wf, wf.start)
    <3>1. DOMAIN args' = {Root} /\ result' = [result EXCEPT !.status = "running"]
      BY <1>5, <2>1, <2>2, ExecuteIs
    <3>2. /\ result'.status = "running"
          /\ result' \in [status : {"none", "running", "completed", "failed", "rejected"},
                          traces : Seq(TraceShape)]
      BY <1>3, <3>1
    <3> QED BY <3>1, <3>2 DEF ResultInv, Final
  <2>3. CASE ~ Defined(wf, wf.start)
    <3>1. wf' = wf /\ args' = args /\ result' = [result EXCEPT !.status = "rejected"]
      BY <1>5, <2>1, <2>3, ExecuteIs
    <3>2. /\ result'.status = "rejected"
          /\ result' \in [status : {"none", "running", "completed", "failed", "rejected"},
                          traces : Seq(TraceShape)]
      BY <1>3, <3>1
    <3> QED BY <2>1, <2>3, <3>1, <3>2 DEF ResultInv, Final
  <2> QED BY <2>2, <2>3
<1>6. CASE Finish
  <2>1. Root \in DOMAIN args /\ exec[Root].pc = "done" /\ args' = args /\ exec' = exec
    BY <1>6 DEF Finish, ResultInv
  <2>2. exec[Root].traces \in Seq(TraceShape)
    BY <2>1, CallShapes DEF ExecShape
  <2>3. AllOK(exec[Root].traces) \in {"completed", "failed"}
    BY DEF AllOK
  <2>4. result' = [status |-> AllOK(exec[Root].traces), traces |-> exec[Root].traces]
    BY <1>6 DEF Finish
  <2> QED BY <2>1, <2>2, <2>3, <2>4 DEF ResultInv, Final
<1>7. CASE DiscoverWorker
  <2>1. args = <<>> /\ args' = args /\ result' = result /\ result.status = "none"
    BY <1>7 DEF DiscoverWorker, ResultInv
  <2> QED BY <2>1 DEF ResultInv, Final
<1>8. CASE DiscoverFails
  <2>1. /\ args = <<>> /\ args' = args /\ found' = found /\ found < Len(WorkerURLs)
        /\ result' = [result EXCEPT !.status = "rejected"]
    BY <1>8 DEF DiscoverFails, Resolver, ResultInv
  <2>2. /\ result'.status = "rejected"
        /\ result' \in [status : {"none", "running", "completed", "failed", "rejected"},
                        traces : Seq(TraceShape)]
    BY <1>3, <2>1
  <2> QED BY <2>1, <2>2 DEF ResultInv, Final
<1> QED BY <1>1, <1>4, <1>5, <1>6, <1>7, <1>8, NextIs

(* When execute resolves nothing is in flight, and nothing follows.        *)
THEOREM NothingIsLeft == Spec => NothingAfterTheVerdict
PROOF
<1>1. CallsInv /\ ResultInv /\ RunInv /\ [Next]_vars =>
        [Final => UNCHANGED <<args, exec, sent, got, result>>]_vars
  BY FinalIsStill
<1> QED BY InitCalls, InitRun, NextCalls, NextRun, NextResult, <1>1, PTL DEF Spec, NothingAfterTheVerdict

-----------------------------------------------------------------------------
URLs == {WorkerURLs[k] : k \in 1..Len(WorkerURLs)}

(* Only workers that announced an id are registered under it.              *)
RegInv ==
  /\ found \in 0..Len(WorkerURLs)
  /\ registry \in [Ids -> Seq(URLs)] /\ counter \in [Ids -> Nat]
  /\ \A id \in Ids :
       /\ counter[id] <= Len(registry[id])
       /\ \A k \in 1..Len(registry[id]) : id \in Announced[registry[id][k]]

(* What is known of the answer to a call, from its being ready onwards.    *)
CallAnswered(c) ==
  /\ c \in DOMAIN sent => Node(c).id \in Announced[sent[c]]
  /\ exec[c].pc = "ready" => c \notin DOMAIN sent
  /\ exec[c].pc = "await" => c \in DOMAIN sent /\ c \notin DOMAIN got
  /\ Ok(c) => CallSucceeded(c)
  /\ ErrorNamesTheCause(c)
  /\ exec[c].error = "WORKER_ERROR" => c \in DOMAIN got

AnswerInv ==
  /\ DOMAIN got \subseteq DOMAIN sent /\ DOMAIN sent \subseteq DOMAIN args
  /\ \A c \in DOMAIN args : CallAnswered(c)

-----------------------------------------------------------------------------
(* Each id keeps a list of known URLs, which registering never shortens.   *)
LEMMA RegisteredType ==
  ASSUME NEW S, NEW urls \in Seq(S), NEW url \in S
  PROVE  /\ Registered(urls, url) \in Seq(S) /\ Len(urls) <= Len(Registered(urls, url))
         /\ \A k \in 1..Len(Registered(urls, url)) :
              Registered(urls, url)[k] = url \/ \E j \in 1..Len(urls) : Registered(urls, url)[k] = urls[j]
PROOF
<1>1. CASE \E k \in 1..Len(urls) : urls[k] = url
  BY <1>1 DEF Registered
<1>2. CASE ~ \E k \in 1..Len(urls) : urls[k] = url
  BY <1>2 DEF Registered
<1> QED BY <1>1, <1>2

LEMMA NodeIsKnown == ASSUME CallsInv, NEW c \in DOMAIN args PROVE Node(c).id \in Ids
BY CallShapes DEF CallsInv, Ids

LEMMA TurnType ==
  ASSUME CallsInv, RegInv, NEW c \in DOMAIN args, Providers(c) # <<>>
  PROVE  Turn(c) \in Nat /\ Turn(c) + 1 \in 1..Len(Providers(c))
PROOF
<1>1. Node(c).id \in Ids
  BY NodeIsKnown
<1>2. Providers(c) \in Seq(URLs) /\ counter[Node(c).id] \in Nat
  BY <1>1 DEF RegInv, Providers
<1>3. Len(Providers(c)) \in Nat \ {0}
  BY <1>2
<1> QED BY <1>2, <1>3 DEF Turn

LEMMA InitReg == Init => RegInv
PROOF
<1>1. Len(WorkerURLs) \in Nat
  BY TsEngineAssumption
<1>2. <<>> \in Seq(URLs) /\ Len(<<>>) = 0
  OBVIOUS
<1> QED BY <1>1, <1>2 DEF Init, RegInv

LEMMA NextReg == CallsInv /\ RegInv /\ [Next]_vars => RegInv'
PROOF
<1> SUFFICES ASSUME CallsInv, RegInv, [Next]_vars PROVE RegInv'
  OBVIOUS
<1>1. CASE DiscoverWorker
  <2> DEFINE url == WorkerURLs[found + 1]
  <2>1. found + 1 \in 1..Len(WorkerURLs) /\ url \in URLs /\ Len(WorkerURLs) \in Nat
    BY <1>1, TsEngineAssumption DEF DiscoverWorker, RegInv, URLs
  <2>2. /\ found' = found + 1 /\ counter' = counter
        /\ registry' = [id \in Ids |-> IF id \in Announced[url] THEN Registered(registry[id], url)
                                       ELSE registry[id]]
    BY <1>1 DEF DiscoverWorker
  <2> HIDE DEF url
  <2>3. ASSUME NEW id \in Ids
        PROVE  /\ registry'[id] \in Seq(URLs) /\ counter[id] <= Len(registry'[id])
               /\ \A k \in 1..Len(registry'[id]) : id \in Announced[registry'[id][k]]
    <3>1. registry[id] \in Seq(URLs) /\ counter[id] \in Nat /\ counter[id] <= Len(registry[id])
          /\ \A k \in 1..Len(registry[id]) : id \in Announced[registry[id][k]]
      BY DEF RegInv
    <3>2. CASE id \in Announced[url]
      <4> DEFINE us == registry[id]
                 r  == Registered(us, url)
      <4>1. registry'[id] = r
        BY <2>2, <3>2
      <4>2. us \in Seq(URLs)
        BY <3>1
      <4> HIDE DEF us
      <4>3. r \in Seq(URLs) /\ Len(us) <= Len(r)
            /\ \A k \in 1..Len(r) : r[k] = url \/ \E j \in 1..Len(us) : r[k] = us[j]
        BY <2>1, <4>2, RegisteredType
      <4> HIDE DEF r
      <4>4. Len(r) \in Nat /\ Len(us) \in Nat
        BY <4>2, <4>3
      <4> QED BY <3>1, <3>2, <4>1, <4>3, <4>4 DEF us
    <3>3. CASE id \notin Announced[url]
      BY <2>2, <3>1, <3>3
    <3> QED BY <3>2, <3>3
  <2> QED BY <2>1, <2>2, <2>3 DEF RegInv
<1>2. ASSUME NEW c \in DOMAIN args, Post(c) PROVE RegInv'
  <2>1. Turn(c) \in Nat /\ Turn(c) + 1 \in 1..Len(Providers(c)) /\ Node(c).id \in Ids
    BY <1>2, TurnType, NodeIsKnown DEF Post
  <2>2. found' = found /\ registry' = registry /\ counter' = [counter EXCEPT ![Node(c).id] = Turn(c) + 1]
    BY <1>2 DEF Post, Resolver, NextTurn
  <2>3. Turn(c) + 1 \in Nat /\ Turn(c) + 1 <= Len(registry[Node(c).id])
    BY <2>1 DEF Providers, RegInv
  <2> QED BY <2>1, <2>2, <2>3 DEF RegInv
<1>3. CASE found' = found /\ registry' = registry /\ counter' = counter
  BY <1>3 DEF RegInv
<1>4. ASSUME NEW c \in DOMAIN args, CallStep(c), ~ Post(c)
      PROVE  found' = found /\ registry' = registry /\ counter' = counter
  BY <1>4
     DEF CallStep, NoWorkerFound, FilterFails, FilterNoHit, FilterSplit, Resolves, ConnectionFails,
         DispatchError, MergeThrows, WorkerFailure, RejectOverwrite, CompleteTerminal,
         CompleteDangling, CompleteAndContinue, Resolver
<1>5. Execute \/ Finish \/ DiscoverFails \/ UNCHANGED vars =>
        found' = found /\ registry' = registry /\ counter' = counter
  BY DEF Execute, Finish, DiscoverFails, vars, Resolver
<1> QED BY <1>1, <1>2, <1>3, <1>4, <1>5, NextIs

-----------------------------------------------------------------------------
(* What an answer says of what the handler did.                            *)
LEMMA ResponseIs ==
  ASSUME NEW c, NEW o, Node(c).id \in Announced[sent[c]]
  PROVE  /\ Response(c, o).code = 200 <=> o.kind = "returns"
         /\ Response(c, o).code = 200 => Body(c, o) = o.body
BY DEF Response, Body, Dispatch, Respond, Sendable

(* What a step of c does to what was sent and got.                         *)
Exchanges(c) ==
  /\ DOMAIN sent \subseteq DOMAIN sent' /\ DOMAIN sent' \subseteq DOMAIN sent \cup {c}
  /\ DOMAIN got \subseteq DOMAIN got' /\ DOMAIN got' \subseteq DOMAIN got \cup {c}
  /\ \A d \in DOMAIN sent : d # c => sent'[d] = sent[d]
  /\ \A d \in DOMAIN got : d # c => got'[d] = got[d]

LEMMA CallExchanges ==
  ASSUME NEW c \in DOMAIN args, CallStep(c) PROVE Exchanges(c)
PROOF
<1>1. CASE sent' = sent /\ got' = got
  BY <1>1 DEF Exchanges
<1>2. CASE Post(c)
  BY <1>2 DEF Post, Exchanges
<1>3. ASSUME NEW o, Handled(c, o), sent' = sent PROVE Exchanges(c)
  BY <1>3 DEF Handled, Exchanges
<1> QED BY <1>1, <1>2, <1>3
        DEF CallStep, NoWorkerFound, FilterFails, FilterNoHit, FilterSplit, Resolves, ConnectionFails,
            DispatchError, MergeThrows, WorkerFailure, RejectOverwrite, CompleteTerminal,
            CompleteDangling, CompleteAndContinue

LEMMA OthersAnswered ==
  ASSUME CallsInv, CallsInv', AnswerInv, NEW c \in DOMAIN args, StepOf(c), Exchanges(c),
         CallAnswered(c)', c \in DOMAIN got' => c \in DOMAIN sent'
  PROVE  AnswerInv'
PROOF
<1>1. DOMAIN got' \subseteq DOMAIN sent' /\ DOMAIN sent' \subseteq DOMAIN args'
  BY DEF AnswerInv, Exchanges, StepOf
<1>2. ASSUME NEW d \in DOMAIN args', d # c, d \in DOMAIN args PROVE CallAnswered(d)'
  <2>1. /\ exec'[d] = exec[d] /\ args'[d] = args[d] /\ CallAnswered(d)
        /\ d \in DOMAIN sent' <=> d \in DOMAIN sent
        /\ d \in DOMAIN got' <=> d \in DOMAIN got
        /\ d \in DOMAIN sent => sent'[d] = sent[d]
        /\ d \in DOMAIN got => got'[d] = got[d] /\ d \in DOMAIN sent
    BY <1>2 DEF StepOf, Exchanges, AnswerInv
  <2>2. CallSucceeded(d) => CallSucceeded(d)'
    BY <2>1 DEF CallSucceeded, Filter, Node
  <2>3. ErrorNamesTheCause(d)'
    BY <2>1 DEF CallAnswered, ErrorNamesTheCause
  <2> QED BY <2>1, <2>2, <2>3 DEF CallAnswered, Ok, Node
<1>3. ASSUME NEW d \in DOMAIN args', d \notin DOMAIN args PROVE CallAnswered(d)'
  <2>1. d \notin DOMAIN sent' /\ exec'[d] = Entered
    BY <1>3 DEF Exchanges, AnswerInv, StepOf
  <2> QED BY <2>1, EnteredIs DEF CallAnswered, Ok, ErrorNamesTheCause
<1> QED BY <1>1, <1>2, <1>3 DEF AnswerInv

LEMMA FailsIs ==
  ASSUME CallsInv, NEW c \in DOMAIN args, NEW s, NEW e, Fails(c, s, e)
  PROVE  exec'[c].pc = "done" /\ exec'[c].status = s /\ exec'[c].error = e
PROOF
<1>1. c \in DOMAIN exec /\ exec[c] \in ExecShape
  BY CallShapes
<1> QED BY <1>1 DEF Fails, Returned, ExecShape

(* A call that fails with an error that names the cause, before its answer *)
(* or upon it.                                                             *)
LEMMA FailureAnswered ==
  ASSUME CallsInv, AnswerInv, NEW c \in DOMAIN args, StepOf(c), NEW s, NEW e, Fails(c, s, e),
         ~ (s = "completed" /\ e = "none"), sent' = sent,
         e = "DISPATCH_ERROR" => c \notin DOMAIN got' \/ got'[c].kind # "returns",
         e = "WORKER_ERROR" => /\ c \in DOMAIN got' /\ got'[c].kind = "returns"
                               /\ got'[c].body.status = "failure"
  PROVE  CallAnswered(c)'
PROOF
<1>1. exec'[c].pc = "done" /\ exec'[c].status = s /\ exec'[c].error = e /\ args'[c] = args[c]
  BY FailsIs DEF StepOf
<1>2. CallAnswered(c)
  BY DEF AnswerInv
<1> QED BY <1>1, <1>2 DEF CallAnswered, Ok, ErrorNamesTheCause, Node

(* A call that succeeds.                                                   *)
LEMMA SuccessAnswered ==
  ASSUME CallsInv, AnswerInv, NEW c \in DOMAIN args, StepOf(c), sent' = sent,
         exec'[c].pc \in {"called", "done"}, exec'[c].status = "completed", exec'[c].error = "none",
         ~ Filter(c) => /\ c \in DOMAIN got' /\ got'[c].kind = "returns" /\ c \in DOMAIN sent
                        /\ got'[c].body.status \notin {"failure", "null"}
  PROVE  CallAnswered(c)'
PROOF
<1>1. args'[c] = args[c] /\ CallAnswered(c)
  BY DEF AnswerInv, StepOf
<1>2. CallSucceeded(c)'
  BY <1>1 DEF CallSucceeded, CallAnswered, Filter, Node
<1> QED BY <1>1, <1>2 DEF CallAnswered, Ok, ErrorNamesTheCause, Node

(* The handler of an accepted answer returned a body that is no failure.   *)
LEMMA AcceptedIs ==
  ASSUME AnswerInv, NEW c \in DOMAIN args, NEW o, Accepted(c, o), Handled(c, o)
  PROVE  /\ c \in DOMAIN got' /\ got'[c] = o /\ c \in DOMAIN sent /\ o.kind = "returns"
         /\ o.body.status \notin {"failure", "null"} /\ Body(c, o) = o.body
         /\ exec[c].pc = "await"
PROOF
<1>1. exec[c].pc = "await" /\ Response(c, o).code = 200 /\ ~ Throws(Payload(c), Body(c, o))
      /\ Body(c, o).status # "failure"
  BY DEF Accepted, OK, Waits
<1>2. c \in DOMAIN sent /\ Node(c).id \in Announced[sent[c]]
  BY <1>1 DEF AnswerInv, CallAnswered
<1>3. o.kind = "returns" /\ Body(c, o) = o.body
  BY <1>1, <1>2, ResponseIs
<1> QED BY <1>1, <1>2, <1>3 DEF Throws, Handled

LEMMA CallStepAnswers ==
  ASSUME CallsInv, RegInv, AnswerInv, NEW c \in DOMAIN args, CallStep(c), StepOf(c)
  PROVE  CallAnswered(c)' /\ (c \in DOMAIN got' => c \in DOMAIN sent')
PROOF
<1>1. /\ DOMAIN exec = DOMAIN args /\ exec[c] \in ExecShape /\ exec \in [DOMAIN args -> ExecShape]
      /\ CallAnswered(c) /\ args'[c] = args[c] /\ DOMAIN got \subseteq DOMAIN sent
  BY CallShapes DEF AnswerInv, StepOf, CallsInv
<1>2. exec[c].pc \in {"ready", "await"} => exec[c].status = "running" /\ exec[c].error = "none"
  BY DEF CallsInv, Decided
<1>3. exec[c].pc = "await" => /\ c \in DOMAIN sent /\ c \notin DOMAIN got /\ ~ Filter(c)
                              /\ Node(c).id \in Announced[sent[c]]
  BY <1>1 DEF CallAnswered, CallsInv
<1>4. CASE NoWorkerFound(c)
  <2>1. Fails(c, "failed", "NO_WORKER") /\ sent' = sent /\ got' = got
    BY <1>4 DEF NoWorkerFound
  <2> QED BY <1>1, <2>1, FailureAnswered
<1>5. CASE Post(c)
  <2>1. /\ exec'[c].pc = "await" /\ exec'[c].status = "running" /\ exec'[c].error = "none"
        /\ exec[c].pc = "ready"
    BY <1>1, <1>2, <1>5 DEF Post, Enters, Ready, ExecShape
  <2>2. c \notin DOMAIN got
    BY <1>1, <2>1 DEF CallAnswered
  <2>3. /\ c \in DOMAIN sent' /\ sent'[c] = Providers(c)[Turn(c) + 1] /\ got' = got
    BY <1>5 DEF Post
  <2>4. Node(c).id \in Announced[sent'[c]]
    <3>1. Turn(c) + 1 \in 1..Len(registry[Node(c).id]) /\ Node(c).id \in Ids
      BY <1>5, TurnType, NodeIsKnown DEF Post, Providers
    <3> QED BY <2>3, <3>1 DEF RegInv, Providers
  <2> QED BY <1>1, <2>1, <2>2, <2>3, <2>4 DEF CallAnswered, Ok, ErrorNamesTheCause, Node
<1>6. CASE FilterFails(c)
  <2>1. PICK i \in Stops(c) : Fails(c, "failed", Verdict(c, i))
    BY <1>6 DEF FilterFails
  <2>2. Verdict(c, i) \in {"CONDITION_ERROR", "MISSING_NODE"} /\ sent' = sent /\ got' = got
    BY <1>6, <2>1 DEF Stops, FilterFails
  <2> QED BY <1>1, <2>1, <2>2, FailureAnswered
<1>7. CASE FilterNoHit(c)
  <2>1. /\ exec'[c].pc = "done" /\ exec'[c].status = "completed" /\ exec'[c].error = "none"
        /\ Filter(c) /\ sent' = sent /\ got' = got
    BY <1>1, <1>7 DEF FilterNoHit, Returned, ExecShape
  <2> QED BY <1>1, <2>1, SuccessAnswered
<1>8. CASE FilterSplit(c)
  <2>1. Filter(c) /\ sent' = sent /\ got' = got /\ Undecided(c) /\ Opens(c, Hits(c), Payload(c))
    BY <1>8, SplitOpens DEF FilterSplit, Undecided, Enters, Ready
  <2>2. exec'[c].pc = "called" /\ exec'[c].status = "completed" /\ exec'[c].error = "none"
    BY <2>1, OpensIs DEF Opened
  <2> QED BY <1>1, <2>1, <2>2, SuccessAnswered
<1>9. CASE Resolves(c)
  <2>1. /\ exec'[c].pc = "done" /\ exec'[c].status = exec[c].status /\ exec'[c].error = exec[c].error
        /\ sent' = sent /\ got' = got
    BY <1>1, <1>9 DEF Resolves, ExecShape
  <2> QED BY <1>1, <2>1
          DEF CallAnswered, Ok, ErrorNamesTheCause, CallSucceeded, Filter, Node
<1>10. CASE ConnectionFails(c)
  <2>1. /\ Fails(c, "failed", "DISPATCH_ERROR") /\ sent' = sent /\ got' = got
        /\ exec[c].pc = "await"
    BY <1>10 DEF ConnectionFails, Waits
  <2> QED BY <1>1, <1>3, <2>1, FailureAnswered
<1>11. ASSUME NEW o, Handled(c, o), sent' = sent, exec[c].pc = "await"
       PROVE  /\ c \in DOMAIN got' /\ got'[c] = o /\ c \in DOMAIN sent'
              /\ Response(c, o).code = 200 <=> o.kind = "returns"
              /\ Response(c, o).code = 200 => Body(c, o) = o.body
  BY <1>3, <1>11, ResponseIs DEF Handled
<1>12. ASSUME NEW o, DispatchError(c, o) PROVE CallAnswered(c)' /\ c \in DOMAIN sent'
  <2>1. /\ Fails(c, "failed", "DISPATCH_ERROR") /\ sent' = sent /\ Handled(c, o)
        /\ exec[c].pc = "await" /\ Response(c, o).code # 200
    BY <1>12 DEF DispatchError, Waits
  <2>2. got'[c].kind # "returns" /\ c \in DOMAIN sent'
    BY <1>11, <2>1
  <2> QED BY <2>1, <2>2, FailureAnswered
<1>13. ASSUME NEW o, MergeThrows(c, o) PROVE CallAnswered(c)' /\ c \in DOMAIN sent'
  <2>1. /\ exec[c].pc = "await" /\ sent' = sent
    BY <1>13 DEF MergeThrows, OK, Waits
  <2>2. exec'[c].pc = "threw" /\ exec'[c].status = "running" /\ exec'[c].error = "none"
    BY <1>1, <1>2, <1>13, <2>1 DEF MergeThrows, ExecShape
  <2> QED BY <1>1, <1>3, <2>1, <2>2 DEF CallAnswered, Ok, ErrorNamesTheCause, Node
<1>14. ASSUME NEW o, WorkerFailure(c, o) PROVE CallAnswered(c)' /\ c \in DOMAIN sent'
  <2>1. /\ Fails(c, "failed", "WORKER_ERROR") /\ sent' = sent /\ Handled(c, o)
        /\ exec[c].pc = "await" /\ Response(c, o).code = 200 /\ Body(c, o).status = "failure"
    BY <1>14 DEF WorkerFailure, OK, Waits
  <2>2. /\ c \in DOMAIN got' /\ got'[c].kind = "returns" /\ got'[c].body.status = "failure"
        /\ c \in DOMAIN sent'
    BY <1>11, <2>1
  <2> QED BY <2>1, <2>2, FailureAnswered
<1>15. ASSUME NEW o, RejectOverwrite(c, o) PROVE CallAnswered(c)' /\ c \in DOMAIN sent'
  <2>1. /\ Fails(c, "failed", "MONOTONICITY_VIOLATION") /\ sent' = sent /\ Handled(c, o)
        /\ exec[c].pc = "await"
    BY <1>15 DEF RejectOverwrite, OK, Waits
  <2>2. c \in DOMAIN sent'
    BY <1>11, <2>1
  <2> QED BY <2>1, <2>2, FailureAnswered
<1>16. ASSUME NEW o, CompleteDangling(c, o) PROVE CallAnswered(c)' /\ c \in DOMAIN sent'
  <2>1. /\ Fails(c, "completed", "MISSING_NODE") /\ sent' = sent /\ Handled(c, o)
        /\ exec[c].pc = "await"
    BY <1>16 DEF CompleteDangling, Accepted, OK, Waits
  <2>2. c \in DOMAIN sent'
    BY <1>11, <2>1
  <2> QED BY <2>1, <2>2, FailureAnswered
<1>17. ASSUME NEW o, CompleteTerminal(c, o) PROVE CallAnswered(c)' /\ c \in DOMAIN sent'
  <2>1. sent' = sent /\ Handled(c, o) /\ Accepted(c, o)
    BY <1>17 DEF CompleteTerminal
  <2>2. exec'[c].pc = "done" /\ exec'[c].status = "completed" /\ exec'[c].error = "none"
    BY <1>1, <1>17 DEF CompleteTerminal, Returned, ExecShape
  <2>3. /\ c \in DOMAIN got' /\ got'[c] = o /\ c \in DOMAIN sent /\ o.kind = "returns"
        /\ o.body.status \notin {"failure", "null"}
    BY <2>1, AcceptedIs
  <2> QED BY <2>1, <2>2, <2>3, SuccessAnswered
<1>18. ASSUME NEW o, CompleteAndContinue(c, o) PROVE CallAnswered(c)' /\ c \in DOMAIN sent'
  <2>1. sent' = sent /\ Handled(c, o) /\ Accepted(c, o)
    BY <1>18 DEF CompleteAndContinue
  <2>2. /\ c \in DOMAIN got' /\ got'[c] = o /\ c \in DOMAIN sent /\ o.kind = "returns"
        /\ o.body.status \notin {"failure", "null"} /\ exec[c].pc = "await"
    BY <2>1, AcceptedIs
  <2>3. Opens(c, {1}, Merged(Payload(c), Body(c, o)))
    BY <1>3, <1>18, <2>2, ContinueOpens
  <2>4. exec'[c].pc = "called" /\ exec'[c].status = "completed" /\ exec'[c].error = "none"
    BY <2>3, OpensIs DEF Opened
  <2> QED BY <2>1, <2>2, <2>4, SuccessAnswered
<1> QED BY <1>4, <1>5, <1>6, <1>7, <1>8, <1>9, <1>10, <1>12, <1>13, <1>14, <1>15, <1>16, <1>17, <1>18
        DEF CallStep

LEMMA InitAnswers == Init => AnswerInv
BY DEF Init, AnswerInv

LEMMA NextAnswers == CallsInv /\ ResultInv /\ RegInv /\ AnswerInv /\ [Next]_vars => AnswerInv'
PROOF
<1> SUFFICES ASSUME CallsInv, ResultInv, RegInv, AnswerInv, [Next]_vars PROVE AnswerInv'
  OBVIOUS
<1>0. CallsInv'
  BY NextCalls
<1>1. ASSUME NEW c \in DOMAIN args, CallStep(c) PROVE AnswerInv'
  <2>1. StepOf(c) /\ Exchanges(c)
    BY <1>1, CallStepKeeps, CallExchanges
  <2> QED BY <1>0, <1>1, <2>1, CallStepAnswers, OthersAnswered
<1>2. CASE Execute
  <2>1. /\ args = <<>> /\ sent' = sent /\ got' = got
        /\ \/ DOMAIN args' = {Root} /\ exec'[Root] = Entered
           \/ args' = args
    BY <1>2, ExecuteIs DEF Execute, ResultInv
  <2>2. DOMAIN args = {} /\ DOMAIN sent = {} /\ DOMAIN got = {}
    <3>1. DOMAIN args = {}
      BY <2>1
    <3> QED BY <3>1 DEF AnswerInv
  <2>3. \A c \in DOMAIN args' : exec'[c] = Entered
    BY <2>1, <2>2
  <2> QED BY <2>1, <2>2, <2>3, EnteredIs DEF AnswerInv, CallAnswered, Ok, ErrorNamesTheCause
<1>3. CASE Idles
  <2>1. args' = args /\ exec' = exec /\ sent' = sent /\ got' = got
    BY <1>3 DEF Idles
  <2> SUFFICES ASSUME NEW c \in DOMAIN args PROVE CallAnswered(c)'
    BY <2>1 DEF AnswerInv
  <2>2. CallAnswered(c)
    BY DEF AnswerInv
  <2> QED BY <2>1, <2>2 DEF CallAnswered, Ok, ErrorNamesTheCause, CallSucceeded, Filter, Node
<1> QED BY <1>1, <1>2, <1>3, NextIs, OthersIdle

-----------------------------------------------------------------------------
(* The invariants together.                                                *)
AllInv == CallsInv /\ ResultInv /\ RunInv /\ RegInv /\ AnswerInv

LEMMA AllHolds == Spec => []AllInv
PROOF
<1>1. Init => AllInv
  BY InitCalls, InitRun, InitReg, InitAnswers DEF AllInv
<1>2. AllInv /\ [Next]_vars => AllInv'
  BY NextCalls, NextResult, NextRun, NextReg, NextAnswers DEF AllInv
<1> QED BY <1>1, <1>2, PTL DEF Spec

(* The arguments of an execution are those it was given.                   *)
ArgsInv == input \in Inputs /\ strict \in StrictModes

LEMMA NextArgs == AllInv /\ ArgsInv /\ [Next]_vars => ArgsInv'
PROOF
<1> SUFFICES ASSUME AllInv, ArgsInv, [Next]_vars PROVE input' = input /\ strict' = strict
  BY DEF ArgsInv
<1>1. ASSUME NEW c \in DOMAIN args, CallStep(c) PROVE input' = input /\ strict' = strict
  BY <1>1, StepKinds DEF AllInv, Same
<1> QED BY <1>1, NextIs, OthersIdle DEF Idles, Execute, Request

(* Discovery, the calls and their answers are always well formed: no       *)
(* counter runs past its list, no answer comes to a call that sent nothing.*)
THEOREM TypeCorrect == Spec => []TypeOK
PROOF
<1>1. AllInv /\ ArgsInv => TypeOK
  <2> SUFFICES ASSUME AllInv, ArgsInv PROVE TypeOK
    OBVIOUS
  <2>1. \A id \in Ids : counter[id] \in 0..Len(registry[id])
    <3> TAKE id \in Ids
    <3>1. counter[id] \in Nat /\ registry[id] \in Seq(URLs) /\ counter[id] <= Len(registry[id])
      BY DEF AllInv, RegInv
    <3>2. Len(registry[id]) \in Nat
      BY <3>1
    <3> QED BY <3>1, <3>2
  <2>2. ASSUME NEW c \in DOMAIN args
        PROVE  /\ exec[c].pc \in {"ready", "await", "called", "done", "threw"}
               /\ exec[c].hits \subseteq 1..Len(Succ(c))
    BY CallShapes DEF AllInv, CallsInv, ExecShape
  <2>3. result.status \in {"none", "running", "completed", "failed", "rejected"}
    BY DEF AllInv, ResultInv
  <2> QED BY <2>1, <2>2, <2>3 DEF TypeOK, AllInv, CallsInv, RegInv, AnswerInv, ArgsInv, URLs
<1>2. Init => ArgsInv
  BY DEF Init, ArgsInv
<1> QED BY AllHolds, NextArgs, <1>1, <1>2, PTL DEF Spec

(* The verdict can be trusted, however the workers and handlers behave and *)
(* in whatever order the answers come back.                                *)
THEOREM VerdictIsSound == Spec => []SoundVerdict
PROOF
<1>1. AllInv => SoundVerdict
  <2> SUFFICES ASSUME AllInv PROVE SoundVerdict
    OBVIOUS
  <2>1. \A c \in DOMAIN args : ErrorNamesTheCause(c) /\ (CallSucceeded(c) <=> Ok(c))
    BY DEF AllInv, AnswerInv, CallAnswered, CallSucceeded, Ok
  <2>2. result.status = "rejected" =>
          found < Len(WorkerURLs) \/ ~ Defined(wf, wf.start)
            \/ \E c \in DOMAIN args : exec[c].pc = "threw"
    BY DEF AllInv, ResultInv, Threw
  <2>3. ASSUME Final
        PROVE  /\ result.status = "completed" <=> \A c \in DOMAIN args : CallSucceeded(c)
               /\ \A k \in 1..Len(result.traces) : LET t == result.traces[k] IN
                    t.status = "completed" <=> CallSucceeded(t.nodes[Len(t.nodes)])
    <3>1. /\ Root \in DOMAIN args /\ exec[Root].pc = "done" /\ result.traces = exec[Root].traces
          /\ result.status = AllOK(exec[Root].traces)
      BY <2>3 DEF AllInv, ResultInv
    <3>2. HasFailed(Root) <=> \E c \in DOMAIN args : ~ Ok(c)
      BY <3>1, RootDone DEF AllInv
    <3>3. exec[Root].traces \in Seq(TraceShape)
      BY <3>1, CallShapes DEF AllInv, ExecShape
    <3>4. \A k \in 1..Len(exec[Root].traces) : exec[Root].traces[k].status \in {"completed", "failed"}
      <4> DEFINE ts == exec[Root].traces
      <4> HIDE DEF ts
      <4>1. \A k \in 1..Len(ts) : ts[k] \in TraceShape
        BY <3>3 DEF ts
      <4>2. \A k \in 1..Len(ts) : ts[k].status \in {"completed", "failed"}
        BY <4>1 DEF TraceShape
      <4> QED BY <4>2 DEF ts
    <3>5. result.status = "completed" <=> ~ HasFailed(Root)
      BY <3>1, <3>4 DEF AllOK, HasFailed
    <3>6. ASSUME NEW k \in 1..Len(result.traces)
          PROVE  LET t == result.traces[k] IN
                   t.status = "completed" <=> CallSucceeded(t.nodes[Len(t.nodes)])
      <4> DEFINE t == result.traces[k]
      <4>1. Good(t, DecidedCalls, OkCalls)
        BY <3>1 DEF AllInv, RunInv, CallOK, Traced
      <4>2. EndOf(t) \in DOMAIN args /\ (t.status = "completed" <=> Ok(EndOf(t)))
        BY <4>1 DEF Good, DecidedCalls, OkCalls
      <4> QED BY <2>1, <4>2 DEF EndOf
    <3> QED BY <2>1, <3>2, <3>5, <3>6
  <2> QED BY <2>1, <2>2, <2>3 DEF SoundVerdict
<1> QED BY AllHolds, <1>1, PTL

-----------------------------------------------------------------------------
(* Every call below a linear one was made with its answer.                 *)
PayInv ==
  \A c \in DOMAIN args :
    /\ Payload(c) = Lineage(c)
    /\ \A k \in 0..(Len(c) - 1) :
         /\ Prefix(c, k) \in DOMAIN args
         /\ ~ Filter(Prefix(c, k)) => Prefix(c, k) \in DOMAIN got

(* No step changes a payload, a node or an answer that is there, and what  *)
(* a call inherits depends on nothing else.                                *)
Kept ==
  /\ wf' = wf /\ input' = input
  /\ \A c \in DOMAIN args : c \in DOMAIN args' /\ args'[c] = args[c]
  /\ \A c \in DOMAIN got : c \in DOMAIN got' /\ got'[c] = got[c] /\ sent'[c] = sent[c]

LEMMA CallStepKept ==
  ASSUME CallsInv, AnswerInv, NEW c \in DOMAIN args, CallStep(c) PROVE Kept
PROOF
<1>1. StepOf(c) /\ Same /\ Exchanges(c)
  BY CallStepKeeps, StepKinds, CallExchanges
<1>2. CASE got' = got /\ sent' = sent
  BY <1>1, <1>2 DEF Kept, StepOf, Same
<1>3. ASSUME c \notin DOMAIN got PROVE Kept
  <2>1. \A d \in DOMAIN got : d # c /\ d \in DOMAIN sent
    BY <1>3 DEF AnswerInv
  <2> QED BY <1>1, <2>1 DEF Kept, StepOf, Same, Exchanges
<1>4. exec[c].pc \in {"ready", "await"} => c \notin DOMAIN got
  BY DEF AnswerInv, CallAnswered
<1> QED BY <1>2, <1>3, <1>4
        DEF CallStep, NoWorkerFound, Post, FilterFails, FilterNoHit, FilterSplit, Resolves,
            ConnectionFails, DispatchError, MergeThrows, WorkerFailure, RejectOverwrite, Accepted,
            CompleteTerminal, CompleteDangling, CompleteAndContinue, Enters, Ready, OK, Waits

LEMMA LineageKept ==
  ASSUME PayInv, Kept, NEW c \in DOMAIN args
  PROVE  OutputsAbove(c)' = OutputsAbove(c) /\ Lineage(c)' = Lineage(c)
PROOF
<1>1. \A k \in 0..(Len(c) - 1) :
        /\ args'[Prefix(c, k)] = args[Prefix(c, k)]
        /\ ~ Filter(Prefix(c, k)) => /\ got'[Prefix(c, k)] = got[Prefix(c, k)]
                                     /\ sent'[Prefix(c, k)] = sent[Prefix(c, k)]
  BY DEF PayInv, Kept
<1>2. Ancestry(c)' = Ancestry(c)
  BY <1>1 DEF Ancestry, Prefix, Filter, Node
<1>3. \A k \in Ancestry(c) : OutputOf(Prefix(c, k))' = OutputOf(Prefix(c, k))
  <2> TAKE k \in Ancestry(c)
  <2>1. k \in 0..(Len(c) - 1) /\ ~ Filter(Prefix(c, k))
    BY DEF Ancestry
  <2> DEFINE d == Prefix(c, k)
  <2>2. args'[d] = args[d] /\ got'[d] = got[d] /\ sent'[d] = sent[d]
    BY <1>1, <2>1
  <2> QED BY <2>2 DEF OutputOf, Body, Response, Node, Prefix
<1>4. OutputsAbove(c)' = OutputsAbove(c)
  BY <1>2, <1>3 DEF OutputsAbove, Prefix
<1> QED BY <1>4 DEF Lineage, Kept

(* A step that makes no call.                                              *)
LEMMA QuietStep ==
  ASSUME PayInv, Kept, args' = args PROVE PayInv'
PROOF
<1> SUFFICES ASSUME NEW c \in DOMAIN args
             PROVE  /\ Payload(c)' = Lineage(c)'
                    /\ \A k \in 0..(Len(c) - 1) :
                         /\ Prefix(c, k) \in DOMAIN args'
                         /\ ~ Filter(Prefix(c, k))' => Prefix(c, k) \in DOMAIN got'
  BY DEF PayInv, Prefix
<1>1. Payload(c)' = Payload(c) /\ Lineage(c)' = Lineage(c)
  BY LineageKept DEF Payload
<1> QED BY <1>1 DEF PayInv, Kept, Filter, Node, Prefix

(* The payload of a call that is made: its caller's, with the caller's     *)
(* output over it if that has one.                                         *)
LEMMA OpenedPay ==
  ASSUME CallsInv, PayInv, Kept, NEW c \in DOMAIN args, NEW is, NEW p, Opens(c, is, p),
         ~ Filter(c) => c \in DOMAIN got' /\ p = Overlay(Payload(c), OutputOf(c)'),
         Filter(c) => p = Payload(c), NEW i \in is
  PROVE  /\ Payload(Append(c, i))' = Lineage(Append(c, i))'
         /\ \A k \in 0..(Len(Append(c, i)) - 1) :
              /\ Prefix(Append(c, i), k) \in DOMAIN args'
              /\ ~ Filter(Prefix(Append(c, i), k))' => Prefix(Append(c, i), k) \in DOMAIN got'
PROOF
<1> DEFINE e == Append(c, i)
           n == Len(c)
<1>1. Opened(c, is, p) /\ c \in Seq(Nat) /\ i \in Nat
  <2>1. Opened(c, is, p)
    BY OpensIs
  <2>2. i \in Nat
    BY <2>1 DEF Opened
  <2> QED BY <2>1, <2>2, CallShapes
<1>2. /\ n \in Nat /\ Len(e) = n + 1 /\ Prefix(e, n) = c
      /\ \A k \in 0..(n - 1) : Prefix(e, k) = Prefix(c, k)
  BY <1>1, PrefixesOfChild
<1>3. args'[e].payload = p /\ args'[c] = args[c]
  BY <1>1 DEF Opened
<1> HIDE DEF e
<1>4. 0..(Len(e) - 1) = 0..(n - 1) \cup {n} /\ \A k \in 0..(n - 1) : k \in Nat /\ k < n
  BY <1>2
<1>5. \A k \in 0..(n - 1) :
        /\ Prefix(c, k) \in DOMAIN args /\ args'[Prefix(c, k)] = args[Prefix(c, k)]
        /\ ~ Filter(Prefix(c, k)) => Prefix(c, k) \in DOMAIN got
  BY DEF PayInv, Kept
<1>6. \A k \in 0..(Len(e) - 1) :
        /\ Prefix(e, k) \in DOMAIN args'
        /\ ~ Filter(Prefix(e, k))' => Prefix(e, k) \in DOMAIN got'
  BY <1>2, <1>3, <1>4, <1>5 DEF Filter, Node, Prefix, Kept
<1>7. /\ OutputsAbove(c)' = OutputsAbove(c) /\ Lineage(c) = Payload(c)
      /\ Lineage(c) = Overlaid(input, OutputsAbove(c)) /\ input' = input
  BY LineageKept DEF PayInv, Lineage, Kept
<1>8. /\ Filter(c)' = Filter(c)
      /\ \A k \in 0..(n - 1) : /\ Filter(Prefix(e, k))' = Filter(Prefix(c, k))
                                /\ OutputOf(Prefix(e, k))' = OutputOf(Prefix(c, k))'
  BY <1>2, <1>3, <1>5 DEF Filter, Node, OutputOf, Body, Response, Prefix
<1>9. \A k \in Ancestry(c) : OutputsAbove(c)[k] = OutputOf(Prefix(c, k))'
  <2>1. Ancestry(c)' = Ancestry(c)
    BY <1>5 DEF Ancestry, Filter, Node, Prefix
  <2> QED BY <1>7, <2>1 DEF OutputsAbove, Prefix
<1>10. p = Lineage(e)'
  <2>1. CASE Filter(c)
    <3>1. Ancestry(e)' = Ancestry(c)
      <4>1. Filter(Prefix(e, n))'
        BY <1>2, <1>8, <2>1 DEF Filter, Node, Prefix
      <4> QED BY <1>4, <1>8, <4>1 DEF Ancestry, Prefix
    <3>2. OutputsAbove(e)' = OutputsAbove(c)
      BY <1>8, <1>9, <3>1 DEF OutputsAbove, Ancestry, Prefix
    <3> QED BY <1>7, <2>1, <3>2 DEF Lineage
  <2>2. CASE ~ Filter(c)
    <3>1. Ancestry(e)' = Ancestry(c) \cup {n}
      BY <1>2, <1>4, <1>8, <2>2 DEF Ancestry, Filter, Node, Prefix
    <3>2. DOMAIN OutputsAbove(c) = Ancestry(c) /\ \A k \in Ancestry(c) : k \in 0..(n - 1)
      BY DEF OutputsAbove, Ancestry
    <3>3. /\ DOMAIN OutputsAbove(e)' = Ancestry(c) \cup {n}
          /\ OutputsAbove(e)'[n] = OutputOf(c)'
          /\ \A k \in Ancestry(c) : OutputsAbove(e)'[k] = OutputsAbove(c)[k]
      BY <1>2, <1>8, <1>9, <3>1, <3>2 DEF OutputsAbove, OutputOf, Body, Response, Node, Prefix
    <3>4. OneMore(OutputsAbove(c), n, OutputOf(c)', OutputsAbove(e)')
      BY <1>2, <1>4, <3>2, <3>3 DEF OneMore
    <3>5. Overlaid(input, OutputsAbove(e)') = Overlay(Overlaid(input, OutputsAbove(c)), OutputOf(c)')
      BY <3>4, OverlaidMore
    <3> QED BY <1>7, <2>2, <3>5 DEF Lineage
  <2> QED BY <2>1, <2>2
<1> QED BY <1>3, <1>6, <1>10 DEF e, Payload

LEMMA OpensPay ==
  ASSUME CallsInv, PayInv, Kept, NEW c \in DOMAIN args, NEW is, NEW p, Opens(c, is, p),
         ~ Filter(c) => c \in DOMAIN got' /\ p = Overlay(Payload(c), OutputOf(c)'),
         Filter(c) => p = Payload(c)
  PROVE  PayInv'
PROOF
<1>1. DOMAIN args' = DOMAIN args \cup {Append(c, i) : i \in is}
  BY OpensIs DEF Opened
<1>2. ASSUME NEW d \in DOMAIN args
      PROVE  /\ Payload(d)' = Lineage(d)'
             /\ \A k \in 0..(Len(d) - 1) :
                  /\ Prefix(d, k) \in DOMAIN args'
                  /\ ~ Filter(Prefix(d, k))' => Prefix(d, k) \in DOMAIN got'
  <2>1. Payload(d)' = Payload(d) /\ Lineage(d)' = Lineage(d)
    BY LineageKept DEF Payload, Kept
  <2> QED BY <2>1 DEF PayInv, Kept, Filter, Node, Prefix
<1> SUFFICES ASSUME NEW d \in DOMAIN args'
             PROVE  /\ Payload(d)' = Lineage(d)'
                    /\ \A k \in 0..(Len(d) - 1) :
                         /\ Prefix(d, k) \in DOMAIN args'
                         /\ ~ Filter(Prefix(d, k))' => Prefix(d, k) \in DOMAIN got'
  BY DEF PayInv, Prefix
<1>3. CASE d \notin DOMAIN args
  <2>1. PICK i \in is : d = Append(c, i)
    BY <1>1, <1>3
  <2> QED BY <2>1, OpenedPay
<1> QED BY <1>2, <1>3

LEMMA NextPay == AllInv /\ ArgsInv /\ PayInv /\ [Next]_vars => PayInv'
PROOF
<1> SUFFICES ASSUME AllInv, ArgsInv, PayInv, [Next]_vars PROVE PayInv'
  OBVIOUS
<1>0. CallsInv /\ AnswerInv
  BY DEF AllInv
<1>1. ASSUME NEW c \in DOMAIN args, CallStep(c) PROVE PayInv'
  <2>0. Kept
    BY <1>0, <1>1, CallStepKept
  <2>1. CASE args' = args
    BY <2>0, <2>1, QuietStep
  <2>2. CASE FilterSplit(c)
    <3>1. Opens(c, Hits(c), Payload(c)) /\ Filter(c)
      BY <1>0, <2>2, SplitOpens DEF FilterSplit
    <3> QED BY <1>0, <2>0, <3>1, OpensPay
  <2>3. ASSUME NEW o, CompleteAndContinue(c, o) PROVE PayInv'
    <3>1. Accepted(c, o) /\ Handled(c, o) /\ sent' = sent
      BY <2>3 DEF CompleteAndContinue
    <3>2. c \in DOMAIN got' /\ got'[c] = o /\ exec[c].pc = "await"
      BY <1>0, <3>1, AcceptedIs
    <3>3. ~ Filter(c) /\ args'[c] = args[c]
      BY <1>0, <2>0, <3>2 DEF CallsInv, Kept
    <3>4. Opens(c, {1}, Merged(Payload(c), Body(c, o)))
      BY <2>3, <3>3, ContinueOpens
    <3>5. Merged(Payload(c), Body(c, o)) = Overlay(Payload(c), OutputOf(c)')
      <4>1. OutputOf(c)' = Output(Body(c, o))
        BY <3>1, <3>2, <3>3 DEF OutputOf, Body, Response, Node
      <4> QED BY <4>1 DEF Merged, Overlay
    <3> QED BY <1>0, <2>0, <3>2, <3>3, <3>4, <3>5, OpensPay
  <2> QED BY <1>1, <2>1, <2>2, <2>3
          DEF CallStep, NoWorkerFound, Post, FilterFails, FilterNoHit, Resolves, ConnectionFails,
              DispatchError, MergeThrows, WorkerFailure, RejectOverwrite, CompleteTerminal,
              CompleteDangling
<1>2. CASE Execute
  <2>1. args = <<>> /\ input' = input
    BY <1>2, ExecuteIs DEF Execute, AllInv, ResultInv
  <2>2. CASE args' = args
    <3>1. DOMAIN args' = {}
      BY <2>1, <2>2
    <3> QED BY <3>1 DEF PayInv
  <2>3. CASE DOMAIN args' = {Root} /\ args'[Root].payload = input
    <3>1. 0..(Len(Root) - 1) = {} /\ Ancestry(Root)' = {}
      BY DEF Root, Ancestry
    <3>2. DOMAIN OutputsAbove(Root)' = {}
      BY <3>1 DEF OutputsAbove
    <3>3. Overlaid(input, OutputsAbove(Root)') = [f \in DOMAIN input |-> input[f]]
      BY <3>2 DEF Overlaid
    <3>4. Lineage(Root)' = input
      BY <2>1, <3>3, InputAssumption DEF Lineage, ArgsInv
    <3> QED BY <2>3, <3>1, <3>4 DEF PayInv, Payload
  <2> QED BY <1>2, <2>1, <2>2, <2>3, ExecuteIs
<1>3. CASE Idles
  <2>1. Kept /\ args' = args
    BY <1>3 DEF Idles, Kept
  <2> QED BY <2>1, QuietStep
<1> QED BY <1>1, <1>2, <1>3, NextIs, OthersIdle

(* Whatever the branches beside it return and whenever, a call is handed   *)
(* what its own ancestors returned.                                        *)
THEOREM BranchesAreIsolated == Spec => []BranchIsolation
PROOF
<1>1. PayInv => BranchIsolation
  BY DEF PayInv, BranchIsolation
<1>2. Init => ArgsInv /\ PayInv
  BY DEF Init, ArgsInv, PayInv
<1> QED BY AllHolds, NextArgs, NextPay, <1>1, <1>2, PTL DEF Spec

-----------------------------------------------------------------------------
(* What a step of c does to the abstract run: what it does to c, and to    *)
(* the calls below it that it begins.                                      *)
LEMMA RunFrame ==
  ASSUME AllInv, AllInv', NEW c \in DOMAIN args, StepOf(c)
  PROVE  /\ DOMAIN Progressed = DOMAIN args /\ DOMAIN Due = DOMAIN args
         /\ Progressed' = [d \in DOMAIN args' |-> IF d = c THEN Progress(c)'
                              ELSE IF d \in DOMAIN args THEN Progressed[d] ELSE "busy"]
         /\ Due' = [d \in DOMAIN args' |-> IF d = c THEN exec'[c].hits
                       ELSE IF d \in DOMAIN args THEN Due[d] ELSE {}]
PROOF
<1>1. ASSUME NEW d \in DOMAIN args', d # c
      PROVE  /\ d \in DOMAIN args => Progress(d)' = Progressed[d] /\ exec'[d].hits = Due[d]
             /\ d \notin DOMAIN args => Progress(d)' = "busy" /\ exec'[d].hits = {}
  <2>1. CASE d \in DOMAIN args
    <3>1. exec'[d] = exec[d]
      BY <1>1, <2>1 DEF StepOf
    <3> QED BY <2>1, <3>1 DEF Progressed, Due, Progress
  <2>2. CASE d \notin DOMAIN args
    <3>1. exec'[d] = Entered
      BY <2>2 DEF StepOf
    <3> QED BY <2>2, <3>1, EnteredIs DEF Progress
  <2> QED BY <2>1, <2>2
<1>2. /\ DOMAIN Progressed = DOMAIN args /\ DOMAIN Due = DOMAIN args
      /\ Progressed' = [d \in DOMAIN args' |-> Progress(d)']
      /\ Due' = [d \in DOMAIN args' |-> exec'[d].hits]
  BY DEF Progressed, Due, Progress
<1> QED BY <1>1, <1>2

(* A call is in progress as long as none of its children can exist.        *)
LEMMA BusyCall ==
  ASSUME CallsInv, NEW c \in DOMAIN args, Undecided(c)
  PROVE  Progressed[c] = "busy" /\ Due[c] = {}
BY DEF CallsInv, Decided, Undecided, Progressed, Due, Progress

LEMMA SuccBounded ==
  ASSUME CallsInv, NEW c \in DOMAIN args PROVE 1..Len(Succ(c)) \subseteq 1..MaxBranches
PROOF
<1>1. Node(c) \in NodesOf(wf) /\ wf \in Workflows /\ Len(Node(c).branches) \in Nat
  BY CallShapes DEF CallsInv
<1>2. Len(Node(c).branches) <= MaxBranches /\ MaxBranches \in Nat \ {0}
  BY <1>1, BranchesAssumption
<1>3. Len(Succ(c)) \in Nat /\ Len(Succ(c)) <= MaxBranches
  BY <1>1, <1>2 DEF Succ, Successors
<1> QED BY <1>2, <1>3

(* The execution goes on while a call steps, also when it was rejected.    *)
LEMMA OutcomePends ==
  ASSUME AllInv, AllInv', NEW c \in DOMAIN args, CallStep(c)
  PROVE  Outcome = "pending" /\ Outcome' = "pending"
PROOF
<1>1. ~ Final /\ args # <<>> /\ result.status \in {"none", "running", "completed", "failed", "rejected"}
  <2>1. Next
    BY DEF Next, EngineStep, Answer, CallStep
  <2> QED BY <2>1, FinalIsStill DEF AllInv, ResultInv
<1>2. result.status \in {"running", "rejected"}
  BY <1>1 DEF Final, AllInv, ResultInv
<1>3. args' # <<>>
  BY CallStepKeeps DEF StepOf, AllInv
<1>4. result' = result \/ result' = [result EXCEPT !.status = "rejected"]
  BY CallStepResult DEF AllInv
<1>5. result'.status \in {"running", "rejected"}
  BY <1>2, <1>4 DEF AllInv, ResultInv
<1> QED BY <1>1, <1>2, <1>3, <1>5 DEF Outcome

(* A call that succeeds and begins the calls due below it, which may be    *)
(* none.                                                                   *)
LEMMA SucceedsMaps ==
  ASSUME AllInv, AllInv', NEW c \in DOMAIN args, StepOf(c), CallStep(c), Undecided(c),
         Progress(c)' = "ok", NEW is, exec'[c].hits = is, is \subseteq 1..MaxBranches,
         \A i \in is : Append(c, i) \notin DOMAIN args,
         DOMAIN args' = DOMAIN args \cup {Append(c, i) : i \in is}
  PROVE  Run!Next
PROOF
<1> DEFINE K == {Append(c, i) : i \in is}
<1>1. K \cap DOMAIN args = {} /\ c \notin K
  OBVIOUS
<1>2. /\ DOMAIN Progressed = DOMAIN args /\ DOMAIN Due = DOMAIN args
      /\ Progressed' = [d \in DOMAIN args \cup K |-> IF d = c THEN "ok"
                           ELSE IF d \in DOMAIN args THEN Progressed[d] ELSE "busy"]
      /\ Due' = [d \in DOMAIN args \cup K |-> IF d = c THEN is
                    ELSE IF d \in DOMAIN args THEN Due[d] ELSE {}]
      /\ Outcome' = Outcome /\ Progressed[c] = "busy"
  <2>1. Outcome' = Outcome /\ Progressed[c] = "busy"
    BY OutcomePends, BusyCall DEF AllInv
  <2>2. /\ DOMAIN Progressed = DOMAIN args /\ DOMAIN Due = DOMAIN args
        /\ Progressed' = [d \in DOMAIN args' |-> IF d = c THEN Progress(c)'
                             ELSE IF d \in DOMAIN args THEN Progressed[d] ELSE "busy"]
        /\ Due' = [d \in DOMAIN args' |-> IF d = c THEN exec'[c].hits
                      ELSE IF d \in DOMAIN args THEN Due[d] ELSE {}]
    BY RunFrame
  <2> HIDE DEF K
  <2>3. DOMAIN args' = DOMAIN args \cup K
    BY DEF K
  <2> QED BY <2>1, <2>2, <2>3
<1>3. is \in SUBSET (1..MaxBranches) /\ is \in SUBSET is
  OBVIOUS
<1>4. Run!Kids(c, is) = K
  BY DEF Run!Kids
<1> HIDE DEF K
<1>5. Progressed' = Run!Extended([Progressed EXCEPT ![c] = "ok"], K, "busy")
  BY <1>1, <1>2 DEF Run!Extended
<1>6. Due' = Run!Extended([Due EXCEPT ![c] = is], K, {})
  BY <1>1, <1>2 DEF Run!Extended
<1>7. Run!Succeed(c, is, is)
  BY <1>2, <1>4, <1>5, <1>6 DEF Run!Succeed
<1> QED BY <1>2, <1>3, <1>7 DEF Run!Next

LEMMA EndsMaps ==
  ASSUME AllInv, AllInv', NEW c \in DOMAIN args, CallStep(c), Ends(c) PROVE Run!Next
PROOF
<1>1. StepOf(c) /\ exec'[c].pc = "done" /\ exec'[c].hits = {} /\ Undecided(c) /\ args' = args
  BY CallStepKeeps, StepKinds, EndsKeeps DEF AllInv, Ends
<1>2. Progress(c)' \in {"ok", "failed"}
  BY <1>1 DEF Progress
<1>3. CASE Progress(c)' = "ok"
  <2>1. PICK is : is = {}
    OBVIOUS
  <2>2. /\ exec'[c].hits = is /\ is \subseteq 1..MaxBranches
        /\ \A i \in is : Append(c, i) \notin DOMAIN args
        /\ DOMAIN args' = DOMAIN args \cup {Append(c, i) : i \in is}
    BY <1>1, <2>1
  <2> QED BY <1>1, <1>3, <2>2, SucceedsMaps
<1>4. CASE Progress(c)' = "failed"
  <2>1. /\ DOMAIN Progressed = DOMAIN args /\ DOMAIN Due = DOMAIN args
        /\ Progressed' = [d \in DOMAIN args |-> IF d = c THEN "failed" ELSE Progressed[d]]
        /\ Due' = [d \in DOMAIN args |-> IF d = c THEN {} ELSE Due[d]]
        /\ Outcome' = Outcome /\ Progressed[c] = "busy" /\ Due[c] = {}
    BY <1>1, <1>4, RunFrame, OutcomePends, BusyCall DEF AllInv
  <2>2. Progressed = [d \in DOMAIN args |-> Progressed[d]] /\ Due = [d \in DOMAIN args |-> Due[d]]
    BY DEF Progressed, Due
  <2>3. Progressed' = [Progressed EXCEPT ![c] = "failed"] /\ Due' = Due
    BY <2>1, <2>2
  <2>4. Run!Fail(c)
    BY <2>1, <2>3 DEF Run!Fail
  <2> QED BY <2>1, <2>4 DEF Run!Next
<1> QED BY <1>2, <1>3, <1>4

LEMMA OpensMaps ==
  ASSUME AllInv, AllInv', NEW c \in DOMAIN args, CallStep(c), NEW is, NEW p, Opens(c, is, p)
  PROVE  Run!Next
PROOF
<1>1. StepOf(c) /\ Opened(c, is, p) /\ Undecided(c) /\ is \subseteq 1..Len(Succ(c))
  BY CallStepKeeps, OpensIs DEF AllInv, Opens
<1>2. /\ exec'[c].pc = "called" /\ exec'[c].status = "completed" /\ exec'[c].error = "none"
      /\ exec'[c].hits = is /\ \A i \in is : Append(c, i) \notin DOMAIN args
      /\ DOMAIN args' = DOMAIN args \cup {Append(c, i) : i \in is}
  BY <1>1 DEF Opened
<1>3. Progress(c)' = "ok"
  BY <1>2 DEF Progress
<1>4. is \subseteq 1..MaxBranches
  BY <1>1, SuccBounded DEF AllInv
<1> QED BY <1>1, <1>2, <1>3, <1>4, SucceedsMaps

(* A call that waits, throws or returns what came back stays where it is.  *)
LEMMA StaysMaps ==
  ASSUME AllInv, AllInv', NEW c \in DOMAIN args, CallStep(c), Stalls(c) \/ Resolves(c)
  PROVE  UNCHANGED Run!vars
PROOF
<1>1. StepOf(c) /\ args' = args
  BY CallStepKeeps DEF AllInv, Stalls, Resolves
<1>2. Progress(c)' = Progressed[c] /\ exec'[c].hits = Due[c]
  <2>1. CASE Stalls(c)
    <3>1. exec'[c].pc \in {"await", "threw"} /\ Undecided(c)
      BY <2>1, StallsKeeps, StepKinds DEF AllInv, Stalls
    <3>2. exec'[c].hits = {}
      BY <1>1, <3>1 DEF AllInv, CallsInv, Decided
    <3>3. Progress(c)' = "busy"
      BY <3>1 DEF Progress
    <3> QED BY <3>1, <3>2, <3>3, BusyCall DEF AllInv
  <2>2. CASE Resolves(c)
    <3>1. exec[c].pc = "called"
      BY <2>2 DEF Resolves
    <3>2. /\ exec'[c].pc = "done" /\ exec'[c].status = exec[c].status
          /\ exec'[c].error = exec[c].error /\ exec'[c].hits = exec[c].hits
      BY <1>1, <3>1 DEF StepOf, Decided
    <3> QED BY <3>1, <3>2 DEF Progressed, Due, Progress
  <2> QED BY <2>1, <2>2
<1>3. /\ Progressed' = [d \in DOMAIN args |-> Progressed[d]]
      /\ Due' = [d \in DOMAIN args |-> Due[d]] /\ Outcome' = Outcome
  BY <1>1, <1>2, RunFrame, OutcomePends
<1> QED BY <1>3 DEF Run!vars, Progressed, Due

LEMMA ExecuteMaps == ASSUME AllInv, AllInv', Execute PROVE Run!Next
PROOF
<1>1. args = <<>> /\ result.status = "none" /\ Outcome = "none"
  BY DEF Execute, AllInv, ResultInv, Outcome
<1>2. CASE Defined(wf, wf.start)
  <2>1. /\ DOMAIN args' = {Root} /\ exec'[Root] = Entered
        /\ result' = [result EXCEPT !.status = "running"]
    BY <1>1, <1>2, ExecuteIs
  <2>2. result'.status = "running" /\ Outcome' = "pending"
    BY <2>1 DEF AllInv, ResultInv, Outcome
  <2>3. Progressed' = [d \in {Root} |-> "busy"] /\ Due' = [d \in {Root} |-> {}]
    BY <2>1, EnteredIs DEF Progressed, Due, Progress
  <2>4. Run!Begin
    BY <1>1, <2>2, <2>3 DEF Run!Begin, Root
  <2> QED BY <2>4 DEF Run!Next
<1>3. CASE ~ Defined(wf, wf.start)
  <2>1. args' = args /\ exec' = exec /\ result' = [result EXCEPT !.status = "rejected"]
    BY <1>1, <1>3, ExecuteIs
  <2>2. result'.status = "rejected" /\ Outcome' = "error"
    BY <1>1, <2>1 DEF AllInv, ResultInv, Outcome
  <2>3. Progressed' = Progressed /\ Due' = Due
    BY <2>1 DEF Progressed, Due, Progress
  <2>4. Run!Refuse
    BY <1>1, <2>2, <2>3 DEF Run!Refuse
  <2> QED BY <2>4 DEF Run!Next
<1> QED BY <1>2, <1>3

(* Discovery that fails refuses the run, and otherwise does not touch it.  *)
LEMMA DiscoveryMaps ==
  ASSUME AllInv, AllInv', DiscoverWorker \/ DiscoverFails PROVE Run!Next \/ UNCHANGED Run!vars
PROOF
<1>1. args = <<>> /\ args' = args /\ exec' = exec /\ Outcome = "none"
  BY OthersIdle DEF Idles, DiscoverWorker, DiscoverFails, AllInv, ResultInv, Outcome
<1>2. Progressed' = Progressed /\ Due' = Due
  BY <1>1 DEF Progressed, Due, Progress
<1>3. CASE DiscoverWorker
  BY <1>1, <1>2, <1>3 DEF DiscoverWorker, Outcome, Run!vars
<1>4. CASE DiscoverFails
  <2>1. result'.status = "rejected"
    BY <1>4 DEF DiscoverFails, AllInv, ResultInv
  <2>2. Outcome' = "error"
    BY <1>1, <2>1 DEF Outcome
  <2>3. Run!Refuse
    BY <1>1, <1>2, <2>2 DEF Run!Refuse
  <2> QED BY <2>3 DEF Run!Next
<1> QED BY <1>3, <1>4

(* Execute resolves when everything due is settled, and with a failure     *)
(* exactly when some call failed.                                          *)
LEMMA FinishMaps == ASSUME AllInv, AllInv', Finish PROVE Run!Next
PROOF
<1>1. /\ result.status = "running" /\ Root \in DOMAIN args /\ exec[Root].pc = "done"
      /\ args' = args /\ exec' = exec
  BY DEF Finish, AllInv, ResultInv
<1>2. /\ \A c \in DOMAIN args : exec[c].pc = "done"
      /\ HasFailed(Root) <=> \E c \in DOMAIN args : ~ Ok(c)
  BY <1>1, RootDone DEF AllInv
<1>3. DOMAIN Progressed = DOMAIN args /\ DOMAIN Due = DOMAIN args
  BY DEF Progressed, Due
<1>4. \A c \in DOMAIN args : Progressed[c] = IF Ok(c) THEN "ok" ELSE "failed"
  BY <1>2 DEF Progressed, Progress, Ok
<1>5. \A c \in DOMAIN args : \A i \in Due[c] : Append(c, i) \in DOMAIN args
  BY DEF Due, AllInv, CallsInv
<1>6. Run!Settled
  BY <1>3, <1>4, <1>5 DEF Run!Settled, Run!Begun
<1>7. exec[Root].traces \in Seq(TraceShape)
  BY <1>1, CallShapes DEF AllInv, ExecShape
<1>8. Outcome = "pending" /\ Outcome' = IF HasFailed(Root) THEN "failed" ELSE "completed"
  <2> DEFINE ts == exec[Root].traces
  <2>1. HasFailed(Root) <=> \E k \in 1..Len(ts) : ts[k].status = "failed"
    BY DEF HasFailed
  <2>2. result'.status = AllOK(ts)
    BY DEF Finish
  <2> HIDE DEF ts
  <2>3. \A k \in 1..Len(ts) : ts[k] \in TraceShape
    BY <1>7 DEF ts
  <2>4. \A k \in 1..Len(ts) : ts[k].status \in {"completed", "failed"}
    BY <2>3 DEF TraceShape
  <2>5. result'.status = IF HasFailed(Root) THEN "failed" ELSE "completed"
    BY <2>1, <2>2, <2>4 DEF AllOK
  <2> QED BY <1>1, <2>5 DEF Outcome
<1>9. Outcome' = IF \A c \in DOMAIN Progressed : Progressed[c] = "ok" THEN "completed" ELSE "failed"
  BY <1>2, <1>3, <1>4, <1>8
<1>10. Progressed' = Progressed /\ Due' = Due
  BY <1>1 DEF Progressed, Due, Progress
<1>11. Run!Report
  BY <1>6, <1>8, <1>9, <1>10 DEF Run!Report
<1> QED BY <1>11 DEF Run!Next

LEMMA NextMaps ==
  ASSUME AllInv, AllInv', [Next]_vars PROVE Run!Next \/ UNCHANGED Run!vars
PROOF
<1>1. ASSUME NEW c \in DOMAIN args, CallStep(c) PROVE Run!Next \/ UNCHANGED Run!vars
  BY <1>1, StepKinds, EndsMaps, OpensMaps, StaysMaps DEF AllInv
<1>2. CASE UNCHANGED vars
  BY <1>2 DEF vars, Run!vars, Progressed, Due, Outcome, Progress
<1> QED BY <1>1, <1>2, NextIs, ExecuteMaps, FinishMaps, DiscoveryMaps

LEMMA InitMaps == Init => Run!Init
PROOF
<1> SUFFICES ASSUME Init PROVE Run!Init
  OBVIOUS
<1>1. DOMAIN args = {} /\ result.status = "none"
  BY DEF Init
<1>2. Progressed = <<>> /\ Due = <<>>
  BY <1>1 DEF Progressed, Due
<1>3. Outcome = "none"
  BY <1>1 DEF Outcome
<1> QED BY <1>2, <1>3 DEF Run!Init

(* Whatever the definition, the workers and the order of their answers, an *)
(* execution by the TypeScript engine is a WorkflowRun, as one by the Go   *)
(* engine is.                                                              *)
THEOREM ImplementsRun == Spec => ImplementsWorkflowRun
PROOF
<1>1. AllInv /\ AllInv' /\ [Next]_vars => [Run!Next]_(Run!vars)
  BY NextMaps
<1> QED BY AllHolds, InitMaps, <1>1, PTL DEF Spec, ImplementsWorkflowRun, Run!Spec

-----------------------------------------------------------------------------
(***************************************************************************)
(* The traces of a result: one of each leaf, in the order of the branches. *)
(*                                                                         *)
(* What Promise.all resolves with is in the order of the branches, in      *)
(* whatever order they settle (LeafInv).                                   *)
(***************************************************************************)

(* Traces whose last calls were entered one before the other.              *)
InOrder(ts) == \A j, k \in 1..Len(ts) : j < k => Before(EndOf(ts[j]), EndOf(ts[k]))

(* Traces that run from c to the calls of D, one to each, in that order.   *)
OneEach(ts, c, D) ==
  /\ \A k \in 1..Len(ts) : EndOf(ts[k]) \in D /\ ts[k].nodes = PathFrom(c, EndOf(ts[k]))
  /\ \A d \in D : \E k \in 1..Len(ts) : EndOf(ts[k]) = d
  /\ InOrder(ts)

LeavesUnder(c) == {d \in Leaves : Under(d, c)}

(* What a call has returned it returned in order; and one that waits for   *)
(* others waits for some, so that it is no leaf.                           *)
LeafOK(c) ==
  /\ exec[c].pc = "done" => OneEach(exec[c].traces, c, LeavesUnder(c))
  /\ exec[c].pc = "called" => exec[c].hits # {}
LeafInv == \A c \in DOMAIN args : LeafOK(c)

-----------------------------------------------------------------------------
(* No call comes before itself.                                            *)
LEMMA NotBeforeItself == ASSUME NEW d \in Seq(Nat) PROVE ~ Before(d, d)
PROOF
<1>1. Len(d) \in Nat /\ \A k \in 1..Len(d) : d[k] \in Nat
  BY LenProperties, ElementOfSeq
<1> QED BY <1>1 DEF Before

(* An address that starts with the one of a branch of c.                   *)
LEMMA StartsAs ==
  ASSUME NEW c \in Seq(Nat), NEW x \in Seq(Nat), NEW h \in Nat,
         Len(c) < Len(x), Prefix(x, Len(c) + 1) = Append(c, h)
  PROVE  x[Len(c) + 1] = h /\ \A k \in 1..Len(c) : x[k] = c[k]
PROOF
<1> DEFINE m == Len(c)
<1>1. m \in Nat /\ Len(x) \in Nat /\ m < Len(x)
  BY LenProperties
<1>2. /\ Len(Append(c, h)) = m + 1 /\ Append(c, h)[m + 1] = h
      /\ \A k \in 1..m : Append(c, h)[k] = c[k]
  BY AppendProperties
<1>3. \A k \in 1..(m + 1) : x[k] \in Nat
  <2> TAKE k \in 1..(m + 1)
  <2>1. k \in 1..Len(x)
    BY <1>1
  <2> QED BY <2>1, ElementOfSeq
<1> HIDE DEF m
<1>4. \A k \in 1..(m + 1) : SubSeq(x, 1, m + 1)[k] = x[k]
  BY <1>1, <1>3, SubSeqProperties
<1>5. \A k \in 1..(m + 1) : Append(c, h)[k] = x[k]
  BY <1>4 DEF Prefix, m
<1>6. m + 1 \in 1..(m + 1) /\ \A k \in 1..m : k \in 1..(m + 1)
  BY <1>1
<1>7. x[m + 1] = h /\ \A k \in 1..m : x[k] = c[k]
  BY <1>2, <1>5, <1>6
<1> QED BY <1>7 DEF m

(* What is below an earlier branch comes before what is below a later one. *)
LEMMA BranchesInOrder ==
  ASSUME NEW c \in Seq(Nat), NEW i \in Nat, NEW j \in Nat, i < j,
         NEW d \in Seq(Nat), NEW e \in Seq(Nat), Under(d, Append(c, i)), Under(e, Append(c, j))
  PROVE  Before(d, e)
PROOF
<1> DEFINE m == Len(c)
<1>1. m < Len(d) /\ Prefix(d, m + 1) = Append(c, i)
  BY UnderCaller
<1>2. m < Len(e) /\ Prefix(e, m + 1) = Append(c, j)
  BY UnderCaller
<1>3. m \in Nat /\ Len(d) \in Nat /\ Len(e) \in Nat
  BY LenProperties
<1>4. d[m + 1] = i /\ \A k \in 1..m : d[k] = c[k]
  BY <1>1, StartsAs
<1>5. e[m + 1] = j /\ \A k \in 1..m : e[k] = c[k]
  BY <1>2, StartsAs
<1> HIDE DEF m
<1>6. m < Len(d) /\ m < Len(e)
  BY <1>1, <1>2
<1>7. m + 1 \in 1..Len(e) /\ m + 1 <= Len(d) /\ (m + 1) - 1 = m
  BY <1>3, <1>6
<1>8. \A k \in 1..m : k <= Len(d)
  BY <1>3, <1>6
<1>9. \A k \in 1..m : d[k] = e[k]
  BY <1>4, <1>5
<1> QED BY <1>4, <1>5, <1>7, <1>8, <1>9 DEF Before

(* Sequences in order, gathered in order, are in order.                    *)
LEMMA GatherInOrder ==
  ASSUME NEW T, NEW n \in Nat, NEW g, \A i \in 1..n : g[i] \in Seq(T) /\ InOrder(g[i]),
         \A i, j \in 1..n : i < j =>
           \A k \in 1..Len(g[i]), l \in 1..Len(g[j]) : Before(EndOf(g[i][k]), EndOf(g[j][l])),
         NEW u, Gathers(u, n, g)
  PROVE  \A k \in 0..n : InOrder(u[k])
PROOF
<1> DEFINE P(k) == InOrder(u[k])
           S == {k \in 0..n : ~ P(k)}
<1> SUFFICES ASSUME S # {} PROVE FALSE
  OBVIOUS
<1>1. PICK m \in S : \A k \in S : m <= k
  <2>1. S \subseteq Nat
    OBVIOUS
  <2> HIDE DEF S
  <2> QED BY <2>1, LeastNatural
<1>2. m \in 0..n /\ ~ P(m)
  OBVIOUS
<1>3. \A k \in 0..n : u[k] = IF k = 0 THEN <<>> ELSE u[k - 1] \o g[k]
  BY DEF Gathers
<1>4. \A k \in 0..n : Gathered(u[k], k, g, T)
  BY GatherIs
<1>5. CASE m = 0
  <2>1. u[m] = <<>>
    BY <1>2, <1>3, <1>5
  <2> QED BY <1>2, <2>1 DEF InOrder
<1>6. CASE m # 0
  <2>1. m \in 1..n /\ m - 1 \in 0..n /\ P(m - 1)
    <3>1. m \in 1..n /\ m - 1 \in 0..n /\ m - 1 \notin S
      <4> HIDE DEF P, S
      <4>1. m \in 1..n /\ m - 1 \in 0..n /\ ~ (m <= m - 1)
        BY <1>2, <1>6
      <4> QED BY <1>1, <4>1
    <3> QED BY <3>1
  <2> DEFINE a == u[m - 1]
             b == g[m]
             s == u[m]
  <2>2. s = a \o b /\ a \in Seq(T) /\ b \in Seq(T) /\ InOrder(a) /\ InOrder(b)
    BY <1>2, <1>3, <1>4, <1>6, <2>1 DEF Gathered
  <2>3. \A j \in 1..Len(a) : \E i \in 1..(m - 1) : \E l \in 1..Len(g[i]) : a[j] = g[i][l]
    BY <1>4, <2>1 DEF Gathered
  <2>4. ASSUME NEW j \in 1..Len(a), NEW k \in 1..Len(b) PROVE Before(EndOf(a[j]), EndOf(b[k]))
    <3>1. PICK i \in 1..(m - 1) : \E l \in 1..Len(g[i]) : a[j] = g[i][l]
      BY <2>3
    <3>2. i \in 1..n /\ i < m
      BY <2>1
    <3> QED BY <2>1, <3>1, <3>2
  <2> HIDE DEF a, b, s
  <2>5. /\ Len(s) = Len(a) + Len(b) /\ Len(a) \in Nat /\ Len(b) \in Nat
        /\ \A j \in 1..Len(a) : s[j] = a[j]
        /\ \A j \in (Len(a) + 1)..(Len(a) + Len(b)) : s[j] = b[j - Len(a)]
    BY <2>2, ConcatProperties, LenProperties
  <2>6. ASSUME NEW j \in 1..Len(s), NEW k \in 1..Len(s), j < k
        PROVE  Before(EndOf(s[j]), EndOf(s[k]))
    <3>1. CASE k \in 1..Len(a)
      <4>1. j \in 1..Len(a)
        BY <2>5, <2>6, <3>1
      <4> QED BY <2>2, <2>5, <2>6, <3>1, <4>1 DEF InOrder
    <3>2. CASE k \notin 1..Len(a)
      <4>1. /\ k \in (Len(a) + 1)..(Len(a) + Len(b)) /\ k - Len(a) \in 1..Len(b)
            /\ s[k] = b[k - Len(a)]
        BY <2>5, <3>2
      <4>2. CASE j \in 1..Len(a)
        BY <2>4, <2>5, <4>1, <4>2
      <4>3. CASE j \notin 1..Len(a)
        <5>1. /\ j \in (Len(a) + 1)..(Len(a) + Len(b)) /\ j - Len(a) \in 1..Len(b)
              /\ j - Len(a) < k - Len(a)
          BY <2>5, <2>6, <4>1, <4>3
        <5>2. s[j] = b[j - Len(a)]
          BY <2>5, <5>1
        <5> QED BY <2>2, <4>1, <5>1, <5>2 DEF InOrder
      <4> QED BY <4>2, <4>3
    <3> QED BY <3>1, <3>2
  <2>7. InOrder(s)
    BY <2>6 DEF InOrder
  <2> QED BY <1>2, <2>7 DEF s
<1> QED BY <1>5, <1>6

-----------------------------------------------------------------------------
(* Whatever is below a call is below a call that it made.                  *)
LEMMA CallsOnTheWay ==
  ASSUME CallsInv, PayInv, NEW a \in DOMAIN args, NEW d \in DOMAIN args, Under(d, a), d # a
  PROVE  \E i \in exec[a].hits : Append(a, i) \in DOMAIN args /\ Under(d, Append(a, i))
PROOF
<1>1. a \in Seq(Nat) /\ d \in Seq(Nat)
  BY CallShapes
<1> DEFINE n == Len(a) + 1
           e == Append(a, d[n])
<1>2. /\ Len(a) \in Nat /\ Len(d) \in Nat /\ n <= Len(d) /\ d[n] \in Nat
      /\ Prefix(d, n) = e /\ Under(d, e)
  BY <1>1, UnderSuccessor
<1>3. e \in DOMAIN args
  <2>1. CASE n = Len(d)
    BY <1>1, <1>2, <2>1, SubSeqFull DEF Prefix
  <2>2. CASE n # Len(d)
    <3>1. n \in 0..(Len(d) - 1)
      BY <1>2, <2>2
    <3> QED BY <1>2, <3>1 DEF PayInv
  <2> QED BY <2>1, <2>2
<1>4. e # Root
  BY <1>1, <1>2, AppendProperties DEF Root
<1>5. PICK b \in DOMAIN args : \E j \in exec[b].hits : e = Append(b, j)
  BY <1>3, <1>4 DEF CallsInv
<1>6. PICK j \in exec[b].hits : e = Append(b, j)
  BY <1>5
<1>7. b \in Seq(Nat) /\ j \in Nat
  BY CallShapes DEF ExecShape
<1>8. b = a /\ j = d[n]
  <2>1. Append(a, d[n]) = Append(b, j) /\ a \in Seq(Nat) /\ d[n] \in Nat
    BY <1>1, <1>2, <1>6
  <2> HIDE DEF n, e
  <2> QED BY <1>7, <2>1, AddressInjective
<1>9. j \in exec[a].hits /\ Append(a, j) = e
  BY <1>6, <1>8
<1> HIDE DEF e, n
<1> QED BY <1>2, <1>3, <1>9

(* A call resolves after everything below it.                              *)
LEMMA DoneBelow ==
  ASSUME CallsInv, PayInv, RunInv, NEW a \in DOMAIN args, exec[a].pc = "done",
         NEW d \in DOMAIN args, Under(d, a)
  PROVE  exec[d].pc = "done"
PROOF
<1> DEFINE S == {x \in DOMAIN args : Under(x, a) /\ exec[x].pc # "done"}
           T == {Len(x) : x \in S}
<1> SUFFICES ASSUME S # {} PROVE FALSE
  OBVIOUS
<1>1. \A x \in DOMAIN args : x \in Seq(Nat) /\ Len(x) \in Nat
  BY CallShapes, LenProperties
<1>2. PICK e \in S : \A x \in S : Len(e) <= Len(x)
  <2>1. T \subseteq Nat /\ T # {}
    BY <1>1
  <2>2. PICK n \in T : \A m \in T : n <= m
    BY <2>1, LeastNatural
  <2> QED BY <2>2
<1>3. e \in DOMAIN args /\ Under(e, a) /\ e # a
  OBVIOUS
<1>4. e # Root
  <2>1. Len(a) \in Nat /\ Len(a) + 1 <= Len(e)
    BY <1>1, <1>3, UnderSuccessor
  <2> QED BY <2>1 DEF Root
<1>5. PICK b \in DOMAIN args : \E j \in exec[b].hits : e = Append(b, j)
  BY <1>3, <1>4 DEF CallsInv
<1>6. PICK i \in exec[b].hits : e = Append(b, i)
  BY <1>5
<1>7. i \in Nat /\ Len(e) = Len(b) + 1
  <2>1. i \in Nat
    BY CallShapes DEF ExecShape
  <2> QED BY <1>1, <1>6, <2>1, AppendProperties
<1>8. b \notin S
  <2>1. ~ (Len(e) <= Len(b))
    BY <1>1, <1>7
  <2> HIDE DEF S
  <2> QED BY <1>2, <2>1
<1>9. exec[b].pc = "done"
  BY <1>1, <1>3, <1>6, <1>7, <1>8, CallerUnder
<1> QED BY <1>3, <1>6, <1>9 DEF RunInv, CallOK, PassedUp

(* A leaf has no child.                                                    *)
LEMMA LeafIs ==
  ASSUME CallsInv, NEW c \in DOMAIN args
  PROVE  c \in Leaves <=> \A i \in Nat : Append(c, i) \notin DOMAIN args
PROOF
<1>1. DOMAIN args \subseteq Seq(Nat)
  BY DEF CallsInv
<1> QED BY <1>1, LeafHasNoSuccessor DEF Leaves

(* No step adds or removes a leaf below a call that has resolved.          *)
LEMMA LeavesBelowStay ==
  ASSUME CallsInv, CallsInv', PayInv, RunInv, NEW c \in DOMAIN args, StepOf(c),
         NEW a \in DOMAIN args, exec[a].pc = "done"
  PROVE  LeavesUnder(a)' = LeavesUnder(a)
PROOF
<1>0. /\ \A x \in DOMAIN args' : x \in Seq(Nat)
      /\ DOMAIN args \subseteq DOMAIN args' /\ exec[c].pc # "done"
      /\ \A x \in DOMAIN args' : x \notin DOMAIN args => \E i \in Nat : x = Append(c, i)
  <2>1. exec'[c].hits \subseteq Nat
    BY DEF CallsInv, StepOf, ExecShape
  <2>2. \A x \in DOMAIN args' : x \notin DOMAIN args => \E i \in exec'[c].hits : x = Append(c, i)
    BY DEF StepOf
  <2>3. exec[c].pc # "done" /\ DOMAIN args \subseteq DOMAIN args' /\ DOMAIN args' \subseteq Seq(Nat)
    BY DEF CallsInv, StepOf, Undecided
  <2> QED BY <2>1, <2>2, <2>3
<1>1. ASSUME NEW x \in DOMAIN args', NEW i \in Nat, x = Append(c, i), Under(x, a) PROVE x = a
  BY <1>0, <1>1, CallerUnder, DoneBelow
<1>2. \A x \in DOMAIN args' : (x \in Leaves' <=> \A i \in Nat : Append(x, i) \notin DOMAIN args')
  <2>1. DOMAIN args' \subseteq Seq(Nat)
    BY <1>0
  <2> QED BY <2>1, LeafHasNoSuccessor DEF Leaves, Prefix
<1>3. Leaves \subseteq DOMAIN args /\ Leaves' \subseteq DOMAIN args'
  BY DEF Leaves
<1>4. ASSUME NEW d \in Leaves', Under(d, a) PROVE d \in Leaves
  <2>1. d \in DOMAIN args
    BY <1>0, <1>1, <1>3, <1>4
  <2> QED BY <1>0, <1>2, <1>3, <2>1, LeafIs
<1>5. ASSUME NEW d \in Leaves, Under(d, a) PROVE d \in Leaves'
  <2>1. d \in DOMAIN args /\ d \in DOMAIN args'
    BY <1>0, <1>3
  <2>2. exec[d].pc = "done"
    BY <1>5, <2>1, DoneBelow
  <2>3. ASSUME NEW i \in Nat, Append(d, i) \in DOMAIN args' PROVE FALSE
    <3>1. Append(d, i) \notin DOMAIN args
      BY <2>1, LeafIs
    <3>2. PICK j \in Nat : Append(d, i) = Append(c, j)
      BY <1>0, <2>3, <3>1
    <3>3. d = c
      <4>1. d \in Seq(Nat) /\ c \in Seq(Nat)
        BY <1>0, <2>1
      <4> QED BY <3>2, <4>1, AddressInjective
    <3>4. exec[c].pc # "done"
      BY <1>0
    <3> QED BY <2>2, <3>3, <3>4
  <2> QED BY <1>2, <2>1, <2>3
<1> QED BY <1>4, <1>5 DEF LeavesUnder, Under, Prefix

-----------------------------------------------------------------------------
(* A step of c leaves to every other call what it has returned.            *)
LEMMA OthersKeepLeaves ==
  ASSUME CallsInv, CallsInv', PayInv, RunInv, LeafInv, NEW c \in DOMAIN args, StepOf(c), LeafOK(c)'
  PROVE  LeafInv'
PROOF
<1> SUFFICES ASSUME NEW d \in DOMAIN args', d # c PROVE LeafOK(d)'
  BY DEF LeafInv
<1>1. CASE d \notin DOMAIN args
  BY <1>1, EnteredIs DEF StepOf, LeafOK
<1>2. CASE d \in DOMAIN args
  <2>1. exec'[d] = exec[d] /\ LeafOK(d)
    BY <1>2 DEF StepOf, LeafInv
  <2>2. exec[d].pc = "done" => LeavesUnder(d)' = LeavesUnder(d)
    BY <1>2, LeavesBelowStay
  <2> QED BY <2>1, <2>2 DEF LeafOK
<1> QED BY <1>1, <1>2

(* A call that returns a trace of its own is a leaf, the only one below.   *)
LEMMA EndsInOrder ==
  ASSUME CallsInv, PayInv, NEW c \in DOMAIN args, Undecided(c), args' = args,
         exec'[c].pc = "done", NEW t, exec'[c].traces = <<Trace(<<c>>, t)>>
  PROVE  LeafOK(c)'
PROOF
<1>1. c \in Seq(Nat) /\ exec[c].hits = {} /\ ~ Decided(c)
  BY CallShapes DEF CallsInv, Undecided, Decided
<1>2. c \in Leaves
  BY <1>1, LeafIs, NoneBelow
<1>3. \A d \in DOMAIN args : Under(d, c) => d = c
  BY <1>1, CallsOnTheWay
<1>4. LeavesUnder(c)' = {c}
  <2>1. Under(c, c)
    BY <1>1, UnderItself
  <2>2. Leaves' = Leaves /\ Leaves \subseteq DOMAIN args
    BY DEF Leaves
  <2>3. LeavesUnder(c)' = {d \in Leaves : Under(d, c)}
    BY <2>2 DEF LeavesUnder, Under, Prefix
  <2> QED BY <1>2, <1>3, <2>1, <2>2, <2>3
<1> DEFINE ts == exec'[c].traces
<1>5. Len(ts) = 1 /\ ts[1].nodes = <<c>>
  BY TraceIs
<1> HIDE DEF ts
<1>6. EndOf(ts[1]) = c /\ \A k \in 1..Len(ts) : k = 1
  <2>1. Len(<<c>>) = 1 /\ <<c>>[1] = c
    OBVIOUS
  <2> QED BY <1>5, <2>1 DEF EndOf
<1>7. PathFrom(c, c) = <<c>>
  BY <1>1, PathOfItself
<1>8. OneEach(ts, c, {c})
  BY <1>5, <1>6, <1>7 DEF OneEach, InOrder
<1> QED BY <1>4, <1>8 DEF LeafOK, ts

(* A call's traces come in the order of the branches, whatever the order   *)
(* in which those resolved, and end at the leaves below the call.          *)
LEMMA BelowInOrder ==
  ASSUME CallsInv, LeafInv, NEW c \in DOMAIN args, AllDone(c)
  PROVE  InOrder(Below(c))
PROOF
<1> DEFINE n == Len(Succ(c))
           g == TracesOf(c)
<1>1. n \in Nat /\ c \in Seq(Nat) /\ Leaves \subseteq Seq(Nat)
  BY CallShapes DEF CallsInv, Leaves
<1>2. PICK u : Gathers(u, n, g) /\ Below(c) = u[n]
  BY BelowGathers
<1>3. \A i \in 1..n : g[i] \in Seq(TraceShape)
  BY BelowGathers
<1>4. \A i \in 1..n : \/ /\ g[i] = exec[Append(c, i)].traces
                         /\ OneEach(g[i], Append(c, i), LeavesUnder(Append(c, i)))
                      \/ g[i] = <<>>
  <2> TAKE i \in 1..n
  <2>1. CASE i \in exec[c].hits
    <3>1. Append(c, i) \in DOMAIN args /\ exec[Append(c, i)].pc = "done"
      BY <2>1 DEF CallsInv, AllDone
    <3>2. g[i] = exec[Append(c, i)].traces
      BY <2>1 DEF TracesOf
    <3> HIDE DEF g
    <3> QED BY <3>1, <3>2 DEF LeafInv, LeafOK
  <2>2. CASE i \notin exec[c].hits
    BY <2>2 DEF TracesOf
  <2> QED BY <2>1, <2>2
<1> HIDE DEF g, n
<1>5. \A i \in 1..n : InOrder(g[i])
  BY <1>4 DEF OneEach, InOrder
<1>6. \A i \in 1..n : \A k \in 1..Len(g[i]) :
        EndOf(g[i][k]) \in Seq(Nat) /\ Under(EndOf(g[i][k]), Append(c, i))
  BY <1>1, <1>4 DEF OneEach, LeavesUnder
<1>7. \A i, j \in 1..n : i < j =>
        \A k \in 1..Len(g[i]), l \in 1..Len(g[j]) : Before(EndOf(g[i][k]), EndOf(g[j][l]))
  BY <1>1, <1>6, BranchesInOrder
<1>8. \A k \in 0..n : InOrder(u[k])
  BY <1>1, <1>2, <1>3, <1>5, <1>7, GatherInOrder
<1> QED BY <1>1, <1>2, <1>8

(* What Promise.all joins is in the order of the branches.                 *)
LEMMA ResolvesInOrder ==
  ASSUME CallsInv, PayInv, LeafInv, NEW c \in DOMAIN args, Resolves(c),
         exec'[c].pc = "done", exec'[c].traces = Prepended(c, Below(c))
  PROVE  LeafOK(c)'
PROOF
<1> DEFINE b == Below(c)
           p == Prepended(c, b)
<1>1. /\ c \in Seq(Nat) /\ b \in Seq(TraceShape) /\ args' = args /\ AllDone(c)
      /\ exec[c].pc = "called" /\ exec[c].hits \subseteq Nat
  <2>1. c \in Seq(Nat) /\ exec[c].hits \subseteq Nat
    BY CallShapes DEF ExecShape
  <2>2. Below(c) \in Seq(TraceShape)
    BY BelowIs
  <2>3. exec[c].pc = "called" /\ AllDone(c) /\ args' = args
    BY DEF Resolves
  <2> QED BY <2>1, <2>2, <2>3
<1>2. LeavesUnder(c)' = LeavesUnder(c) /\ Leaves \subseteq DOMAIN args /\ Leaves \subseteq Seq(Nat)
  BY <1>1 DEF LeavesUnder, Leaves, Under, Prefix, CallsInv
<1>3. ASSUME NEW i \in exec[c].hits
      PROVE  /\ OneEach(exec[Append(c, i)].traces, Append(c, i), LeavesUnder(Append(c, i)))
             /\ exec[Append(c, i)].traces \in Seq(TraceShape)
  <2>1. Append(c, i) \in DOMAIN args /\ exec[Append(c, i)].pc = "done"
    BY <1>1 DEF CallsInv, AllDone
  <2> QED BY <2>1, CallShapes DEF LeafInv, LeafOK, ExecShape
<1>4. c \notin Leaves
  <2>1. PICK i \in exec[c].hits : TRUE
    BY <1>1 DEF LeafInv, LeafOK
  <2>2. Append(c, i) \in DOMAIN args /\ i \in Nat
    BY <1>1 DEF CallsInv
  <2> QED BY <2>2, LeafIs
<1>5. ASSUME NEW k \in 1..Len(b)
      PROVE  /\ EndOf(b[k]) \in LeavesUnder(c) /\ EndOf(p[k]) = EndOf(b[k])
             /\ p[k].nodes = PathFrom(c, EndOf(b[k]))
  <2>1. PICK i \in exec[c].hits : \E l \in 1..Len(exec[Append(c, i)].traces) :
          b[k] = exec[Append(c, i)].traces[l]
    BY BelowIs
  <2> DEFINE ns == b[k].nodes
             d == EndOf(b[k])
  <2>2. d \in LeavesUnder(Append(c, i)) /\ ns = PathFrom(Append(c, i), d)
    BY <1>3, <2>1 DEF OneEach
  <2>3. ns \in Seq(Seq(Nat)) /\ i \in Nat
    <3>1. b[k] \in TraceShape
      BY <1>1
    <3> QED BY <1>1, <3>1 DEF TraceShape
  <2>4. d \in Leaves /\ d \in Seq(Nat) /\ Under(d, Append(c, i))
    BY <1>2, <2>2 DEF LeavesUnder
  <2>5. <<c>> \o ns = PathFrom(c, d) /\ Len(ns) >= 1 /\ Under(d, c)
    <3> HIDE DEF ns, d
    <3>1. <<c>> \o ns = PathFrom(c, d) /\ Len(ns) >= 1
      BY <1>1, <2>2, <2>3, <2>4, PathFromCaller
    <3>2. Under(d, c)
      BY <1>1, <2>3, <2>4, UnderCaller
    <3> QED BY <3>1, <3>2
  <2>6. p[k].nodes = <<c>> \o ns /\ EndOf(p[k]) = d
    <3>1. EndOf(p[k]) = d
      BY <1>1, <2>5, PrependedIs
    <3>2. p[k] = Trace(<<c>> \o ns, b[k].status)
      BY DEF Prepended
    <3> QED BY <3>1, <3>2, TraceIs
  <2> QED BY <2>4, <2>5, <2>6 DEF LeavesUnder
<1>6. ASSUME NEW d \in LeavesUnder(c) PROVE \E k \in 1..Len(b) : EndOf(b[k]) = d
  <2>1. d \in DOMAIN args /\ Under(d, c) /\ d # c
    BY <1>2, <1>4 DEF LeavesUnder
  <2>2. PICK i \in exec[c].hits : Under(d, Append(c, i))
    BY <2>1, CallsOnTheWay
  <2>3. d \in LeavesUnder(Append(c, i))
    BY <2>2 DEF LeavesUnder
  <2>4. PICK l \in 1..Len(exec[Append(c, i)].traces) : EndOf(exec[Append(c, i)].traces[l]) = d
    BY <1>3, <2>3 DEF OneEach
  <2>5. PICK j \in 1..Len(b) : b[j] = exec[Append(c, i)].traces[l]
    BY BelowIs
  <2> QED BY <2>4, <2>5
<1>7. InOrder(b) /\ Len(p) = Len(b)
  BY <1>1, BelowInOrder, PrependedIs
<1>8. exec'[c].traces = p
  OBVIOUS
<1> HIDE DEF p, b
<1>9. OneEach(p, c, LeavesUnder(c))
  BY <1>5, <1>6, <1>7 DEF OneEach, InOrder
<1> QED BY <1>2, <1>8, <1>9 DEF LeafOK

(* Every step keeps the traces those of the leaves, in order.              *)
LEMMA NextLeaves == AllInv /\ PayInv /\ LeafInv /\ [Next]_vars => LeafInv'
PROOF
<1> SUFFICES ASSUME AllInv, PayInv, LeafInv, [Next]_vars PROVE LeafInv'
  OBVIOUS
<1>0. CallsInv /\ CallsInv' /\ ResultInv /\ RunInv
  BY NextCalls DEF AllInv
<1>1. ASSUME NEW c \in DOMAIN args, CallStep(c) PROVE LeafInv'
  <2>1. StepOf(c) /\ Same
    BY <1>0, <1>1, CallStepKeeps, StepKinds
  <2>2. CASE Ends(c)
    <3>1. LeafOK(c)'
      BY <1>0, <2>1, <2>2, EndsKeeps, EndsInOrder DEF Ends
    <3> QED BY <1>0, <2>1, <3>1, OthersKeepLeaves
  <2>3. CASE Stalls(c)
    <3>1. LeafOK(c)'
      BY <1>0, <2>1, <2>3, StallsKeeps DEF LeafOK
    <3> QED BY <1>0, <2>1, <3>1, OthersKeepLeaves
  <2>4. ASSUME NEW is, NEW p, Opens(c, is, p) PROVE LeafInv'
    <3>1. is # {}
      BY <2>4 DEF Opens
    <3>2. Opened(c, is, p)
      BY <1>0, <2>4, OpensIs
    <3>3. LeafOK(c)'
      BY <3>1, <3>2 DEF Opened, LeafOK
    <3> QED BY <1>0, <2>1, <3>3, OthersKeepLeaves
  <2>5. CASE Resolves(c)
    <3>1. LeafOK(c)'
      BY <1>0, <2>1, <2>5, ResolvesKeeps, ResolvesInOrder
    <3> QED BY <1>0, <2>1, <3>1, OthersKeepLeaves
  <2> QED BY <1>0, <1>1, <2>2, <2>3, <2>4, <2>5, StepKinds
<1>2. CASE Execute
  <2>1. args = <<>> /\ DOMAIN args = {}
    BY <1>0, <1>2 DEF Execute, ResultInv
  <2>2. \A c \in DOMAIN args' : exec'[c] = Entered
    BY <1>2, <2>1, ExecuteIs
  <2> QED BY <2>2, EnteredIs DEF LeafInv, LeafOK
<1>3. CASE Idles
  <2>1. args' = args /\ exec' = exec
    BY <1>3 DEF Idles
  <2>2. \A c : LeavesUnder(c)' = LeavesUnder(c)
    BY <2>1 DEF LeavesUnder, Leaves, Under, Prefix
  <2> QED BY <2>1, <2>2 DEF LeafInv, LeafOK
<1> QED BY <1>1, <1>2, <1>3, NextIs, OthersIdle

(* Traces in order, one to each of D, are as many as D has elements.       *)
LEMMA OneEachCounts ==
  ASSUME NEW ts, NEW c, NEW D, D \subseteq Seq(Nat), Len(ts) \in Nat, OneEach(ts, c, D)
  PROVE  Len(ts) = Cardinality(D)
PROOF
<1> DEFINE f == [k \in 1..Len(ts) |-> EndOf(ts[k])]
<1>1. f \in [1..Len(ts) -> D] /\ \A k \in 1..Len(ts) : f[k] = EndOf(ts[k])
  BY DEF OneEach
<1>2. ASSUME NEW k \in 1..Len(ts), NEW l \in 1..Len(ts), f[k] = f[l] PROVE k = l
  <2>1. ~ (k < l) /\ ~ (l < k)
    BY <1>1, <1>2, NotBeforeItself DEF OneEach, InOrder
  <2> QED BY <2>1
<1>3. \A d \in D : \E k \in 1..Len(ts) : f[k] = d
  BY <1>1 DEF OneEach
<1> HIDE DEF f
<1>4. f \in Bijection(1..Len(ts), D)
  BY <1>1, <1>2, <1>3, Fun_IsBij
<1>5. ExistsBijection(1..Len(ts), D)
  BY <1>4 DEF ExistsBijection
<1> QED BY <1>5, FS_CountingElements

(* execute resolves to one trace for each leaf of the calls made, in the   *)
(* order of the branches, in whatever order the workers answered.          *)
THEOREM TracesKeepBranchOrder == Spec => []TracesInBranchOrder
PROOF
<1>1. AllInv /\ LeafInv => TracesInBranchOrder
  <2> SUFFICES ASSUME AllInv, LeafInv, Final PROVE TracesInBranchOrder
    BY DEF TracesInBranchOrder
  <2>1. /\ Root \in DOMAIN args /\ exec[Root].pc = "done" /\ result.traces = exec[Root].traces
        /\ Len(result.traces) \in Nat /\ Leaves \subseteq Seq(Nat)
    BY LenProperties DEF AllInv, ResultInv, Final, CallsInv, Leaves
  <2>2. LeavesUnder(Root) = Leaves
    BY <2>1, UnderItself DEF LeavesUnder, Root
  <2>3. OneEach(result.traces, Root, Leaves)
    BY <2>1, <2>2 DEF LeafInv, LeafOK
  <2>4. ASSUME NEW d \in Leaves PROVE PathFrom(Root, d) = PathTo(d)
    <3>1. Len(d) \in Nat /\ Len(Root) = 0
      BY <2>1, LenProperties DEF Root
    <3>2. Len(d) - Len(Root) + 1 = Len(d) + 1
      BY <3>1
    <3>3. \A k \in 1..(Len(d) + 1) : Len(Root) + k - 1 = k - 1
      BY <3>1
    <3> QED BY <3>2, <3>3 DEF PathFrom, PathTo
  <2>5. {result.traces[k].nodes : k \in 1..Len(result.traces)} = {PathTo(c) : c \in Leaves}
    BY <2>3, <2>4 DEF OneEach
  <2>6. Len(result.traces) = Cardinality(Leaves)
    BY <2>1, <2>3, OneEachCounts
  <2>7. \A j, k \in 1..Len(result.traces) : j < k =>
          Before(EndOf(result.traces[j]), EndOf(result.traces[k]))
    BY <2>3 DEF OneEach, InOrder
  <2> QED BY <2>5, <2>6, <2>7 DEF TracesInBranchOrder, EndOf
<1>2. Init => ArgsInv /\ PayInv /\ LeafInv
  BY DEF Init, ArgsInv, PayInv, LeafInv
<1> QED BY AllHolds, NextArgs, NextPay, NextLeaves, <1>1, <1>2, PTL DEF Spec
=============================================================================
