--------------------------- MODULE RegistryProofs ---------------------------
(***************************************************************************)
(* Proofs about Registry, for any ids, workers, resolvers and counter.     *)
(***************************************************************************)
EXTENDS Registry, WorkflowProofs

(* Registering keeps the list a list of known URLs, and never empties it.  *)
LEMMA RegisteredType ==
  ASSUME NEW S, NEW urls \in Seq(S), NEW url \in S
  PROVE  /\ Registered(urls, url) \in Seq(S)
         /\ Registered(urls, url) # <<>>
         /\ Len(urls) <= Len(Registered(urls, url))
         /\ \A k \in 1..Len(urls) : Registered(urls, url)[k] = urls[k]
PROOF
<1>1. CASE \E k \in 1..Len(urls) : urls[k] = url
  BY <1>1 DEF Registered
<1>2. CASE ~ \E k \in 1..Len(urls) : urls[k] = url
  BY <1>2 DEF Registered
<1> QED BY <1>1, <1>2

(* The counter stays within its width.                                     *)
LEMMA BumpType == ASSUME NEW n \in Counters PROVE Bump(n) \in Counters
BY CounterRangeAssumption DEF Counters, Bump

(* A pick is one of the URLs.                                              *)
LEMMA PickType ==
  ASSUME NEW S, NEW urls \in Seq(S), urls # <<>>, NEW n \in Counters
  PROVE  Pick(urls, n) \in S /\ \E k \in 1..Len(urls) : Pick(urls, n) = urls[k]
PROOF
<1>1. Len(urls) \in Nat \ {0}
  OBVIOUS
<1>2. n \in Nat
  BY CounterRangeAssumption DEF Counters
<1>3. (n % Len(urls)) + 1 \in 1..Len(urls)
  BY <1>1, <1>2
<1> QED BY <1>3 DEF Pick

(* The copy of a resolver that holds none.                                 *)
LEMMA NoSnapType == NoSnap \in Snap /\ NoSnap.urls = <<>>
BY DEF NoSnap, Snap

(* The worker whose turn it is in Discover is a configured one.            *)
LEMMA CurrentType == ASSUME TypeOK, Discovering PROVE Current \in URL
PROOF
<1>1. Len(results) \in Nat /\ Len(WorkerURLs) \in Nat
  BY RegistryAssumption DEF TypeOK
<1>2. Len(results) + 1 \in 1..Len(WorkerURLs)
  BY <1>1 DEF Discovering
<1> QED BY <1>2 DEF Current, URL

-----------------------------------------------------------------------------
(* Registering a URL a second time changes nothing.                        *)
LEMMA RegisteredTwice ==
  ASSUME NEW S, NEW urls \in Seq(S), NEW url \in S
  PROVE  Registered(Registered(urls, url), url) = Registered(urls, url)
PROOF
<1>1. CASE \E k \in 1..Len(urls) : urls[k] = url
  BY <1>1 DEF Registered
<1>2. CASE ~ \E k \in 1..Len(urls) : urls[k] = url
  <2> DEFINE new == Append(urls, url)
  <2>1. Registered(urls, url) = new
    BY <1>2 DEF Registered
  <2>2. Len(urls) + 1 \in 1..Len(new) /\ new[Len(urls) + 1] = url
    OBVIOUS
  <2> HIDE DEF new
  <2>3. Registered(new, url) = new
    BY <2>2 DEF Registered
  <2> QED BY <2>1, <2>3
<1> QED BY <1>1, <1>2

(* The lists after k of the ids: those of the ids met so far have the URL. *)
Partly(ids, k) ==
  [id \in NodeId |-> IF \E j \in 1..k : ids[j] = id THEN Registered(handlers[id], Current)
                     ELSE handlers[id]]

(* After a whole answer the ids it names have the worker, the others are   *)
(* as they were: how often the answer names an id makes no difference.     *)
LEMMA Announced ==
  ASSUME TypeOK, Current \in URL, NEW ids \in Seq(NodeId)
  PROVE  AllRegistered(ids) =
           [id \in NodeId |-> IF Named(id, ids) THEN Registered(handlers[id], Current)
                              ELSE handlers[id]]
PROOF
<1> DEFINE n == Len(ids)
           S == [NodeId -> Seq(URL)]
           One(h, id) == [h EXCEPT ![id] = Registered(@, Current)]
           g == [k \in 1..n |-> [h \in S |-> One(h, ids[k])]]
           Is(f) == f = [k \in 0..Len(ids) |->
             IF k = 0 THEN handlers
             ELSE [f[k - 1] EXCEPT ![ids[k]] = Registered(@, Current)]]
<1>1. n \in Nat /\ handlers \in S /\ \A k \in 1..n : ids[k] \in NodeId
  BY DEF TypeOK
<1>2. ASSUME NEW h \in S, NEW id \in NodeId PROVE One(h, id) \in S
  <2>1. Registered(h[id], Current) \in Seq(URL)
    BY RegisteredType
  <2> QED BY <2>1
<1>3. g \in [1..n -> [S -> S]]
  <2> HIDE DEF S, One
  <2> QED BY <1>1, <1>2
<1>4. PICK f : Steps(f, S, g, handlers, n)
  <2> HIDE DEF S, g, n
  <2> QED BY <1>1, <1>3, Iterated
<1>5. Is(f)
  <2>1. ASSUME NEW k \in 0..n, k # 0 PROVE f[k] = One(f[k - 1], ids[k])
    <3>1. k \in 1..n /\ k - 1 \in 0..n
      BY <1>1, <2>1
    <3>2. f[k - 1] \in S /\ f[k] = g[k][f[k - 1]]
      <4> HIDE DEF S, g, n
      <4> QED BY <1>4, <2>1, <3>1 DEF Steps
    <3> HIDE DEF S, n, One
    <3> QED BY <3>1, <3>2
  <2>2. f \in [0..n -> S] /\ (0 \in 0..n => f[0] = handlers)
    <3> HIDE DEF S, g, n
    <3> QED BY <1>4 DEF Steps
  <2> HIDE DEF S, g
  <2> QED BY <2>1, <2>2
<1> DEFINE after == CHOOSE h : Is(h)
<1>6. Is(after)
  <2> HIDE DEF Is
  <2> QED BY <1>5
<1>7. AllRegistered(ids) = after[n]
  BY DEF AllRegistered
<1> HIDE DEF after
<1>8. after[0] = handlers
  BY <1>1, <1>6
<1>9. ASSUME NEW k \in 1..n PROVE after[k] = One(after[k - 1], ids[k])
  <2>1. k \in 0..Len(ids) /\ k # 0
    BY <1>1
  <2> QED BY <1>6, <2>1
<1> HIDE DEF Is, S, g
<1> DEFINE U == {k \in 0..n : after[k] = Partly(ids, k)}
<1>10. 0 \in U
  <2>1. handlers = [id \in NodeId |-> handlers[id]]
    BY <1>1 DEF S
  <2> QED BY <1>1, <1>8, <2>1 DEF Partly
<1>11. ASSUME NEW k \in 1..n, k - 1 \in U PROVE k \in U
  <2> DEFINE before == Partly(ids, k - 1)
  <2>1. k \in 0..n /\ ids[k] \in NodeId /\ after[k] = One(before, ids[k])
    <3>1. after[k - 1] = before
      BY <1>11
    <3>2. k \in 0..n
      BY <1>1
    <3> HIDE DEF One, before, n
    <3> QED BY <1>1, <1>9, <3>1, <3>2
  <2>2. ASSUME NEW id \in NodeId PROVE One(before, ids[k])[id] = Partly(ids, k)[id]
    <3>1. CASE id # ids[k]
      <4>1. (\E j \in 1..k : ids[j] = id) <=> (\E j \in 1..(k - 1) : ids[j] = id)
        BY <3>1, <1>1
      <4> QED BY <3>1, <4>1 DEF Partly
    <3>2. CASE id = ids[k]
      <4>1. One(before, ids[k])[id] = Registered(before[id], Current)
        BY <3>2, <2>1 DEF Partly
      <4>2. Partly(ids, k)[id] = Registered(handlers[id], Current)
        BY <3>2, <1>1 DEF Partly
      <4>3. before[id] \in {handlers[id], Registered(handlers[id], Current)}
        BY DEF Partly
      <4>4. Registered(Registered(handlers[id], Current), Current) = Registered(handlers[id], Current)
        BY RegisteredTwice DEF TypeOK
      <4> QED BY <4>1, <4>2, <4>3, <4>4
    <3> QED BY <3>1, <3>2
  <2>3. One(before, ids[k]) = Partly(ids, k)
    BY <2>2 DEF Partly
  <2> QED BY <2>1, <2>3
<1>12. after[n] = Partly(ids, n)
  <2> HIDE DEF U
  <2>1. \A k \in 0..n : k \in U
    BY <1>1, <1>10, <1>11, UpTo
  <2>2. n \in U
    BY <1>1, <2>1
  <2> QED BY <2>2 DEF U
<1> QED BY <1>7, <1>12 DEF Partly, Named

-----------------------------------------------------------------------------
(* An id that has a worker has a counter.  Together with the snapshot      *)
(* clause of NilCounterNeverUsed this is inductive: the copy made under    *)
(* the read lock sees both maps of one critical section of register.       *)
CountersExist == \A id \in NodeId : handlers[id] # <<>> => next[id] # NilPointer

SnapsAreOfIds == \A r \in Resolver : snap[r].urls # <<>> => snap[r].node \in NodeId

IInv == TypeOK /\ CountersExist /\ SnapsAreOfIds /\ NilCounterNeverUsed

(* The empty registry.                                                     *)
LEMMA InitIInv == Init => IInv
PROOF
<1> SUFFICES ASSUME Init PROVE IInv
  OBVIOUS
<1> USE DEF Init, New
<1>1. TypeOK
  <2>2. /\ handlers \in [NodeId -> Seq(URL)]
        /\ next \in [NodeId -> Counters \cup {NilPointer}]
        /\ results \in Seq(DiscoveryResult)
    OBVIOUS
  <2>3. /\ snap \in [Resolver -> Snap]
        /\ answer \in [Resolver -> URL \cup {NotFound}]
        /\ served \in [NodeId -> [URL -> Nat]]
        /\ skipped \in [NodeId -> Nat]
    BY NoSnapType
  <2> QED BY <2>2, <2>3 DEF TypeOK
<1>2. CountersExist
  BY DEF CountersExist
<1>3. SnapsAreOfIds /\ NilCounterNeverUsed
  BY DEF NilCounterNeverUsed, SnapsAreOfIds, NoSnap
<1> QED BY <1>1, <1>2, <1>3 DEF IInv

(* Every step keeps the invariant: one case per action.                    *)
LEMMA NextIInv == IInv /\ [Next]_vars => IInv'
PROOF
<1> SUFFICES ASSUME IInv, [Next]_vars PROVE IInv'
  OBVIOUS
<1> USE DEF IInv
<1>1. CASE FetchFails
  <2>1. [url |-> Current, ids |-> <<>>, error |-> TRUE] \in DiscoveryResult
    BY <1>1, CurrentType DEF FetchFails, DiscoveryResult
  <2>2. TypeOK'
    BY <1>1, <2>1 DEF FetchFails, TypeOK
  <2>3. CountersExist' /\ SnapsAreOfIds' /\ NilCounterNeverUsed'
    BY <1>1 DEF FetchFails, CountersExist, SnapsAreOfIds, NilCounterNeverUsed
  <2> QED BY <2>2, <2>3
<1>2. ASSUME NEW ids \in Announcements, Register(ids) PROVE IInv'
  <2> DEFINE listed == AllRegistered(ids)
             new == {id \in NodeId : listed[id] # handlers[id]}
  <2>1. Current \in URL /\ ids \in Seq(NodeId)
    BY <1>2, CurrentType, RegistryAssumption DEF Register
  <2>2. \A id \in NodeId : handlers[id] \in Seq(URL)
    BY DEF TypeOK
  <2>3. \A id \in NodeId : Registered(handlers[id], Current) \in Seq(URL)
    BY <2>1, <2>2, RegisteredType
  <2>4. \A id \in NodeId : CounterOf(id, new) \in Counters \cup {NilPointer}
    BY CounterRangeAssumption DEF CounterOf, TypeOK, Counters
  <2>5. TypeOK'
    <3>1. handlers' \in [NodeId -> Seq(URL)]
      <4>1. handlers' = listed
        BY <1>2 DEF Register
      <4>2. listed = [id \in NodeId |-> IF Named(id, ids) THEN Registered(handlers[id], Current)
                                        ELSE handlers[id]]
        BY <2>1, Announced
      <4> HIDE DEF listed
      <4> QED BY <2>2, <2>3, <4>1, <4>2
    <3>2. next' \in [NodeId -> Counters \cup {NilPointer}]
      BY <1>2, <2>4 DEF Register
    <3>3. results' \in Seq(DiscoveryResult)
      BY <1>2, <2>1 DEF Register, TypeOK, DiscoveryResult
    <3>4. served' \in [NodeId -> [URL -> Nat]] /\ skipped' \in [NodeId -> Nat]
      BY <1>2 DEF Register, TypeOK
    <3> QED BY <1>2, <3>1, <3>2, <3>3, <3>4 DEF Register, TypeOK
  <2>6. CountersExist'
    <3> SUFFICES ASSUME NEW id \in NodeId, handlers'[id] # <<>> PROVE next'[id] # NilPointer
      BY DEF CountersExist
    <3>1. next'[id] = CounterOf(id, new)
      BY <1>2 DEF Register
    <3>2. CASE id \in new
      BY <3>1, <3>2, RegistryAssumption, CounterRangeAssumption DEF CounterOf, Counters
    <3>3. CASE id \notin new
      <4>1. handlers'[id] = handlers[id]
        BY <1>2, <3>3 DEF Register
      <4> QED BY <3>1, <3>3, <4>1 DEF CounterOf, CountersExist
    <3> QED BY <3>2, <3>3
  <2>7. NilCounterNeverUsed'
    <3> SUFFICES ASSUME NEW r \in Resolver, snap[r].urls # <<>>
                 PROVE  ~ snap[r].nil /\ next'[snap[r].node] # NilPointer
      BY <1>2 DEF Register, NilCounterNeverUsed
    <3>1. ~ snap[r].nil /\ next[snap[r].node] # NilPointer /\ snap[r].node \in NodeId
      BY DEF NilCounterNeverUsed, SnapsAreOfIds
    <3>2. next'[snap[r].node] = CounterOf(snap[r].node, new)
      BY <1>2, <3>1 DEF Register
    <3> QED BY <3>1, <3>2, RegistryAssumption, CounterRangeAssumption DEF CounterOf, Counters
  <2>8. SnapsAreOfIds'
    BY <1>2 DEF Register, SnapsAreOfIds
  <2> QED BY <2>5, <2>6, <2>7, <2>8
<1>3. ASSUME NEW r \in Resolver, NEW id \in NodeId, ReadEntry(r, id) PROVE IInv'
  <2> DEFINE s == [node |-> id, urls |-> handlers[id], nil |-> next[id] = NilPointer]
  <2>1. s \in Snap
    BY DEF TypeOK, Snap
  <2>2. snap' = [snap EXCEPT ![r] = s]
    BY <1>3 DEF ReadEntry
  <2>3. TypeOK'
    BY <1>3, <2>1, <2>2 DEF ReadEntry, TypeOK
  <2>4. \A q \in Resolver : snap'[q] = IF q = r THEN s ELSE snap[q]
    BY <2>2 DEF TypeOK
  <2>5. s.urls # <<>> => ~ s.nil /\ next[s.node] # NilPointer
    BY DEF CountersExist
  <2>6. CountersExist' /\ SnapsAreOfIds' /\ NilCounterNeverUsed'
    BY <1>3, <2>4, <2>5 DEF ReadEntry, CountersExist, SnapsAreOfIds, NilCounterNeverUsed
  <2> QED BY <2>3, <2>6
<1>4. ASSUME NEW r \in Resolver, ResolveNone(r) PROVE IInv'
  <2>2. TypeOK'
    BY <1>4, NoSnapType DEF ResolveNone, TypeOK
  <2>3. \A q \in Resolver : snap'[q] = IF q = r THEN NoSnap ELSE snap[q]
    BY <1>4 DEF ResolveNone, TypeOK
  <2>4. CountersExist' /\ SnapsAreOfIds' /\ NilCounterNeverUsed'
    BY <1>4, NoSnapType, <2>3 DEF ResolveNone, CountersExist, SnapsAreOfIds, NilCounterNeverUsed
  <2> QED BY <2>2, <2>4
<1>5. ASSUME NEW r \in Resolver, ResolvePick(r) PROVE IInv'
  <2> DEFINE id  == snap[r].node
             url == Pick(snap[r].urls, next[id])
  <2>1. /\ snap[r].urls # <<>> /\ snap[r].urls \in Seq(URL)
        /\ id \in NodeId /\ next[id] \in Counters
    BY <1>5 DEF ResolvePick, SnapsAreOfIds, NilCounterNeverUsed, TypeOK, Snap
  <2>2. url \in URL
    BY <2>1, PickType
  <2>3. Bump(next[id]) \in Counters
    BY <2>1, BumpType
  <2>5. \A q \in Resolver : snap'[q] = IF q = r THEN NoSnap ELSE snap[q]
    BY <1>5 DEF ResolvePick, TypeOK
  <2>6. \A i \in NodeId : next'[i] = IF i = id THEN Bump(next[id]) ELSE next[i]
    BY <1>5 DEF ResolvePick, TypeOK
  <2>7. TypeOK'
    <3>1. next' \in [NodeId -> Counters \cup {NilPointer}]
      BY <1>5, <2>1, <2>3 DEF ResolvePick, TypeOK
    <3>2. served' \in [NodeId -> [URL -> Nat]]
      BY <1>5, <2>1, <2>2 DEF ResolvePick, TypeOK
    <3>3. skipped' \in [NodeId -> Nat]
      <4>1. \E d \in {0, 1} : skipped' = [skipped EXCEPT ![id] = @ + d]
        BY <1>5 DEF ResolvePick
      <4> QED BY <4>1, <2>1 DEF TypeOK
    <3>4. snap' \in [Resolver -> Snap] /\ answer' \in [Resolver -> URL \cup {NotFound}]
      BY <1>5, <2>2, NoSnapType DEF ResolvePick, TypeOK
    <3> QED BY <1>5, <3>1, <3>2, <3>3, <3>4 DEF ResolvePick, TypeOK
  <2>8. CountersExist'
    BY <1>5, <2>3, <2>6, RegistryAssumption DEF ResolvePick, CountersExist
  <2>9. SnapsAreOfIds'
    BY NoSnapType, <2>5 DEF SnapsAreOfIds
  <2>10. NilCounterNeverUsed'
    BY <2>3, NoSnapType, <2>5, <2>6, RegistryAssumption DEF SnapsAreOfIds, NilCounterNeverUsed
  <2> QED BY <2>7, <2>8, <2>9, <2>10
<1>6. CASE UNCHANGED vars
  BY <1>6 DEF vars, TypeOK, CountersExist, SnapsAreOfIds, NilCounterNeverUsed
<1> QED BY <1>1, <1>2, <1>3, <1>4, <1>5, <1>6 DEF Next

(* Type correctness, for any number of ids, workers and goroutines.        *)
THEOREM TypeCorrect == Spec => []TypeOK
PROOF
<1>1. IInv => TypeOK
  BY DEF IInv
<1> QED BY InitIInv, NextIInv, <1>1, PTL DEF Spec

(* Resolve never adds to a nil counter, whatever discovery registers       *)
(* between its unlock and its atomic addition.                             *)
THEOREM NilCounterSafe == Spec => []NilCounterNeverUsed
PROOF
<1>1. IInv => NilCounterNeverUsed
  BY DEF IInv
<1> QED BY InitIInv, NextIInv, <1>1, PTL DEF Spec

-----------------------------------------------------------------------------
(* Registering keeps a list free of duplicates.                            *)
Distinct(urls) == \A k, l \in 1..Len(urls) : urls[k] = urls[l] => k = l

(* Registering a URL keeps the URLs of a list distinct.                    *)
LEMMA RegisteredDistinct ==
  ASSUME NEW S, NEW urls \in Seq(S), NEW url \in S, Distinct(urls)
  PROVE  Distinct(Registered(urls, url))
PROOF
<1>1. CASE \E k \in 1..Len(urls) : urls[k] = url
  BY <1>1 DEF Registered
<1>2. CASE ~ \E k \in 1..Len(urls) : urls[k] = url
  <2> DEFINE new == Append(urls, url)
  <2>1. /\ Len(new) = Len(urls) + 1 /\ new[Len(urls) + 1] = url
        /\ \A k \in 1..Len(urls) : new[k] = urls[k]
    OBVIOUS
  <2>2. \A k, l \in 1..Len(new) : new[k] = new[l] => k = l
    BY <1>2, <2>1 DEF Distinct
  <2> QED BY <1>2, <2>2 DEF Registered, Distinct
<1> QED BY <1>1, <1>2

(* No worker is listed twice for an id, however often it is configured.    *)
THEOREM NoDuplicates == Spec => []NoDuplicateProvider
PROOF
<1>1. Init => NoDuplicateProvider
  BY DEF Init, New, NoDuplicateProvider
<1>2. TypeOK /\ NoDuplicateProvider /\ [Next]_vars => NoDuplicateProvider'
  <2> SUFFICES ASSUME TypeOK, NoDuplicateProvider, [Next]_vars,
                      NEW id \in NodeId
               PROVE  Distinct(handlers'[id])
    BY DEF NoDuplicateProvider, Distinct
  <2>1. Distinct(handlers[id]) /\ handlers[id] \in Seq(URL)
    BY DEF NoDuplicateProvider, Distinct, TypeOK
  <2>2. ASSUME NEW ids \in Announcements, Register(ids) PROVE Distinct(handlers'[id])
    <3>1. Current \in URL /\ ids \in Seq(NodeId)
      BY <2>2, CurrentType, RegistryAssumption DEF Register
    <3>2. handlers'[id] \in {handlers[id], Registered(handlers[id], Current)}
      BY <2>2, <3>1, Announced DEF Register
    <3> QED BY <2>1, <3>1, <3>2, RegisteredDistinct
  <2>3. CASE handlers' = handlers
    BY <2>1, <2>3
  <2> QED BY <2>2, <2>3 DEF Next, FetchFails, ReadEntry, ResolveNone, ResolvePick, vars
<1> QED BY <1>1, <1>2, TypeCorrect, PTL DEF Spec

(* Discovery only ever adds workers, and never restarts a rotation.        *)
THEOREM RotationSurvives == Spec => RotationSurvivesDiscovery
PROOF
<1> DEFINE Keeps ==
      \A id \in NodeId :
        /\ Len(handlers[id]) <= Len(handlers'[id])
        /\ \A k \in 1..Len(handlers[id]) : handlers'[id][k] = handlers[id][k]
        /\ next[id] # NilPointer => next'[id] \in {next[id], Bump(next[id])}
<1>1. TypeOK /\ Next => Keeps
  <2> SUFFICES ASSUME TypeOK, Next, NEW id \in NodeId
               PROVE  /\ Len(handlers[id]) <= Len(handlers'[id])
                      /\ \A k \in 1..Len(handlers[id]) : handlers'[id][k] = handlers[id][k]
                      /\ next[id] # NilPointer => next'[id] \in {next[id], Bump(next[id])}
    OBVIOUS
  <2>1. handlers[id] \in Seq(URL)
    BY DEF TypeOK
  <2>2. ASSUME NEW ids \in Announcements, Register(ids)
        PROVE  /\ Len(handlers[id]) <= Len(handlers'[id])
               /\ \A k \in 1..Len(handlers[id]) : handlers'[id][k] = handlers[id][k]
               /\ next[id] # NilPointer => next'[id] \in {next[id], Bump(next[id])}
    <3>1. Current \in URL /\ ids \in Seq(NodeId)
      BY <2>2, CurrentType, RegistryAssumption DEF Register
    <3>2. handlers'[id] \in {handlers[id], Registered(handlers[id], Current)}
      BY <2>2, <3>1, Announced DEF Register
    <3>3. next[id] # NilPointer => next'[id] = next[id]
      BY <2>2 DEF Register, CounterOf
    <3>4. /\ Len(handlers[id]) <= Len(Registered(handlers[id], Current))
          /\ \A k \in 1..Len(handlers[id]) :
               Registered(handlers[id], Current)[k] = handlers[id][k]
      BY <2>1, <3>1, RegisteredType
    <3>5. CASE handlers'[id] = handlers[id]
      BY <2>1, <3>3, <3>5
    <3>6. CASE handlers'[id] = Registered(handlers[id], Current)
      BY <3>3, <3>4, <3>6
    <3> QED BY <3>2, <3>5, <3>6
  <2>3. ASSUME NEW r \in Resolver, ResolvePick(r)
        PROVE  handlers' = handlers /\ next'[id] \in {next[id], Bump(next[id])}
    BY <2>3 DEF ResolvePick, TypeOK
  <2>4. CASE handlers' = handlers /\ next' = next
    BY <2>1, <2>4
  <2> QED BY <2>1, <2>2, <2>3, <2>4 DEF Next, FetchFails, ReadEntry, ResolveNone
<1>2. TypeOK /\ [Next]_vars => [Keeps]_vars
  BY <1>1
<1> QED BY <1>2, TypeCorrect, PTL DEF Spec, RotationSurvivesDiscovery
-----------------------------------------------------------------------------
(* Registering adds one URL to those of a list.                            *)
Lists(urls, u) == \E k \in 1..Len(urls) : urls[k] = u

(* A list with a URL registered has that URL and those it had.             *)
LEMMA RegisteredLists ==
  ASSUME NEW S, NEW urls \in Seq(S), NEW url \in S, NEW u
  PROVE  Lists(Registered(urls, url), u) <=> Lists(urls, u) \/ u = url
PROOF
<1>1. CASE Lists(urls, url)
  BY <1>1 DEF Registered, Lists
<1>2. CASE ~ Lists(urls, url)
  <2> DEFINE new == Append(urls, url)
  <2>1. Registered(urls, url) = new
    BY <1>2 DEF Registered, Lists
  <2>2. /\ Len(new) = Len(urls) + 1 /\ new[Len(urls) + 1] = url
        /\ \A k \in 1..Len(urls) : new[k] = urls[k]
    OBVIOUS
  <2>3. Lists(new, u) <=> Lists(urls, u) \/ u = url
    BY <2>2 DEF Lists
  <2> QED BY <2>1, <2>3
<1> QED BY <1>1, <1>2

(* The reports of u that name id, and the two halves of the agreement.     *)
Reported(id, u) == \E k \in 1..Len(results) : results[k].url = u /\ Named(id, results[k].ids)
InOrder == /\ Len(results) <= Len(WorkerURLs)
           /\ \A k \in 1..Len(results) : results[k].url = WorkerURLs[k]
Agree   == \A id \in NodeId, u \in URL : Lists(handlers[id], u) <=> Reported(id, u)

(* One more report, made for the worker whose turn it is.                  *)
LEMMA AppendedReport ==
  ASSUME TypeOK, InOrder, Discovering, NEW r \in DiscoveryResult, r.url = Current,
         results' = Append(results, r)
  PROVE  /\ InOrder'
         /\ \A id \in NodeId, u \in URL :
              Reported(id, u)' <=> Reported(id, u) \/ (u = Current /\ Named(id, r.ids))
PROOF
<1>1. results \in Seq(DiscoveryResult) /\ Len(results) \in Nat /\ Len(WorkerURLs) \in Nat
  BY RegistryAssumption DEF TypeOK
<1>2. /\ Len(results') = Len(results) + 1 /\ results'[Len(results) + 1] = r
      /\ \A k \in 1..Len(results) : results'[k] = results[k]
  BY <1>1
<1>3. InOrder'
  <2>1. Len(results') <= Len(WorkerURLs)
    BY <1>1, <1>2 DEF Discovering
  <2>2. \A k \in 1..Len(results') : results'[k].url = WorkerURLs[k]
    BY <1>1, <1>2 DEF InOrder, Current
  <2> QED BY <2>1, <2>2 DEF InOrder
<1>4. ASSUME NEW id \in NodeId, NEW u \in URL
      PROVE  Reported(id, u)' <=> Reported(id, u) \/ (u = Current /\ Named(id, r.ids))
  BY <1>1, <1>2 DEF Reported
<1> QED BY <1>3, <1>4

(* What discovery reports is what the registry holds, once each.           *)
THEOREM ReportsMatch == Spec => []ReportMatchesRegistry
PROOF
<1>1. Init => InOrder /\ Agree
  <2> SUFFICES ASSUME Init PROVE InOrder /\ Agree
    OBVIOUS
  <2>1. results = <<>> /\ \A id \in NodeId : handlers[id] = <<>>
    BY DEF Init, New
  <2>2. Len(WorkerURLs) \in Nat
    BY RegistryAssumption
  <2> QED BY <2>1, <2>2 DEF InOrder, Agree, Lists, Reported
<1>2. TypeOK /\ InOrder /\ Agree /\ [Next]_vars => (InOrder /\ Agree)'
  <2> SUFFICES ASSUME TypeOK, InOrder, Agree, [Next]_vars PROVE (InOrder /\ Agree)'
    OBVIOUS
  <2>1. CASE FetchFails
    <3> DEFINE r == [url |-> Current, ids |-> <<>>, error |-> TRUE]
    <3>1. Discovering /\ results' = Append(results, r) /\ handlers' = handlers
      BY <2>1 DEF FetchFails
    <3>2. r \in DiscoveryResult
      BY <3>1, CurrentType DEF DiscoveryResult
    <3>3. /\ InOrder'
          /\ \A id \in NodeId, u \in URL :
               Reported(id, u)' <=> Reported(id, u) \/ (u = Current /\ Named(id, r.ids))
      BY <3>1, <3>2, AppendedReport
    <3>4. Agree'
      BY <3>1, <3>3 DEF Agree, Lists, Named
    <3> QED BY <3>3, <3>4
  <2>2. ASSUME NEW ids \in Announcements, Register(ids) PROVE (InOrder /\ Agree)'
    <3> DEFINE r == [url |-> Current, ids |-> ids, error |-> FALSE]
    <3>1. Discovering /\ results' = Append(results, r) /\ handlers' = AllRegistered(ids)
      BY <2>2 DEF Register
    <3>2. Current \in URL /\ ids \in Seq(NodeId) /\ r \in DiscoveryResult
      BY <3>1, CurrentType, RegistryAssumption DEF DiscoveryResult
    <3>3. /\ InOrder'
          /\ \A id \in NodeId, u \in URL :
               Reported(id, u)' <=> Reported(id, u) \/ (u = Current /\ Named(id, r.ids))
      BY <3>1, <3>2, AppendedReport
    <3>4. ASSUME NEW id \in NodeId, NEW u \in URL
          PROVE  Lists(handlers'[id], u) <=> Lists(handlers[id], u) \/ (u = Current /\ Named(id, ids))
      <4>1. handlers[id] \in Seq(URL)
        BY DEF TypeOK
      <4>2. Lists(Registered(handlers[id], Current), u) <=> Lists(handlers[id], u) \/ u = Current
        BY <4>1, <3>2, RegisteredLists
      <4>3. handlers'[id] = IF Named(id, ids) THEN Registered(handlers[id], Current)
                            ELSE handlers[id]
        BY <3>1, <3>2, Announced
      <4> QED BY <4>2, <4>3
    <3>5. Agree'
      BY <3>3, <3>4 DEF Agree, Lists
    <3> QED BY <3>3, <3>5
  <2>3. CASE handlers' = handlers /\ results' = results
    BY <2>3 DEF InOrder, Agree, Lists, Reported
  <2> QED BY <2>1, <2>2, <2>3 DEF Next, ReadEntry, ResolveNone, ResolvePick, vars
<1>3. InOrder /\ Agree /\ NoDuplicateProvider => ReportMatchesRegistry
  BY DEF InOrder, Agree, Lists, Reported, ReportMatchesRegistry
<1> QED BY <1>1, <1>2, <1>3, TypeCorrect, NoDuplicates, PTL DEF Spec

-----------------------------------------------------------------------------
(* How far the rotation has got, whatever the counter stood at when the    *)
(* list changed: the URLs still to come in this round, those from p on,    *)
(* count as served once more.  Then an earlier URL is never ahead of a     *)
(* later one, and never more than one behind it, but for the turns lost.   *)
Level(s, p, k) == s[k] + (IF k > p THEN 1 ELSE 0)
Balanced(s, n, p, lost) ==
  \A k, l \in 1..n : k < l => /\ Level(s, p, k) <= Level(s, p, l) + lost
                              /\ Level(s, p, l) <= Level(s, p, k) + 1 + lost

Shares(id) == [k \in 1..Len(handlers[id]) |-> served[id][handlers[id][k]]]
Position(id) == next[id] % Len(handlers[id])
SpreadInv ==
  \A id \in NodeId : handlers[id] # <<>> =>
    Balanced(Shares(id), Len(handlers[id]), Position(id), skipped[id])

(* The next number's remainder is the next one, or 0 after the last.       *)
LEMMA TurnAfter ==
  ASSUME NEW x \in Nat, NEW n \in Nat \ {0}
  PROVE  /\ x % n \in 0..(n - 1)
         /\ (x + 1) % n = IF x % n = n - 1 THEN 0 ELSE (x % n) + 1
PROOF
<1> DEFINE q == x \div n
           r == x % n
           y == (x + 1) \div n
           z == (x + 1) % n
<1>1. q \in Nat /\ r \in 0..(n - 1) /\ x = n * q + r
  OBVIOUS
<1>2. y \in Nat /\ z \in 0..(n - 1) /\ x + 1 = n * y + z
  OBVIOUS
<1> HIDE DEF q, r, y, z
<1>3. n * (y - q) = r + 1 - z
  BY <1>1, <1>2
<1>4. y - q = 0 \/ y - q = 1
  BY <1>1, <1>2, <1>3
<1> QED BY <1>1, <1>2, <1>3, <1>4 DEF q, r, y, z

LEMMA ZeroMod == ASSUME NEW n \in Nat \ {0} PROVE 0 % n = 0
PROOF
<1> DEFINE q == 0 \div n
           z == 0 % n
<1>1. q \in Nat /\ z \in 0..(n - 1) /\ 0 = n * q + z
  OBVIOUS
<1> HIDE DEF q, z
<1>2. n * q \in Nat
  BY <1>1
<1>3. z = 0
  BY <1>1, <1>2
<1> QED BY <1>3 DEF z

LEMMA BumpIs ==
  ASSUME NEW c \in Counters, Bump(c) # 0
  PROVE  Bump(c) = c + 1
BY CounterRangeAssumption DEF Bump, Counters

(* The URL whose turn it is has been served: the round goes on, or a new   *)
(* one begins.                                                             *)
After(n, p) == IF p = n - 1 THEN 0 ELSE p + 1

(* One place against a later one, with x and y turns.                      *)
Ahead(x, y, k, l, p, lost) ==
  /\ x + (IF k > p THEN 1 ELSE 0) <= y + (IF l > p THEN 1 ELSE 0) + lost
  /\ y + (IF l > p THEN 1 ELSE 0) <= x + (IF k > p THEN 1 ELSE 0) + 1 + lost

LEMMA TurnServed ==
  ASSUME NEW n \in Nat \ {0}, NEW s \in [1..n -> Nat], NEW p \in 0..(n - 1), NEW lost \in Nat,
         Balanced(s, n, p, lost), NEW t \in [1..n -> Nat],
         \A k \in 1..n : t[k] = IF k = p + 1 THEN s[k] + 1 ELSE s[k]
  PROVE  Balanced(t, n, After(n, p), lost) /\ Balanced(t, n, 0, lost + 1)
PROOF
<1> SUFFICES ASSUME NEW k \in 1..n, NEW l \in 1..n, k < l
             PROVE  /\ Level(t, After(n, p), k) <= Level(t, After(n, p), l) + lost
                    /\ Level(t, After(n, p), l) <= Level(t, After(n, p), k) + 1 + lost
                    /\ Level(t, 0, k) <= Level(t, 0, l) + (lost + 1)
                    /\ Level(t, 0, l) <= Level(t, 0, k) + 1 + (lost + 1)
  BY DEF Balanced
<1> DEFINE a == s[k]
           b == s[l]
<1>1. a \in Nat /\ b \in Nat /\ k \in Nat /\ l \in Nat /\ p \in Nat /\ n \in Nat
  OBVIOUS
<1>2. /\ t[k] = IF k = p + 1 THEN a + 1 ELSE a
      /\ t[l] = IF l = p + 1 THEN b + 1 ELSE b
  OBVIOUS
<1>3. /\ a + (IF k > p THEN 1 ELSE 0) <= b + (IF l > p THEN 1 ELSE 0) + lost
      /\ b + (IF l > p THEN 1 ELSE 0) <= a + (IF k > p THEN 1 ELSE 0) + 1 + lost
  BY DEF Balanced, Level
<1> HIDE DEF a, b
<1> DEFINE x == t[k]
           y == t[l]
<1>4. /\ x = (IF k = p + 1 THEN a + 1 ELSE a) /\ y = (IF l = p + 1 THEN b + 1 ELSE b)
      /\ k > 0 /\ l > 0 /\ k < l /\ lost \in Nat
  BY <1>1, <1>2
<1> HIDE DEF x, y
<1>5. ASSUME p + 1 < k
      PROVE  Ahead(x, y, k, l, p + 1, lost) /\ Ahead(x, y, k, l, 0, lost + 1)
  <2>1. /\ x = a /\ y = b /\ k > p /\ l > p /\ k > p + 1 /\ l > p + 1
    BY <1>1, <1>4, <1>5
  <2> QED BY <1>1, <1>3, <1>4, <2>1 DEF Ahead
<1>6. ASSUME k = p + 1
      PROVE  Ahead(x, y, k, l, p + 1, lost) /\ Ahead(x, y, k, l, 0, lost + 1)
  <2>1. /\ x = a + 1 /\ y = b /\ k > p /\ l > p /\ ~ (k > p + 1) /\ l > p + 1
    BY <1>1, <1>4, <1>6
  <2> QED BY <1>1, <1>3, <1>4, <2>1 DEF Ahead
<1>7. ASSUME k < p + 1, p + 1 < l
      PROVE  Ahead(x, y, k, l, p + 1, lost) /\ Ahead(x, y, k, l, 0, lost + 1)
  <2>1. /\ x = a /\ y = b /\ ~ (k > p) /\ l > p /\ ~ (k > p + 1) /\ l > p + 1
    BY <1>1, <1>4, <1>7
  <2> QED BY <1>1, <1>3, <1>4, <2>1 DEF Ahead
<1>8. ASSUME l = p + 1
      PROVE  Ahead(x, y, k, l, p + 1, lost) /\ Ahead(x, y, k, l, 0, lost + 1)
  <2>1. /\ x = a /\ y = b + 1 /\ ~ (k > p) /\ l > p /\ ~ (k > p + 1) /\ ~ (l > p + 1)
    BY <1>1, <1>4, <1>8
  <2> QED BY <1>1, <1>3, <1>4, <2>1 DEF Ahead
<1>9. ASSUME l < p + 1
      PROVE  Ahead(x, y, k, l, p + 1, lost) /\ Ahead(x, y, k, l, 0, lost + 1)
  <2>1. /\ x = a /\ y = b /\ ~ (k > p) /\ ~ (l > p) /\ ~ (k > p + 1) /\ ~ (l > p + 1)
    BY <1>1, <1>4, <1>9
  <2> QED BY <1>1, <1>3, <1>4, <2>1 DEF Ahead
<1>10. Ahead(x, y, k, l, p + 1, lost) /\ Ahead(x, y, k, l, 0, lost + 1)
  BY <1>1, <1>4, <1>5, <1>6, <1>7, <1>8, <1>9
(* After the last turn of a round all levels are one higher, or as well 0. *)
<1>11. Ahead(x, y, k, l, After(n, p), lost)
  <2>1. CASE p = n - 1
    <3>1. ~ (k > p + 1) /\ ~ (l > p + 1) /\ After(n, p) = 0
      BY <1>1, <2>1 DEF After
    <3>2. x \in Nat /\ y \in Nat
      BY <1>1, <1>4
    <3> QED BY <1>1, <1>4, <1>10, <3>1, <3>2 DEF Ahead
  <2>2. CASE p # n - 1
    BY <1>10, <2>2 DEF After
  <2> QED BY <2>1, <2>2
<1> QED BY <1>10, <1>11 DEF x, y, Ahead, Level

(* The turn was lost to another list, or the counter wraps.                *)
LEMMA TurnLost ==
  ASSUME NEW n \in Nat \ {0}, NEW s \in [1..n -> Nat], NEW p \in 0..(n - 1), NEW lost \in Nat,
         Balanced(s, n, p, lost)
  PROVE  Balanced(s, n, After(n, p), lost + 1) /\ Balanced(s, n, 0, lost + 1)
PROOF
<1> SUFFICES ASSUME NEW k \in 1..n, NEW l \in 1..n, k < l
             PROVE  /\ Level(s, After(n, p), k) <= Level(s, After(n, p), l) + (lost + 1)
                    /\ Level(s, After(n, p), l) <= Level(s, After(n, p), k) + 1 + (lost + 1)
                    /\ Level(s, 0, k) <= Level(s, 0, l) + (lost + 1)
                    /\ Level(s, 0, l) <= Level(s, 0, k) + 1 + (lost + 1)
  BY DEF Balanced
<1> DEFINE a == s[k]
           b == s[l]
<1>1. a \in Nat /\ b \in Nat /\ k \in Nat /\ l \in Nat /\ p \in Nat /\ n \in Nat
  OBVIOUS
<1>2. /\ a + (IF k > p THEN 1 ELSE 0) <= b + (IF l > p THEN 1 ELSE 0) + lost
      /\ b + (IF l > p THEN 1 ELSE 0) <= a + (IF k > p THEN 1 ELSE 0) + 1 + lost
  BY DEF Balanced, Level
<1> HIDE DEF a, b
<1>3. s[k] = a /\ s[l] = b
  BY DEF a, b
<1> QED BY <1>1, <1>2, <1>3 DEF After, Level

(* A list that has just changed.                                           *)
LEMMA RoundBegins ==
  ASSUME NEW n \in Nat, NEW s, \A k \in 1..n : s[k] = 0, NEW p \in Nat
  PROVE  Balanced(s, n, p, 0)
BY DEF Balanced, Level

LEMMA ListedShares ==
  ASSUME TypeOK, NEW id \in NodeId
  PROVE  /\ Len(handlers[id]) \in Nat /\ Shares(id) \in [1..Len(handlers[id]) -> Nat]
         /\ \A k \in 1..Len(handlers[id]) : handlers[id][k] \in URL
PROOF
<1>1. handlers[id] \in Seq(URL) /\ served[id] \in [URL -> Nat]
  BY DEF TypeOK
<1>2. \A k \in 1..Len(handlers[id]) : handlers[id][k] \in URL
  BY <1>1
<1> QED BY <1>1, <1>2 DEF Shares

(* A pick moves the counter of its id by one turn, back to 0 at the end of *)
(* its width; if its copy of the list is current that URL's share grows.   *)
LEMMA PickKeepsSpread ==
  ASSUME IInv, NoDuplicateProvider, SpreadInv, NEW r \in Resolver, ResolvePick(r)
  PROVE  SpreadInv'
PROOF
<1>1. /\ snap[r].node \in NodeId /\ next[snap[r].node] \in Counters /\ snap[r].urls # <<>>
      /\ handlers' = handlers
      /\ served \in [NodeId -> [URL -> Nat]] /\ skipped \in [NodeId -> Nat]
      /\ next \in [NodeId -> Counters \cup {NilPointer}]
  BY DEF ResolvePick, IInv, TypeOK, SnapsAreOfIds, NilCounterNeverUsed
<1> SUFFICES ASSUME NEW id \in NodeId, handlers[id] # <<>>
             PROVE  Balanced(Shares(id)', Len(handlers[id]), next'[id] % Len(handlers[id]), skipped'[id])
  BY <1>1 DEF SpreadInv, Position
<1>2. Balanced(Shares(id), Len(handlers[id]), Position(id), skipped[id])
  BY DEF SpreadInv
<1>3. CASE id # snap[r].node
  <2>1. next'[id] = next[id] /\ skipped'[id] = skipped[id] /\ served'[id] = served[id]
    BY <1>1, <1>3 DEF ResolvePick
  <2>2. Shares(id)' = Shares(id)
    BY <1>1, <2>1 DEF Shares
  <2> QED BY <1>2, <2>1, <2>2 DEF Position
<1>4. CASE id = snap[r].node
  <2> DEFINE L     == handlers[id]
             n     == Len(L)
             p     == next[id] % n
             lost  == skipped[id]
             s     == Shares(id)
             t     == Shares(id)'
             m     == next'[id] % n
             stale == snap[r].urls # L
             wraps == Bump(next[id]) = 0
             url   == Pick(snap[r].urls, next[id])
  <2>1. /\ n \in Nat \ {0} /\ L \in Seq(URL) /\ lost \in Nat /\ next[id] \in Nat
        /\ s \in [1..n -> Nat] /\ s = [k \in 1..n |-> served[id][L[k]]]
    <3>1. n \in Nat /\ s \in [1..n -> Nat] /\ L \in Seq(URL)
      BY ListedShares DEF IInv, TypeOK
    <3>2. n # 0
      BY <3>1
    <3>3. next[id] \in Nat /\ lost \in Nat
      BY <1>1, <1>4, CounterRangeAssumption DEF Counters
    <3> QED BY <3>1, <3>2, <3>3 DEF Shares
  <2>2. /\ next'[id] = Bump(next[id])
        /\ served' = IF stale THEN served ELSE [served EXCEPT ![id][url] = @ + 1]
        /\ skipped'[id] = lost + (IF stale \/ wraps THEN 1 ELSE 0)
    BY <1>1, <1>4 DEF ResolvePick
  <2>3. p \in 0..(n - 1) /\ (next[id] + 1) % n = After(n, p)
    BY <2>1, TurnAfter DEF After
  <2>4. Balanced(s, n, p, lost)
    BY <1>2 DEF Position
  <2>5. m = IF wraps THEN 0 ELSE After(n, p)
    <3>1. CASE wraps
      <4>1. next'[id] = 0
        BY <2>2, <3>1
      <4>2. 0 % n = 0
        BY <2>1, ZeroMod
      <4>3. m = 0
        BY <4>1, <4>2
      <4> HIDE DEF m, n, p
      <4> QED BY <3>1, <4>3
    <3>2. CASE ~ wraps
      <4>1. Bump(next[id]) = next[id] + 1
        BY <1>1, <1>4, <3>2, BumpIs
      <4> QED BY <2>2, <2>3, <3>2, <4>1
    <3> QED BY <3>1, <3>2
  <2>6. t = [k \in 1..n |-> served'[id][L[k]]]
    BY <1>1 DEF Shares
  <2>7. CASE stale
    <3>1. t = s
      BY <2>1, <2>2, <2>6, <2>7
    <3>2. skipped'[id] = lost + 1
      BY <2>1, <2>2, <2>7
    <3>3. Balanced(s, n, After(n, p), lost + 1) /\ Balanced(s, n, 0, lost + 1)
      <4> HIDE DEF s, n, p, lost
      <4> QED BY <2>1, <2>3, <2>4, TurnLost
    <3>4. Balanced(s, n, m, lost + 1)
      BY <2>5, <3>3
    <3> QED BY <3>1, <3>2, <3>4
  <2>8. CASE ~ stale
    <3>1. url = L[p + 1] /\ p + 1 \in 1..n
      BY <2>1, <2>3, <2>8 DEF Pick
    <3>2. \A k \in 1..n : L[k] = url <=> k = p + 1
      BY <3>1 DEF NoDuplicateProvider
    <3>3. \A k \in 1..n : L[k] \in URL
      BY <2>1
    <3>4. served' = [served EXCEPT ![id][url] = @ + 1] /\ url \in URL
      BY <2>2, <2>8, <3>1, <3>3
    <3>5. \A k \in 1..n : served'[id][L[k]] = IF k = p + 1 THEN served[id][L[k]] + 1
                                                        ELSE served[id][L[k]]
      BY <1>1, <3>2, <3>3, <3>4
    <3>6. \A k \in 1..n : served[id][L[k]] \in Nat
      BY <1>1, <3>3
    <3>7. t \in [1..n -> Nat] /\ \A k \in 1..n : t[k] = IF k = p + 1 THEN s[k] + 1 ELSE s[k]
      <4>1. \A k \in 1..n : s[k] = served[id][L[k]] /\ t[k] = served'[id][L[k]]
        BY <2>1, <2>6
      <4>2. \A k \in 1..n : served'[id][L[k]] \in Nat
        <5> SUFFICES ASSUME NEW k \in 1..n PROVE served'[id][L[k]] \in Nat
          OBVIOUS
        <5> DEFINE a == served[id][L[k]]
        <5>1. a \in Nat /\ (served'[id][L[k]] = a \/ served'[id][L[k]] = a + 1)
          BY <3>5, <3>6
        <5> HIDE DEF a
        <5> QED BY <5>1
      <4>3. t \in [1..n -> Nat]
        BY <2>6, <4>2
      <4> HIDE DEF s, t, p, n
      <4> QED BY <3>5, <4>1, <4>3
    <3>8. Balanced(t, n, After(n, p), lost) /\ Balanced(t, n, 0, lost + 1)
      <4> HIDE DEF s, t, n, p, lost
      <4> QED BY <2>1, <2>3, <2>4, <3>7, TurnServed
    <3>9. Balanced(t, n, m, lost + (IF wraps THEN 1 ELSE 0))
      <4>1. CASE wraps
        BY <2>5, <3>8, <4>1
      <4>2. CASE ~ wraps
        <5>1. m = After(n, p)
          BY <2>5, <4>2
        <5>2. lost + (IF wraps THEN 1 ELSE 0) = lost
          <6> HIDE DEF lost, wraps
          <6> QED BY <2>1, <4>2
        <5> HIDE DEF m, t, n, p, lost, wraps
        <5> QED BY <3>8, <5>1, <5>2
      <4> QED BY <4>1, <4>2
    <3>10. skipped'[id] = lost + (IF wraps THEN 1 ELSE 0)
      BY <2>2, <2>8
    <3> QED BY <3>9, <3>10
  <2> QED BY <2>7, <2>8
<1> QED BY <1>3, <1>4

LEMMA NextSpread == IInv /\ NoDuplicateProvider /\ SpreadInv /\ [Next]_vars => SpreadInv'
PROOF
<1> SUFFICES ASSUME IInv, NoDuplicateProvider, SpreadInv, [Next]_vars PROVE SpreadInv'
  OBVIOUS
<1>1. ASSUME NEW ids \in Announcements, Register(ids) PROVE SpreadInv'
  <2> SUFFICES ASSUME NEW id \in NodeId, handlers'[id] # <<>>
               PROVE  Balanced(Shares(id)', Len(handlers'[id]), Position(id)', skipped'[id])
    BY DEF SpreadInv
  <2> DEFINE new == {i \in NodeId : AllRegistered(ids)[i] # handlers[i]}
  <2>1. IInv' /\ TypeOK /\ TypeOK'
    BY NextIInv DEF IInv
  <2>2. CASE id \in new
    <3>1. skipped'[id] = 0 /\ served'[id] = [u \in URL |-> 0]
      BY <1>1, <2>2 DEF Register
    <3>2. /\ Len(handlers'[id]) \in Nat /\ Len(handlers'[id]) # 0
          /\ \A k \in 1..Len(handlers'[id]) : handlers'[id][k] \in URL
      <4>1. handlers'[id] \in Seq(URL)
        BY <2>1 DEF TypeOK
      <4> QED BY <4>1
    <3>3. \A k \in 1..Len(handlers'[id]) : Shares(id)'[k] = 0
      BY <3>1, <3>2 DEF Shares
    <3>4. next'[id] \in Counters
      BY <2>1 DEF TypeOK, IInv, CountersExist
    <3>5. next'[id] \in Nat
      BY <3>4, CounterRangeAssumption DEF Counters
    <3>6. Position(id)' \in Nat
      <4> DEFINE x == next'[id]
                 n == Len(handlers'[id])
      <4>1. x \in Nat /\ n \in Nat \ {0}
        BY <3>2, <3>5
      <4> HIDE DEF x, n
      <4>2. x % n \in 0..(n - 1)
        BY <4>1, TurnAfter
      <4>3. x % n \in Nat
        BY <4>1, <4>2
      <4> QED BY <4>3 DEF Position, x, n
    <3> QED BY <3>1, <3>2, <3>3, <3>6, RoundBegins
  <2>3. CASE id \notin new
    <3>1. /\ handlers'[id] = handlers[id] /\ next'[id] = next[id]
          /\ skipped'[id] = skipped[id] /\ served'[id] = served[id]
      BY <1>1, <2>3 DEF Register, CounterOf
    <3> QED BY <3>1 DEF SpreadInv, Shares, Position
  <2> QED BY <2>2, <2>3
<1>2. CASE UNCHANGED <<handlers, next, served, skipped>>
  BY <1>2 DEF SpreadInv, Shares, Position
<1> QED BY <1>1, <1>2, PickKeepsSpread DEF Next, FetchFails, ReadEntry, ResolveNone, vars

(* Between two changes of its list an id's workers are served evenly, to   *)
(* within one turn and the turns lost to stale copies and the wrap-around, *)
(* however many goroutines resolve it at the same time.                    *)
THEOREM SpreadIsEven == Spec => []EvenSpread
PROOF
<1>1. IInv /\ SpreadInv => EvenSpread
  <2> SUFFICES ASSUME IInv, SpreadInv, NEW id \in NodeId,
                      NEW k \in 1..Len(handlers[id]), NEW l \in 1..Len(handlers[id])
               PROVE  served[id][handlers[id][k]] <= served[id][handlers[id][l]] + 1 + skipped[id]
    BY DEF EvenSpread
  <2> DEFINE n == Len(handlers[id])
             s == Shares(id)
             p == Position(id)
  <2>1. n \in Nat /\ s \in [1..n -> Nat] /\ skipped[id] \in Nat
    BY ListedShares DEF IInv, TypeOK
  <2>2. handlers[id] # <<>> /\ Balanced(s, n, p, skipped[id])
    BY <2>1 DEF SpreadInv
  <2>3. s[k] = served[id][handlers[id][k]] /\ s[l] = served[id][handlers[id][l]]
    BY DEF Shares
  <2>4. next[id] \in Nat
    <3>1. next[id] \in Counters
      BY <2>2 DEF IInv, TypeOK, CountersExist
    <3> QED BY <3>1, CounterRangeAssumption DEF Counters
  <2>5. p \in Nat
    <3> DEFINE x == next[id]
    <3>1. n \in Nat \ {0}
      BY <2>1
    <3> HIDE DEF n, x
    <3>2. x % n \in 0..(n - 1)
      BY <2>4, <3>1, TurnAfter DEF x
    <3>3. x % n \in Nat
      BY <3>1, <3>2
    <3> QED BY <3>3 DEF Position, n, x
  <2>6. s[k] <= s[l] + 1 + skipped[id]
    <3> DEFINE a    == s[k]
               b    == s[l]
               lost == skipped[id]
    <3>1. a \in Nat /\ b \in Nat /\ lost \in Nat /\ k \in Nat /\ l \in Nat
      BY <2>1
    <3>2. /\ k < l => a + (IF k > p THEN 1 ELSE 0) <= b + (IF l > p THEN 1 ELSE 0) + lost
          /\ l < k => a + (IF k > p THEN 1 ELSE 0) <= b + (IF l > p THEN 1 ELSE 0) + 1 + lost
      BY <2>2 DEF Balanced, Level
    <3>3. k = l => a = b
      OBVIOUS
    <3> HIDE DEF a, b, lost, p
    <3>4. a <= b + 1 + lost
      BY <2>5, <3>1, <3>2, <3>3
    <3> QED BY <3>4 DEF a, b, lost
  <2> QED BY <2>3, <2>6
<1>2. Init => SpreadInv
  BY DEF Init, New, SpreadInv
<1> QED BY InitIInv, NextIInv, NextSpread, NoDuplicates, <1>1, <1>2, PTL DEF Spec
=============================================================================
