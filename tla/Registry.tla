------------------------------ MODULE Registry ------------------------------
(***************************************************************************)
(* internal/registry: the map from node ids to worker URLs.  Discover asks *)
(* each configured worker for its node ids, one worker after the other,    *)
(* and registers the answer under the write lock.  Resolve is called by    *)
(* the goroutines of running workflows: it copies the URL list and the     *)
(* counter pointer under the read lock and uses both after the unlock, so  *)
(* another registration may fall in between.                               *)
(***************************************************************************)
EXTENDS RoundRobin, FiniteSets

CONSTANTS
  NodeId,       \* node ids workers may announce
  Announcements, \* the lists a worker may answer /handlers with; an id may
                \* occur in one twice
  WorkerURLs,   \* the --workers list, in order; a URL may be listed twice
  Resolver,     \* goroutines that call Resolve
  NilPointer,   \* the nil *uint64 of an id with no counter
  MaxPicks      \* bound: number of successful Resolve calls explored

ASSUME RegistryAssumption ==
  /\ WorkerURLs \in Seq(STRING)
  /\ Announcements \subseteq Seq(NodeId)
  /\ NilPointer \notin Counters
  /\ MaxPicks \in Nat

VARIABLES
  handlers,     \* r.handlers: node id -> list of URLs (<<>> when absent)
  next,         \* r.next: node id -> counter, NilPointer when absent
  results,      \* the []DiscoveryResult built so far
  snap,         \* per resolver: the copy made under RLock, NoSnap if none
  answer,       \* per resolver: what its last Resolve returned
  served,       \* history: picks per id and URL since the id's list changed
  skipped       \* history: turns lost per id since then (stale list, wrap)

vars == <<handlers, next, results, snap, answer, served, skipped>>

URL      == {WorkerURLs[k] : k \in 1..Len(WorkerURLs)}
NoSnap   == [node |-> "", urls |-> <<>>, nil |-> TRUE]
NotFound == ""

Snap == [node : NodeId \cup {""}, urls : Seq(URL), nil : BOOLEAN]

(* Error is TRUE for a worker that did not answer /handlers properly.      *)
DiscoveryResult == [url : URL, ids : Seq(NodeId), error : BOOLEAN]

TypeOK ==
  /\ handlers \in [NodeId -> Seq(URL)]
  /\ next \in [NodeId -> Counters \cup {NilPointer}]
  /\ results \in Seq(DiscoveryResult)
  /\ snap \in [Resolver -> Snap]
  /\ answer \in [Resolver -> URL \cup {NotFound}]
  /\ served \in [NodeId -> [URL -> Nat]]
  /\ skipped \in [NodeId -> Nat]

New ==
  /\ handlers = [id \in NodeId |-> <<>>]
  /\ next = [id \in NodeId |-> NilPointer]

Init ==
  /\ New
  /\ results = <<>>
  /\ snap = [r \in Resolver |-> NoSnap]
  /\ answer = [r \in Resolver |-> NotFound]
  /\ served = [id \in NodeId |-> [u \in URL |-> 0]]
  /\ skipped = [id \in NodeId |-> 0]

-----------------------------------------------------------------------------
(* Discover: the worker whose turn it is in the loop over workerURLs.      *)
Discovering == Len(results) < Len(WorkerURLs)
Current     == WorkerURLs[Len(results) + 1]

(* fetchHandlers failed: reported, and the loop goes on.                   *)
FetchFails ==
  /\ Discovering
  /\ results' = Append(results, [url |-> Current, ids |-> <<>>, error |-> TRUE])
  /\ UNCHANGED <<handlers, next, snap, answer, served, skipped>>

(* The counter of an id after a registration: made with the id's first URL *)
(* and never replaced.  The two slips below it forget it and restart it.   *)
CounterForgotten(id, new) == next[id]
CounterRestarted(id, new) == IF id \in new THEN 0 ELSE next[id]
CounterOf(id, new) ==
  IF id \in new /\ next[id] = NilPointer THEN 0 ELSE next[id]

(* The slip of the outer loop of register below: looking for the URL in    *)
(* the lists as they were before the answer.                               *)
AllRegisteredUnseen(ids) ==
  LET after[k \in 0..Len(ids)] ==
        IF k = 0 THEN handlers
        ELSE [after[k - 1] EXCEPT ![ids[k]] =
                IF Registered(handlers[ids[k]], Current) = handlers[ids[k]] THEN @
                ELSE Append(@, Current)]
  IN after[Len(ids)]
(* The outer loop of register: the ids one after the other, each finding   *)
(* what those before it left, so a repeated id finds the URL it listed.    *)
AllRegistered(ids) ==
  LET after[k \in 0..Len(ids)] ==
        IF k = 0 THEN handlers
        ELSE [after[k - 1] EXCEPT ![ids[k]] = Registered(@, Current)]
  IN after[Len(ids)]

(* fetchHandlers returned ids: register them in one critical section.      *)
Register(ids) ==
  LET listed == AllRegistered(ids)
      new    == {id \in NodeId : listed[id] # handlers[id]}
  IN /\ Discovering
     /\ handlers' = listed
     /\ next' = [id \in NodeId |-> CounterOf(id, new)]
     /\ results' = Append(results, [url |-> Current, ids |-> ids, error |-> FALSE])
     /\ served' = [id \in NodeId |->
                     IF id \in new THEN [u \in URL |-> 0] ELSE served[id]]
     /\ skipped' = [id \in NodeId |-> IF id \in new THEN 0 ELSE skipped[id]]
     /\ UNCHANGED <<snap, answer>>

(* The read-locked part of Resolve.                                        *)
ReadEntry(r, id) ==
  /\ snap[r] = NoSnap
  /\ snap' = [snap EXCEPT ![r] = [node |-> id, urls |-> handlers[id],
                                  nil |-> next[id] = NilPointer]]
  /\ UNCHANGED <<handlers, next, results, answer, served, skipped>>

ResolveNone(r) ==
  /\ snap[r] # NoSnap
  /\ snap[r].urls = <<>>
  /\ answer' = [answer EXCEPT ![r] = NotFound]
  /\ snap' = [snap EXCEPT ![r] = NoSnap]
  /\ UNCHANGED <<handlers, next, results, served, skipped>>

(* The rest of Resolve: the emptiness test, the atomic addition, the pick.  *)
(* The turn is lost to the current list when the copy is older than it, or *)
(* when the counter wraps.                                                 *)
ResolvePick(r) ==
  LET id    == snap[r].node
      url   == Pick(snap[r].urls, next[id])
      stale == snap[r].urls # handlers[id]
      wraps == Bump(next[id]) = 0
  IN /\ snap[r] # NoSnap
     /\ snap[r].urls # <<>>
     /\ served[id][url] < MaxPicks /\ skipped[id] < MaxPicks
     /\ next' = [next EXCEPT ![id] = Bump(@)]
     /\ answer' = [answer EXCEPT ![r] = url]
     /\ snap' = [snap EXCEPT ![r] = NoSnap]
     /\ served' = IF stale THEN served ELSE [served EXCEPT ![id][url] = @ + 1]
     /\ skipped' = [skipped EXCEPT ![id] = @ + (IF stale \/ wraps THEN 1 ELSE 0)]
     /\ UNCHANGED <<handlers, results>>

Next ==
  \/ FetchFails
  \/ \E ids \in Announcements : Register(ids)
  \/ \E r \in Resolver :
       \/ \E id \in NodeId : ReadEntry(r, id)
       \/ ResolveNone(r)
       \/ ResolvePick(r)

Spec == Init /\ [][Next]_vars

-----------------------------------------------------------------------------
(* A resolver that holds a non-empty list also holds a counter to add to:  *)
(* the atomic addition after the unlock never dereferences nil, whatever   *)
(* was registered since the read lock was released.                        *)
NilCounterNeverUsed ==
  \A r \in Resolver :
    snap[r].urls # <<>> => ~ snap[r].nil /\ next[snap[r].node] # NilPointer

(* No URL is listed twice for one id, even when --workers names a worker   *)
(* twice or a worker names the id twice in one answer: a duplicate would   *)
(* get a double share of the rotation for good.                            *)
NoDuplicateProvider ==
  \A id \in NodeId : \A k, l \in 1..Len(handlers[id]) :
    handlers[id][k] = handlers[id][l] => k = l

(* The id is one of those a worker answered.                               *)
Named(id, ids) == \E k \in 1..Len(ids) : ids[k] = id

(* The report and the registry agree: a URL serves an id, once, exactly    *)
(* when some successful report of that URL names the id, and the reports   *)
(* follow the configured order with none left out.                         *)
ReportMatchesRegistry ==
  /\ NoDuplicateProvider
  /\ \A k \in 1..Len(results) : results[k].url = WorkerURLs[k]
  /\ \A id \in NodeId, u \in URL :
       (\E k \in 1..Len(handlers[id]) : handlers[id][k] = u)
         <=> \E k \in 1..Len(results) : results[k].url = u /\ Named(id, results[k].ids)

(* Round-robin: between two changes of an id's list its URLs are served    *)
(* evenly, to within one turn plus the turns lost to stale copies and to   *)
(* the wrap-around of the counter.                                         *)
EvenSpread ==
  \A id \in NodeId : \A k, l \in 1..Len(handlers[id]) :
    served[id][handlers[id][k]] <= served[id][handlers[id][l]] + 1 + skipped[id]

(* Discovering more workers never takes one away, never reorders the list  *)
(* and never restarts the rotation of an id that is already being served.  *)
RotationSurvivesDiscovery ==
  [][\A id \in NodeId :
       /\ Len(handlers[id]) <= Len(handlers'[id])
       /\ \A k \in 1..Len(handlers[id]) : handlers'[id][k] = handlers[id][k]
       /\ next[id] # NilPointer => next'[id] \in {next[id], Bump(next[id])}]_vars
=============================================================================
