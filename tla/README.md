# steppr: TLA+ models and proofs

[steppr](../src/README.md) runs *workflows*: trees of nodes in which an
enhancer or action calls a remote worker over HTTP and a filter starts one
branch for every condition that holds. This directory models the parts of it
whose correctness depends on order, sharing and failure, checks them with TLC
on small instances and proves the most important facts with TLAPS for all
values of the constants.

## 1. The system

| component | state it keeps | operations | interacts with |
|---|---|---|---|
| workflow definition (`internal/model/workflow.go`) | none (a value) | `Successors`, `NodeMap`, `StartNode` | read by everything |
| validator, data-flow check (`validation.go`, `dataflow.go`) | none (pure) | `Validate`, `ValidateWithSchema`, `ValidateDataFlow` | called by the CLI |
| engine (`internal/engine`) | one call tree per execution; payload maps and `parent_nodes` slices shared by goroutines | `Execute`, `executeNode`, `executeLinear`, `executeFilter` | calls `Resolve` and the dispatcher; starts a goroutine per activated branch |
| registry (`internal/registry`) | `handlers`, `next` (round-robin counters) under a RWMutex | `Discover`/`register`, `Resolve`, `Has` | filled by the CLI, used by engine goroutines |
| dispatcher (`internal/dispatch`) | none | `Dispatch`, `DispatchNode` | POSTs to workers, 30 s timeout |
| command line (`cmd/steppr`) | one process | `validate`, `list`, `run` | composes all of the above |
| condition language (`condition.go`, `eval.go`) | none (pure) | parse, `Evaluate` | called by filters |
| TypeScript SDK (`sdk/typescript`) | one call tree per execution; the resolver's `registry` and `counter` | `execute`, `discover`, `register`, `parse`, `validate`, `evaluate` | used by the web editor; posts to workers |
| worker SDKs (`sdk/go`, `sdk/python`, `worker.ts`) | a table of handlers | `GET /handlers`, `POST /execute` | answer the engines |
| web editor: the definition (`web/src/workflow-store.ts`, `node-editor.ts`, `graph.ts`, `registry.ts`) | the definition, a dialog's draft, a wiring mode | the dialog's fields, gestures on the graph, add, wire, delete; two exports (preview text, object for the simulator); layout of the graph | listeners of one page |
| web editor: the page (`web/src/main.ts`, `example.ts`) | input text, selected example, `localStorage`, marks of the last run, result pane | edit, type, select an example, reset, reload, validate, run | the definition; the TypeScript SDK with stubs for workers |

Hard behaviours: branches of a filter run concurrently and share the payload map
and the parent list they were handed; a worker may answer after the dispatcher
has given up on it, or not at all; a branch may fail while its siblings go on;
`Resolve` uses what it read after it has unlocked; `Execute` itself validates
nothing; the validator's searches keep colours from one search to the next; the
TypeScript engine rejects at the first exception while its other branches go on;
the editor accepts any order of gestures, and a dialog saves a draft made
against an earlier definition; the editor exports one definition twice, once to
be validated and simulated and once as the text a user deploys; a write to
`localStorage` may be refused without a word. `PROJECT.json` lists each of them
under "hazards", at its line.

What makes each part correct:

- **validators** (Go and TypeScript): accept exactly the trees; say "cycle" when
  there is one; the data-flow check accepts what the engine will in fact supply.
- **engine**: each node runs, and is posted, at most once; branches do not see each other's
  output; the result has one trace per leaf; its verdict is true; what was
  reported is never revised; every execution ends.
- **command line**: what passes its checks fails only for what workers answer or
  conditions meet.
- **registry**: no nil counter, no duplicate provider, even spread, a report
  that agrees with the registry, rotations that survive discovery.
- **condition language**: one order behind the six comparators, an implicit or
  that is an or, and one meaning in Go and in TypeScript.
- **TypeScript engine**: what the Go engine promises, traces in branch order
  whatever the order of answers, and nothing in flight once `execute` resolves
  (a rejection leaves branches running).
- **TypeScript worker**: an exception or a missing value is never taken for an
  answer.
- **web editor**: a start that exists, gestures that close no cycle, added nodes
  that can be seen, boxes that hide no other, references that follow a renamed
  node; a preview that is accepted and means what the simulator does; a reload
  that brings back what was on show; marks and runs of the current definition.

## 2. Modules

| module | models | depends on |
|---|---|---|
| `Workflow` | a parsed definition: nodes, `Successors`, `NodeMap`, what a non-merging definition is (`IsTree`), and what filtering a list keeps (`Picked`) | |
| `RoundRobin` | the pure parts of `register` and `Resolve`: the duplicate test, the wrapping counter, the pick | |
| `GoSlice` | Go's `append` on slices that may share a backing array (the language, hence external) | |
| `Registry` | `Discover`, `register`, `Resolve` | `RoundRobin` |
| `Validator` | all rules of `ValidateWithSchema` and `ValidateDataFlow`, in Go and in TypeScript | `Workflow` |
| `Export` | the editor's two exports of a definition, and the parser that reads the text of one | `Validator` |
| `GraphLayout` | `computeWidth` and `assign` of the graph: where the boxes are put | `Validator` |
| `Validation` | a definition validated by both, exported and laid out; the properties of all four | `Validator`, `Export`, `GraphLayout` |
| `Engine` | one `Execute` with its goroutines, the dispatcher and the workers | `Workflow`, `RoundRobin`, `GoSlice` |
| `WorkflowRun` | the abstract specification of an execution | |
| `Lineages` | what a call inherits from the calls above it, for the properties of both engines | |
| `EngineProperties` | the properties of `Engine`, and the refinement mapping to `WorkflowRun` | `Engine`, `Lineages` |
| `Cli` | `steppr run`: validation and preflight composed with the engine | `EngineProperties`, `Validator` |
| `TsWorker` | the answer of a `StepprWorker` to `POST /execute`, for every behaviour of its handler | |
| `TsEngine` | `HttpResolver.discover` and one `execute` of the TypeScript engine, with such workers | `Workflow`, `TsWorker` |
| `TsEngineProperties` | its properties, and its refinement mapping to `WorkflowRun` | `TsEngine`, `Lineages` |
| `ConditionOperators` | the values of the condition language and its operators, in both languages | |
| `Condition` | parsing and evaluation of conditions, and the rows the editor makes them of | `ConditionOperators` |
| `ConditionProperties` | what the language promises, and what the preview does | `Condition` |
| `ConditionAgreement` | where the two implementations may differ | `ConditionProperties` |
| `WorkflowEditor` | the store and every listener of the page that changes the definition | `Workflow` |
| `EditorProperties` | the properties of the editor | `WorkflowEditor` |
| `Simulation` | what the simulator's buttons call: validator and engine of the SDK on the exported definition | `Export` |
| `Simulator` | the page around the definition: input, examples, `localStorage`, marks, stubs, the buttons | `Simulation` |
| `MCRegistry`, `MCEngine`, `MCValidation`, `MCTsEngine`, `MCCondition`, `MCEditor`, `MCSimulator` | instances for TLC | |
| `WorkflowProofs`, `RegistryProofs`, `EngineProofs`, `TsEngineProofs`, `ValidationProofs`, `ConditionProofs`, `EditorProofs`, `SimulatorProofs` | theorems | |

**Engine and the code.** A call of `executeNode` is named by its address: the
root call is `<<>>`, and the call for the i-th successor of the node of call `c`
is `Append(c, i)`. `args[c]` holds its arguments (node, payload map, parent
slice), `exec[c]` its `NodeExecution` and where it stands: `ready` (entered),
`await` (inside `DispatchNode`), `called` (waiting for the calls below), `done`
(returned, with its traces). Each early return of `executeLinear` and
`executeFilter` is an action of its own (`NoWorkerFound`, `DispatchError`,
`WorkerFailure`, `RejectOverwrite`, `CompleteTerminal`, `CompleteDangling`,
`FilterFails`, `FilterNoHit`); the recursive call is `CompleteAndContinue`, the
`go` statement `StartBranch`, the locked section `JoinBranch`, the end of
`wg.Wait` `FilterReturn`. Payload maps live in the heap `maps` under the call
they were built for, because branches are handed the same map; backing arrays
live in `arrays`, because branches append to the same slice. `wire[c]` is the
message as marshalled, with the number of POSTs and the worker's reply: a worker answers whenever it
likes (`WorkerAnswers`), also after `DispatchError`. Conditions are a parameter
(`Evaluate`, with outcomes true, false and error), values are small numbers, and
`Shown` stands for `fmt.Sprintf("%v", v)`.

**Cli and the code.** `steppr run` is `Refused` (the validator without a schema,
then the preflight, which asks the registry and not the nodes' own `worker`
fields) before an execution of `Engine`. Executions of refused definitions are
explored as well, since `Execute` itself checks nothing; what the checks are
worth is the property `CheckedRunsFailAtWorkers`.

**Registry and the code.** `Resolve` is two actions, split at the `RUnlock`:
`ReadEntry` copies the list and looks at the counter pointer, `ResolvePick` or
`ResolveNone` does the rest, with any registration in between. `register` is
one action because it holds the write lock; it goes through the announced ids one
after the other (`AllRegistered`), so an id announced twice meets what its first
mention left. `served` and `skipped` are history
variables for the fairness of the rotation.

**Validator and the code.** Every rule is an operator that yields a set of
errors, an error being its kind and the ids it names. The depth-first search
carries its colours from one search to the next as the closure in the code
does, including the ids it leaves gray. A recursive closure is a function of the
depth of its calls (`Dfs`, `Visits`), defined level by level up to the number of
nodes, which no path exceeds, and a loop inside it a function of the place in
the list; so proofs can be made about them. A dialect, "go" or "ts", stands for the
implementation where the two differ.

**Export, GraphLayout and the code.** `toWorkflowDef` is what the simulator
gets, the preview is YAML text that `parse` reads again. Scalars are written
bare, so an id that reads as a number or as null comes back as something else:
`Respelled` says what a scalar becomes, `NullWords` which ones are null. The labels
and conditions of branches are written bare as well; `Readable` says of a branch
whether the parser accepts the two as written, and what a condition means that it
does accept is the matter of `Condition`. The
layout's two recursive functions are followed with their memories (widths known,
ids seen), because a node met twice gets the width of the first meeting; like the
search they are functions of the depth of calls.

**TsEngine and the code.** The same addresses of calls. One thread runs
everything: what follows an `await` runs up to the next one before the event
loop hands over another answer, so `Answer` needs `Idle`, and what is left to
chance is the order of answers and what the handlers do. `TsWorker` turns that
into a response: a value, a value that is `undefined`, an exception, or a node it
does not serve. A body that is `null` or
has no `output` throws outside the `try` (`MergeThrows`), which rejects `execute`
at once while sibling branches go on and may still post. Payloads are
copied by spreading and never changed, so they are values.

**Condition and the code.** Values are records by kind; maps keep the order of
insertion, which `JSON.stringify` shows and Go's `%v` does not. Steps both
implementations take alike are one operator, the others take the dialect:
key lookup, number syntax, length of texts, printed forms. What `ParseFloat` and
`Number` read in a text is a constant. Errors are values, and operands are
looked at from the left until one decides. The rows of the dialog are turned
into a condition twice, as an object for the simulator and as text for the
preview; `Blank` and `Resolved` say what an unquoted scalar reads as.
Parser and evaluator call themselves for an expression inside another. The
constants `ParsedInside` and `EvaluatedInside` stand for these calls, and
`MCCondition` ties the knot: there they are `ParseOpExpr` and `EvalOp`, so TLC
runs the recursion of the code. In the proofs they are whatever meets the
assumptions. A branch's `condition:` may be missing, which both languages take for
an unconditional branch, or be null: then the YAML library of Go does not call
`UnmarshalYAML` and the branch is unconditional too, while `parser.ts` throws
(`BranchCondition`).

**WorkflowEditor and the code.** A listener runs to completion, so each is one
action. The dialog covers the page: while a draft is open, only its own controls
act. A draft offers the targets of its last rendering (`offered`), which lag
behind what has been typed since. `upsertNode`, `connect`, `disconnect`,
`deleteNode`, `wouldCreateCycle` and `autoWireNewNode` are operators from a
definition to a definition. Each change is persisted by the store's subscriber,
so `Reload` keeps the definition and loses the draft and the wiring. Labels and
conditions are left out, so `disconnect` may take any branch with the target.
`findTerminal` is followed in two steps: the ids it visits, in order (`Visited`),
and the first of them that is an open end. `Array.filter` is `Picked`, which says
by counting which element goes where, so that proofs can be made about it.

**Simulator and the code.** Here the definition changes as a whole (`Edit`), and
what is followed is everything around it: each listener is one action together
with the writes and repaints it triggers. `Persist` may be refused (a full
`localStorage` throws, and the `catch` is empty); `loadExample` writes twice,
and each write may be refused on its own. A stub is the JSON text a node answers
with, kept as its entries: duplicated keys, blanks around names and texts that
read as JSON are where the dialog's reading and writing are not inverse. `Words`
are the texts that the names and values of its fields are made of. What the
buttons call is `Simulation`: `validate`, and an execution with
`InMemoryResolver`, of any JSON value but null: a number, text or list goes on like
an object, with the fields `Object.keys` and a spread find in it (`Properties`).
In the execution no handler awaits anything, so that it is a function
of definition and payload. Its calls are the levels of a closure, as many as a tree
has nodes; a definition is validated before, so none is cut off.

Several definitions are preceded by a *slip*: the same operation with a
plausible mistake (a loop variable captured, a lock forgotten, a reset
missing). They are not used by the model; each property is known to fail when
one of them takes the place of its original.

## 3. Runs

| run | instance | what it shows |
|---|---|---|
| `registry` | 1 id, worker list u1 u2 u1 u3, each announcing it never, once or twice, 2 resolvers, counter mod 5, at most 3 picks per URL | `TypeOK`, `NilCounterNeverUsed`, `EvenSpread`, `ReportMatchesRegistry` (the report is the registry, without doubles), `RotationSurvivesDiscovery` |
| `engine` | 2 trees with nested splits and 4 answers, 9 definitions the validator rejects, a split below five nodes; two values that print alike; strict mode on and off | `TypeOK`, `AtMostOnce`, `BranchIsolation`, `OneTracePerLeaf`, `SoundVerdict`, `ParentsUpToSplit`, `StrictKeepsForms`, `SettledForGood`, `Termination`, the refinement `ImplementsWorkflowRun`, and `CheckedRunsFailAtWorkers` of the command line |
| `engine_parents` (violated) | the split below five nodes | `ParentsAreAncestors` fails: see findings |
| `engine_printed` (violated) | two values that print alike | `StrictNeverOverwrites` fails |
| `validation` | all definitions of 3 nodes, misshaped ones of 2, a flow, nested filters, ids that are odd as YAML, branches that cannot be read; each with no schema, an empty one and one of one field | `AcceptsExactlyTrees`, `CyclesAreReported`, `ReadsAreAncestral` for both validators, `PreviewIsValidated`, `BoxesApart` |
| `validation_supplied` (violated) | the same | `ReadsAreSupplied` fails |
| `ts_engine` | a split above a split, 7 other definitions (rejected by the validator or not served), 7 behaviours of a handler, 2 workers of which either may fail discovery, strict mode on and off | `TypeOK`, `TracesInBranchOrder`, `SoundVerdict`, `BranchIsolation`, `NothingAfterTheVerdict`, `ImplementsWorkflowRun`, `Termination` |
| `ts_silent` (violated) | no worker is obliged to answer | `Termination` fails |
| `condition` | 81 conditions, an absent and a null one among them, and the rows of the editor, every pair of 21 values as payload | `EnginesAgree`, `ComparatorsAreOneOrder`, `TopLevelIsOr`, `PreviewMeansTheSame` |
| `editor` | from an example and a chain, up to 4 nodes, 2 branches and 4 changes | `TypeOK`, `StartDefined`, `GesturesKeepAcyclic`, `AddedIsReachable`, `ReferencesKept` |
| `editor_hidden` (violated) | the same | `NoNodeHidden` fails |
| `simulator` | 2 examples, 3 drafts of a definition, inputs that are objects, a text, null and no JSON, any write refused | `SavedUnlessRefused`, `ShownRunIsClean`, `StubsSurviveTheDialog` |

**Bounds.** Two concurrent branches are what every race of the engine needs;
a third adds schedules and no new kind of conflict. Nesting two splits makes a
join of joins. Depth matters only for slice capacities, which double: five
nodes above a split is the first depth with two spare slots (length 5, capacity
8); that definition is part of `engine`, with workers that add nothing. The
counter's width must not be a multiple of the number of URLs for a wrap to
disturb the rotation, hence 5 against 2 and 3 (in the code 2^64). The preflight
needs a definition that passes validation and has a node nobody serves below a
split, and another that has none. A doubled
reference, a merging edge, an unreachable cycle and two subtrees drawn side by
side all exist with three nodes; nested filters are added because widths add up
only from two levels on. Every comparison has two operands, so pairs of values of
every kind cover it; texts are chosen one for each way the two languages can
disagree (blanks, overflow, `NaN`, letters of two bytes), and for each way an
unquoted YAML scalar may be read. In the editor `MaxEdits` counts changes of the
definition or the draft: four are open, type, save and one gesture after it, the
shortest path to a duplicate id and to a stale target; four nodes hold a split,
both its branches and one more. In the simulator two examples are what a declined
selection and a half-refused load need; the drafts are accepted
or refused depending on the input, one has a node without its declared field, and one
starts with a filter, to which a text as input looks unlike an object.

**Deadlock.** Executions end and processes stop, so deadlock is not checked;
`Termination` says instead that the end is reached.

**Fairness.** `FairSpec` is weak fairness of the engine's own steps: the Go
scheduler eventually runs a goroutine that can run, and `http.Client` has a
timeout, so `DispatchError` is enabled for as long as a call waits. Nothing is
asked of workers. `TsEngine` has two: `LoopSpec` asks the event loop to go on
and discovery's own timeout to fire, which is all the code provides for;
`FairSpec` adds that every post is answered or breaks, which the code takes for
granted. `ts_engine` assumes the second, and `ts_silent` shows that it has to.
The other modules have no liveness property: a registry, a validator and a page
wait for whoever uses them.

## 4. Findings

- `engine.go:291`: the branches' goroutines append to one `parent_nodes` slice.
  With spare capacity they share an array, and a worker can be sent an ancestor
  of another branch. `ParentsUpToSplit` says what is still right.
- `engine.go:65`: equality by printed form lets strict mode merge the string
  "1" over the number 1. `StrictKeepsForms` says what is still right: every value
  keeps its printed form.
- `engine.ts:328`: posts have no timeout, so a worker that never answers keeps
  an execution waiting for ever, against the README's "Termination is guaranteed".
  On Node the runtime's own `fetch` gives up after about 300 s of silence, which
  nothing in the code sets; in a browser, or with a worker that sends a byte now
  and then, the wait has no end.
- `workflow-store.ts:88`: a node saved under an id in use leaves two nodes with
  one id, and the graph draws and opens only one.
- `dataflow.go:69`: a filter's declared `produces` count for its descendants,
  but filters add nothing to the payload.

Smaller things the modelling met, which the properties state as exceptions or
describe exactly rather than forbid:

- `validation.go:108` (and `validator.ts:106`): an id that is not defined is
  coloured gray and never blackened, so a second reference to it is reported as a
  cycle as well. `CyclesAreReported` says precisely when.
- `graph.ts:108`: a branch without a target takes a column that `computeWidth`
  has not counted, so boxes may overlap; `BoxesApart` excludes such definitions.
- `workflow-store.ts:223`: labels and conditions are written bare, so a label like
  `a: b` makes the preview unreadable for `parse`. `PreviewIsValidated` says that
  nothing else does; `PreviewMeansTheSame` is about rows that are filled in.
- `workflow.go:25` and `parser.ts:113`: `condition:` with nothing behind it makes a
  branch unconditional in Go, whose pointer stays nil, and is an error in TypeScript. `EnginesAgree` names it.
- `main.ts:583`: for an input without fields "Validate" leaves the data flow out and
  "Run" checks it against no fields, so a definition called valid may be refused.
- `main.go:106`: `steppr run` validates without data flow, although there is an
  input it could check against.
- `main.ts:82`: loading an example writes twice; when the second write is
  refused, the new workflow is stored with the old payload.
- `main.ts:121`: declining the question when there is nothing stored leaves the new
  example selected with the old definition on show.
- An edit takes the marks off the graph, but the output pane keeps the result of
  the earlier definition.
- `node-editor.ts:293`: opening the dialog of a stub whose value is a text that
  reads as JSON and saving it turns the text into that value.
  `StubsSurviveTheDialog` is about all others.

`EnginesAgree` passes and yet is the place to read about differences: it holds
*unless* a condition is null, a text is read or measured differently (`" 3 "`, `"1e400"`, `"NaN"`,
letters of several bytes), a path enters a list or names an inherited method
(`items.0`, `v.toString`), or two lists or two maps are compared (Go prints
`[3]` for a number and for a text, TypeScript tells them apart; TypeScript
tells maps by order of insertion, Go does not). Each exception is needed: TLC
finds a disagreement when any one of them is dropped.

## 5. Proofs

All theorems hold for every definition, payload, condition, reply and number of
branches, workers or examples that meets the named assumptions.

**`RegistryProofs`**: `TypeCorrect`, `NilCounterSafe`, `NoDuplicates`,
`RotationSurvives`, `ReportsMatch` and `SpreadIsEven`. The inductive invariant is
`TypeOK` with: an id that has URLs has a counter (`CountersExist`), and a
resolver's copy is a copy of a state of that id (`SnapsAreOfIds`).
`NilCounterNeverUsed` is not inductive without the first: it speaks of copies
only, and copies come from the registry. For `ReportsMatch` the report and the
registry are followed together: a URL enters both in one step, and the duplicate
test keeps a second entry out of both, whatever ids the answer repeats (`Partly`, by
induction on its length). `EvenSpread` compares two totals and does
not say whose turn it is, so `SpreadInv` adds the counter's position: with the
URLs still to come in this round counted as served once more, an earlier URL is
never ahead of a later one and never more than one behind, but for the turns lost
(`Balanced`). A turn served moves the position by one, modulo the length of the
list (`TurnServed`); a turn lost, by a stale copy or by the wrap, is paid for in
`skipped`.

**`EngineProofs`**, first part: `EachNodeAtMostOnce`, `SettledStaysSettled`,
`BranchesAreIsolated` and `StrictModeKeepsForms`. The invariant of the first two
is `TreeInv /\ ExecInv /\ EnteredOnce`. `TreeInv` says that the calls are closed
under parents, that every call but the root came along an edge of its parent's
node, and that the root is the start. Then two calls for one node id came along
one edge (each id has one incoming edge, `SameEdge`), so by `EnteredOnce` of the
parents they have the same parent and the same index; the start has no incoming
edge, so it is not met again. `ExecInv` gives the shape of `exec` and that the
children a call may still make do not exist yet. For the POSTs, a call that posts has
not posted before, since it is `ready` only once (`PostedOnce`).

Maps are shared, so isolation rests on who may write one: no step changes a map,
an argument or a reply that is there (`Kept`), the map a call was handed is on
the heap and the linear calls above it have been answered (`HeapInv`), and only
calls that have posted wait for an answer (`WireInv`). `PayInv` then follows a
payload down the tree: a child's is its parent's with one more output over it
(`OverlaidMore`, for linear nodes) or the same map (for filters).
`StrictModeKeepsForms` assumes nothing of `Shown`: an answer that was merged in
strict mode shows no field in another form than the input does (`CompletedInv`), and
forms carry over from there down the tree. That the *values* are kept is what the
code's comment claims and `engine_printed` refutes.

**`EngineProofs`**, second part: `ImplementsRun`, `VerdictIsSound`,
`NoTraceIsLost`, `ParentsBelowFilters`, `EngineTypes` and
`CheckedRunsAreBlameless`. For the refinement each
action is mapped to `Begin`, `Refuse`, `Fail`, `Succeed`, `Start`, `Report` or a
stutter; `Report` is the hard one, since the code reads one call's traces and the
abstract run asks that all calls have settled. `AllInv` carries that up the tree:
a call that is done has only done calls below it, and its traces hold a
failed one exactly when it or some call below it failed (`RunInv`, one `CallOK` per
call). `SoundVerdict` follows with what the report says of the root (`VerdictInv`).

`OneTracePerLeaf` equates a length with a cardinality at the end of a run.
`LeafInv` says it of every call all the time and without counting: a call holds
exactly one trace of each leaf below it once it has returned, and of each leaf
below the children it has joined until then, and that trace lists the calls on
the way to the leaf (`OnePer`). Joining one more child adds traces of other
leaves, since no address is below two siblings. The traces and the leaves are
then in bijection, and the library's counting theorem gives the number.

`ParentsUpToSplit` says what survives the sharing of `parent_nodes`. Branches do
write over each other's slots, but a call at depth k appends at slot k, whatever
array it appends to; so each slot only ever holds the id of some call at its depth
(`ParentInv`). Down to the first filter all calls lie on one path
(`OneWayToFilter`), so that there the call is the ancestor itself. `EngineTypes`
adds to all these what is known of the maps, the counters and the replies
(`DataInv`).

`CheckedRunsAreBlameless` puts the validator and the preflight together with the
engine. A definition that passes both has known types and defined successors
(`AcceptedDefinition`), and each of its linear nodes is served
(`ServedAndDefined`); so of the ways a call ends, those of `DefinitionErrors` are
never enabled (`CallsAreBlameless`), and `RunsWell` is inductive next to the
counters' types.

**`TsEngineProofs`**: `NothingIsLeft`, `TypeCorrect`, `VerdictIsSound`,
`BranchesAreIsolated`, `ImplementsRun` and `TracesKeepBranchOrder`. The engine's many actions do one of four
things to the tree of calls (`StepKinds`): a call ends, stalls, opens calls below
it, or resolves with what came back. `CallsInv` gives the tree, `RunInv` what
each call holds: its traces end in decided calls and tell whether they failed,
and a call that is done has passed up every failure below it. What comes back is a
recursive concatenation (`Below`); `GatherExists` and `GatherIs` say what is in it,
by least counterexample. Then a root that is done has nothing running below it
(`RootDone`, from the shortest address of which it would not be true), so no step
is left once execute has resolved (`FinalIsStill`). A rejected execution is another
matter: `result` is then `"rejected"` and the tree goes on, which `ResultInv` allows.

The other five rest on that invariant and two more.
`RegInv`: an id's list holds only workers that announced it, so a worker that is
posted to knows the node and its status tells whether the handler returned.
`AnswerInv`: a call that waits has posted and holds no answer, hence no answer
is ever replaced; one that succeeded holds a body that is no failure; an error
names what the answer was. Isolation follows as for Go, though objects are
copied here and no heap is needed. In the refinement a call that opens others is
`Succeed`, with all its children begun at once; a stall is a stutter, and so is
the rejection of an execution that has begun, for which the abstract verdict
stays pending. `TracesInBranchOrder` has an invariant like that of
`OneTracePerLeaf`, with an order: what a call returned is one trace of each leaf
below it, in the order of addresses (`OneEach`), and a concatenation over the
branches from left to right keeps that order, whichever of them settled first.

**`ValidationProofs`**: `CyclesReported`, `ExactlyTreesAccepted`,
`AncestralReads`, `PreviewTrusted` and `BoxesStayApart`, for definitions of any
size, well formed or not. A check is one step, so the work is in the operators; the
state invariant (`Judged`) only says that the verdicts are those on the chosen
definition. What the simulator needs as well (the walk, the search, the visits, the
definition handed over) is in `WorkflowProofs`.

`CyclesReported` is the correctness of the three-colour search, as it is coded:
with duplicated ids, with dangling ones, and with colours that outlive a search.
`Clean` is what holds of a search that has found nothing after looking at a set
of arcs: black ids are defined, have had all their arcs looked at, lead to black or
to undefined ids only and lie on no path to themselves; and each undefined id
that is gray was come to by one arc, no two of the arcs looked at leading to one
of them. `ToSearch` and `Passed` are the contract of one call of `dfs` (everything
gray and defined leads to the id it is called with; the other white ids it leaves
white or black), proved by induction on the white ids that are left
(`DfsSearches`), over the loop of `ScanSearches`. Conversely a reported cycle is a
path or a second arc to one undefined id (`Detected`). Since the induction may not
go over a predicate, it goes over the set of depths at which the contract holds.

`ExactlyTreesAccepted` takes the rules one by one (`DuplicatesAre`, `ShapesAre`,
`ReferencesAre`, `MergingsAre`) and then relates search and ranking: with one edge
into each id, none into the start and all reached from it, the level of the walk
that first reaches an id is a rank (`TreesAreRanked`); and a rank excludes cycles
(`RankedIsAcyclic`) and, going up from any id, leads to the start
(`RankedIsReached`). The proof did not go through at first: a filter with a branch
to nowhere is a tree with respect to the other rules if some node has the empty
text for its id. `WellShaped` now asks for the targets of branches, as
`validation.go` does.

`AncestralReads` follows the visits: a node of a tree is visited at its level with
the input and what all its proper ancestors produce and nothing else
(`VisitsAre`), since above a child of a tree are its parent and what is above that
(`AboveChild`). `PreviewTrusted` compares the definition that is validated by the
button with the one that is written and parsed again. The latter is the former
with other ids (`Renames`), and unless two ids become one, every notion in
`WellFormed` and in `Supplied` is invariant under such a renaming
(`RenamedRanked`, `RenamedPaths`, ...); branches are written as they are, so those that
cannot be read are the same in both; incomplete definitions, with filters that
have no branches or nodes of no type, are refused on both ways.

`BoxesStayApart` needs of the first pass what the second builds on: a node is as
wide as its children together (`Fits`). `computeWidth` remembers ids as seen
before their widths are known, and a node met again gets width one, so the
contract of a call (`ToMeasure`, `WasMeasured`) says which ids are still open: those
above it. An open id is never a child of a node below it unless there is a
cycle, and once settled a width is never changed (`Settled`, `Keeps`); by
induction on the ids not yet seen, every drawn node fits (`WidthsFit`). The second
pass puts a node above an interval of columns as wide as it, and its children
side by side within that interval (`Neat`, `Placing`), row by row
(`AssignPlaces`); intervals of siblings do not meet, and rows do not either.

**`ConditionProofs`**: `ConditionsOrdered`, `ListsAreOr`, `PreviewsMeanTheSame` and
`OperatorsAgree`. A decision is one step and `Choice` says what was decided upon;
the work is again in the operators, which are proved about as operators on any
values. `ComparatorsOrder`: whether a comparison fails does not depend on which
of gt, gte, lt and lte it is (`ComparisonsDecide`), and when none of two values
lacks a number, loose equality is equality of the numbers. `ListIsOr` is De
Morgan's law for operands that are looked at from the left: what decides an or
over some values decides an and over their denials, and it is the same first value
(`FirstDecides`), so a failure before it is passed on by both and one behind it by
none. `PreviewsMeanTheSame` needs no evaluation: the preview's line of a tidy row
is parsed into the row's own expression (`LineParsed`).

`OperatorsAgree` is what `EnginesAgree` says of one operator: on values both
languages read and measure alike, at most one of them a list or a map, each
operator returns the same in both, and what it returns is such a value again and no
list or map. The induction from there over the nesting of a condition and the
keys of a path, which would prove `EnginesAgree`, is beyond the prover.

**`EditorProofs`**: `EditorTypes`, `StartNeverLost`, `GesturesNeverClose` and
`ReferencesNeverLost`. A draft is saved many steps after its dialog was opened, so
the invariant `EditorInv` speaks of both: the definition is well formed, within
its bound and has a start (`Sound`); an open dialog's draft is a node that fits
its type, was opened from a node that is still there, and leads only to nodes of
the definition or to targets it has (`Dialogs`). `StartDefined` alone is not
inductive, because a save renames the node the dialog was opened from. Each
operation of the store has a lemma on what it keeps of ids, targets and
well-formedness (`RenamedKeeps`, `DeletedKeeps`, `ConnectKeeps`,
`DisconnectKeeps`, `AddedKeeps`), each field of the dialog one on the draft
(`IdRedrafts` and so on).
For the cycles, `Reach` is a fold, as many rounds as there are nodes; `ReachIs`
shows that this computes the least set closed under edges, by the pigeonhole
principle on the levels. Then an edge to a node from which its source is not
reached closes no cycle (`EdgeAdded`), and neither does the edge automatic wiring
adds, since the new node leads nowhere yet (`AddedKeepsAcyclic`). That a cycle *can*
come from the dialog is known, and the property is about gestures; reference
keeping makes one exception, found while modelling: a node that refers to its own
former id keeps that reference when it is renamed.

**`SimulatorProofs`**: `NothingLost`, `MarksNeverStale` and `ShownRunsAreClean`,
for any examples, edits, texts and conditions, and `LookingChangesOnlyThese`, for any stubs, rows and meaning of `JSON.parse` and
`trim` that meets `StubAssumption`. What a dialog may show was written by a dialog
or came with an example, so the invariant `StubInv` says of every stub on show or
stored that its values are canonical: each is what some text is parsed as, or a
text. Reading a value back then gives the value unless it is a text that parses
(`CoercedBack`), and a trimmed name is itself when trimmed again, so the entries come
back one for one exactly in the cases the property names.

`ShownRunsAreClean` joins the page, the validator and the engine. The marks
belong to a run that validation let pass (`MarksInv`), of a definition that came
from an example, from the store or out of `localStorage` and so is one in shape
(`PageInv`). Since its references are defined, a node's execution fails at a
condition or not at all and calls children only (`NodeLeavesWell`). The payloads
and the fields the data-flow check counts on are then followed level by level,
side by side: each call is foreseen by a visit to its node with no more fields
than it is handed (`CallsAreForeseen`), by what the stubs are supposed to answer
with; and no visit misses a read. The check was made on the exported
definition, so stubs and reads are carried over to the one on show
(`StubsHandedOver`, `ReadsHandedOver`, by the uniqueness of ids).

`WorkflowProofs` supplies what several of these need: a least-number lemma and a
form of induction over sets instead of operators (`LeastNatural`, `UpTo`); that a
function defined by steps exists (`Iterated`), and that the levels of a closure do and
stop growing after as many as there are ids (`LevelsExist`, `LevelsClose`); from the
first, that among the positions with an id in a definition there is a last one
(`NodeMapType`); prefixes of addresses, and what lies under what; what one more
output does to an overlay; and what filtering a list gives (`PickedIs`): the
chosen elements, all of them, in order, by ranking the chosen places.

The assumptions are those named in the modules, and TLC evaluates them in every
run: `EngineAssumption` (definitions and handler lists are lists),
`TsEngineAssumption` likewise, `InputAssumption` and `ReplyAssumption` (payloads
and outputs are maps, and a missing reply is none), `BranchesAssumption`
(`MaxBranches` bounds the branches of a filter), `CounterRangeAssumption`,
`RegistryAssumption`; `EditorAssumption` (the examples are well formed, every
target in them is defined, registered handlers are enhancers or actions, and the
numbered ids that `uniqueId` tries differ), `AcyclicExamples`;
`CliAssumption` (discovery is not given a blank worker), `ValidationAssumption`
(what is validated came out of a parser: a list of nodes with their fields),
`RowAssumption`, `NodeAssumption` (rows and lists of nodes are lists),
`ParserAssumption` and `EvaluatorAssumption` (an expression inside another is
parsed and evaluated as it is alone; asked for the expressions that occur, not
for all), `ScalarAssumption` (of finite numbers and of `true` and `false` YAML
and JavaScript read the same), `OperandAssumption` (what an operand of a
comparison is worth has an integer for its number, or NaN, or none),
`TextAssumption` (the empty scalar is null, and no id is written as the empty
text), `DefinitionAssumption` (so are the simulator's examples and edits), and
`StubAssumption` (the stubs, drafts and rows one starts from are well formed;
`trim` is idempotent; what `JSON.parse` returns for a text it returns again for
that value's own text, and it is never that text as a string).

Only model-checked: liveness, which is beyond the prover (`Termination` of both
engines); `AddedIsReachable`, which asks what a recursive search finds (of
`findTerminal` the proofs use only that what it returns is an open end); and
`EnginesAgree`, which asks for an induction over the nesting of conditions.

## 6. Not modelled

Times, versions, message texts, and labels beyond whether the preview with them can
be read; the workflow's own id is taken to be plain text there. HTTP bodies and their
size limit, beyond what they decode to. The YAML libraries: their result is a list of nodes,
the resolution of bare scalars is modelled where the editor depends on it, and
explicit tags and the older octal form (`010`), on which the Go and the
TypeScript library differ, are not. In the simulator, what is inside a value of
a payload, and two tabs that share one `localStorage`. Drawing, styling and
dragging. The Go and Python worker SDKs, which answer like the TypeScript one,
are the external worker of `Engine`. The commands `validate` and `list`, which
call what is modelled and print; the exit codes. `setName`, `DispatchFilter`,
which nothing calls. Example workers and example data.

## 7. Plan

Done, in this order: `Workflow`, `RoundRobin`, `GoSlice`, `Registry` with its
proofs, `Engine` with `WorkflowRun` and the first proofs, `Validation`,
`TsEngine`, `WorkflowEditor`, `Condition`; then `Cli`, `TsWorker`, the TypeScript
validator and parser, `Export`, `GraphLayout`, the rows of conditions,
`Simulator` with its first proofs, the proofs about payloads and runs of the Go
engine and about the TypeScript engine; then the proofs about traces and parent
lists, the types of the engine, the spread of the rotation, the editor and the
stubs of the simulator.

After those, the validators' and the layout's searches as functions of their depth,
and with them the proofs about validation, preview, layout, `steppr run` and the
runs of the simulator; then the proofs about conditions.

To be modelled: two pages on one
`localStorage`, and the differences of the two YAML libraries.
