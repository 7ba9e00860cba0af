------------------------------ MODULE Simulator ------------------------------
(***************************************************************************)
(* The page of the web editor around its definition (main.ts): the input   *)
(* and the example that go with it, what is kept in localStorage, the Run  *)
(* and Validate buttons with the marks a run leaves on the graph, and the  *)
(* stubs that stand for workers (node-editor.ts).  It runs on one thread,  *)
(* and a run awaits nothing but stubs, so each listener is one action.     *)
(* What validation and execution mean is module Simulation.                *)
(***************************************************************************)
EXTENDS Simulation

CONSTANTS
  EXAMPLES,         \* [id, workflow, payload] records
  DEFAULT_EXAMPLE,  \* the one shown at first
  Drafts,           \* definitions the store's operations may arrive at
  Texts,            \* what may be typed as the initial input
  JSONparse(_),     \* a text as JSON: a value with its kind, "none" if it is no JSON
  Properties(_),    \* a JSON value's own fields: a number has none, a list its indices
  trim(_),          \* a text without the blanks around it
  Words,            \* the texts that names and values of a stub's fields are made of
  Registered,       \* ids with a registered handler
  RowLists          \* rows a user may leave in the editor of a stub

VARIABLES
  wf,        \* store.get()
  payload,   \* payloadEl.value
  selected,  \* exampleSelect.value
  stored,    \* localStorage, <<>> or one record
  refused,   \* history: whether the last write to it failed
  marks,     \* lastStatuses
  ran,       \* history: the payload of the run that left them
  panel      \* what the result pane shows

vars == <<wf, payload, selected, stored, refused, marks, ran, panel>>

Nothing == [f \in {} |-> ""]

-----------------------------------------------------------------------------
(* Stubs.  The rows of a stub's editor: a text is shown without its quotes.*)
parseStubFields(stub) ==
  IF stub.kind # "object" THEN <<>>
  ELSE [i \in 1..Len(stub.entries) |->
          [key |-> stub.entries[i].key, value |-> stub.entries[i].value.text]]

Text(t) == [kind |-> "text", text |-> t]
coerceFieldValue(raw) ==
  IF raw = "" \/ JSONparse(raw).kind = "none" THEN Text(raw) ELSE JSONparse(raw)

(* The slip: leaving out the fields whose value is empty.                  *)
Entry(row) == [key |-> trim(row.key), value |-> coerceFieldValue(row.value)]
Named(rows) == {i \in 1..Len(rows) : trim(rows[i].key) # ""}
Entries(rows) == [i \in 1..Len(rows) |-> Entry(rows[i])]
EmptyDropped(rows) ==
  [kind |-> "object", entries |-> Entries(Picked(rows, {i \in Named(rows) : rows[i].value # ""}))]
serializeStubFields(rows) ==
  [kind |-> "object", entries |-> Entries(Picked(rows, Named(rows)))]

(* What is known of JSON.parse, trim and the stubs to start from.  A value *)
(* is what its text is parsed as, or a text; no text is parsed as itself.  *)
Canonical(v) ==
  /\ v.text \in Words
  /\ IF v.kind = "text" THEN v = Text(v.text)
     ELSE v.kind # "none" /\ v.text # "" /\ JSONparse(v.text) = v
StubOK(stub) ==
  stub.kind = "object" =>
    /\ IsList(stub.entries)
    /\ \A i \in 1..Len(stub.entries) :
         stub.entries[i].key \in Words /\ Canonical(stub.entries[i].value)
StubsOK(w) ==
  /\ "nodes" \in DOMAIN w /\ IsList(w.nodes)
  /\ \A n \in NodesOf(w) : "stub" \in DOMAIN n /\ StubOK(n.stub)

ASSUME StubAssumption ==
  /\ DEFAULT_EXAMPLE \in EXAMPLES
  /\ \A e \in EXAMPLES : StubsOK(e.workflow)
  /\ \A w \in Drafts : StubsOK(w)
  /\ \A rows \in RowLists :
       IsList(rows) /\ \A i \in 1..Len(rows) : rows[i].key \in Words /\ rows[i].value \in Words
  /\ \A t \in Words :
       /\ trim(t) \in Words /\ trim(trim(t)) = trim(t)
       /\ JSONparse(t).kind # "none" => Canonical(JSONparse(t)) /\ JSONparse(t) # Text(t)

(* A definition comes from the examples or the store, whose lists and      *)
(* records are what their types say; NoSchema is no set of fields.         *)
InputOf(t) == JSONparse(IF t = "" THEN "{}" ELSE t)
ASSUME DefinitionAssumption ==
  /\ \A e \in EXAMPLES : IsParsed(e.workflow) /\ HasFields(e.workflow)
  /\ \A w \in Drafts : IsParsed(w) /\ HasFields(w)
  /\ \A t \in Texts \cup {e.payload : e \in EXAMPLES} :
       InputOf(t).kind \notin {"none", "null"} => DOMAIN Properties(InputOf(t)) # NoSchema

(* Rendering the editor writes the stub anew, changed or not; a node with  *)
(* a registered handler has none.                                          *)
HasEditor(n) == n.type # "filter" /\ n.id \notin Registered
renderKVEditor(n) == IF HasEditor(n) THEN serializeStubFields(parseStubFields(n.stub)) ELSE n.stub

-----------------------------------------------------------------------------
(* persist: quota errors are ignored.                                      *)
Persisted(w, p, e) == <<[workflow |-> w, payload |-> p, exampleId |-> e]>>

Persist ==
  \E fits \in BOOLEAN :
    /\ stored' = IF fits THEN Persisted(wf', payload', selected') ELSE stored
    /\ refused' = ~ fits

(* A store operation: the listener calls refreshGraph() without statuses   *)
(* and writes.                                                             *)
Emit(w) ==
  /\ wf' = w /\ marks' = Nothing /\ ran' = Nothing
  /\ UNCHANGED <<payload, selected, panel>>
  /\ Persist

Edit == \E w \in Drafts : Emit(w)

(* Save in the dialog of a node: the rows as they were, or others.         *)
SaveStub(k) ==
  \/ Emit([wf EXCEPT !.nodes[k].stub = renderKVEditor(wf.nodes[k])])
  \/ /\ HasEditor(wf.nodes[k])
     /\ \E rows \in RowLists : Emit([wf EXCEPT !.nodes[k].stub = serializeStubFields(rows)])

TypePayload ==
  /\ payload' \in Texts
  /\ UNCHANGED <<wf, selected, marks, ran, panel>>
  /\ Persist

(* The new definition is first written by the store's listener, with the   *)
(* old input, and then again.  The slip: leaving it at that.               *)
WrittenOnce(e, first, second) ==
  /\ stored' = IF first THEN Persisted(e.workflow, payload, e.id) ELSE stored
  /\ refused' = ~ first
WrittenTwice(e, first, second) ==
  /\ stored' = IF second THEN Persisted(e.workflow, e.payload, e.id)
               ELSE IF first THEN Persisted(e.workflow, payload, e.id) ELSE stored
  /\ refused' = ~ second

loadExample(e) ==
  /\ wf' = e.workflow /\ payload' = e.payload
  /\ marks' = Nothing /\ ran' = Nothing /\ panel' = "empty"
  /\ \E first, second \in BOOLEAN : WrittenTwice(e, first, second)

SelectExample ==
  \E e \in EXAMPLES :
    \/ e.id # selected /\ selected' = e.id /\ loadExample(e)
    \/ /\ e.id # selected   \* declined: what is stored is selected again, if anything is
       /\ selected' = IF stored # <<>> THEN stored[1].exampleId ELSE e.id
       /\ UNCHANGED <<wf, payload, stored, refused, marks, ran, panel>>

Reset == \E e \in EXAMPLES : e.id = selected /\ UNCHANGED selected /\ loadExample(e)

(* init, at first and after a reload.                                      *)
Shown(s) ==
  IF s # <<>> THEN s[1]
  ELSE [workflow |-> DEFAULT_EXAMPLE.workflow, payload |-> DEFAULT_EXAMPLE.payload,
        exampleId |-> DEFAULT_EXAMPLE.id]

Init ==
  /\ stored = <<>>
  /\ wf = Shown(stored).workflow /\ payload = Shown(stored).payload
  /\ selected = Shown(stored).exampleId
  /\ refused = FALSE /\ marks = Nothing /\ ran = Nothing /\ panel = "empty"

Reload ==
  /\ wf' = Shown(stored).workflow /\ payload' = Shown(stored).payload
  /\ selected' = Shown(stored).exampleId
  /\ refused' = FALSE /\ marks' = Nothing /\ ran' = Nothing /\ panel' = "empty"
  /\ UNCHANGED stored

-----------------------------------------------------------------------------
(* The buttons.  An input that is no JSON, and one that is null, are told  *)
(* to the user and leave the marks of the last run; numbers, texts and     *)
(* lists are run like objects.                                             *)
Page == <<wf, payload, selected, stored, refused>>
Input == InputOf(payload)
Handed == Payload(Input.kind, Properties(Input))
Says(p) == panel' = p /\ UNCHANGED <<marks, ran>>

runWorkflow ==
  /\ \/ Input.kind = "none" /\ Says("not valid JSON")
     \/ Input.kind = "null" /\ Says("error")
     \/ /\ Input.kind \notin {"none", "null"} /\ ~ validate(wf, <<DOMAIN Handed.fields>>)
        /\ Says("validation failed")
     \/ /\ Input.kind \notin {"none", "null"} /\ validate(wf, <<DOMAIN Handed.fields>>)
        /\ marks' = statuses(wf, Handed) /\ ran' = Handed /\ panel' = "result"
  /\ UNCHANGED Page

validateOnly ==
  LET fields == IF Input.kind \in {"none", "null"} THEN {} ELSE DOMAIN Properties(Input)
  IN /\ Says(IF validate(wf, IF fields = {} THEN <<>> ELSE <<fields>>) THEN "valid"
             ELSE "validation failed")
     /\ UNCHANGED Page

Next ==
  \/ Edit \/ TypePayload \/ SelectExample \/ Reset \/ Reload \/ runWorkflow \/ validateOnly
  \/ \E k \in 1..Len(wf.nodes) : SaveStub(k)

Spec == Init /\ [][Next]_vars

-----------------------------------------------------------------------------
(* Nothing is lost behind the user's back: unless the last write was       *)
(* refused, a reload brings back the definition and the input on show,     *)
(* after edits, examples, resets, declined ones and earlier refusals.      *)
SavedUnlessRefused ==
  ~ refused => Shown(stored).workflow = wf /\ Shown(stored).payload = payload

(* The marks on the graph are those of the definition on show, run on the  *)
(* payload of the last run: no edit leaves a mark of an earlier definition.*)
MarksAreCurrent == marks = Nothing \/ marks = statuses(wf, ran)

(* Looking at a node in the dialog and saving it changes what the node     *)
(* answers just when a field's name has blanks around it, or is blank, or  *)
(* a text would itself read as JSON.                                       *)
Inert(v) == v.kind = "text" => v.text = "" \/ JSONparse(v.text).kind = "none"
StubsSurviveTheDialog ==
  \A n \in NodesOf(wf) :
    LET answer == parseStubOutput(n.stub) IN
      parseStubOutput(renderKVEditor(n)) = answer <=>
        \/ ~ HasEditor(n)
        \/ \A f \in DOMAIN answer : trim(f) = f /\ f # "" /\ Inert(answer[f])

(* Validation keeps what it promises.  Marks belong to a run of the        *)
(* definition on show that validation let pass; in it nothing failed but   *)
(* conditions, and each node it reached had its declared reads, as long as *)
(* the stubs answer with what their nodes declare to produce and filters   *)
(* declare nothing.                                                        *)
ShownRunIsClean ==
  marks # Nothing =>
    /\ marks = statuses(wf, ran)
    /\ \A x \in execute(wf, ran) :
         /\ x.error = IF x.status = "completed" THEN "none" ELSE "CONDITION_ERROR"
         /\ StubsKeepTheirWord(wf) => NodeMap(wf)[x.id].reads \subseteq DOMAIN x.input
=============================================================================
