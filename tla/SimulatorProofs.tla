--------------------------- MODULE SimulatorProofs ---------------------------
(***************************************************************************)
(* Proofs about Simulator, for any examples, edits, inputs, stubs and      *)
(* meaning of conditions.                                                  *)
(***************************************************************************)
EXTENDS Simulator, WorkflowProofs

(* A write that is not refused is what a reload would show.                *)
LEMMA PersistSaves == ASSUME Persist PROVE SavedUnlessRefused'
PROOF
<1>1. PICK fits \in BOOLEAN :
        /\ stored' = IF fits THEN Persisted(wf', payload', selected') ELSE stored
        /\ refused' = ~ fits
  BY DEF Persist
<1>2. CASE fits
  <2>1. stored' = Persisted(wf', payload', selected')
    BY <1>1, <1>2
  <2> QED BY <2>1 DEF Persisted, Shown, SavedUnlessRefused
<1>3. CASE ~ fits
  BY <1>1, <1>3 DEF SavedUnlessRefused
<1> QED BY <1>2, <1>3

(* A store operation shows what it writes, and clears the marks.           *)
LEMMA EmitSaves ==
  ASSUME NEW w, Emit(w) PROVE SavedUnlessRefused' /\ MarksAreCurrent'
PROOF
<1>1. SavedUnlessRefused'
  BY PersistSaves DEF Emit
<1>2. MarksAreCurrent'
  BY DEF Emit, MarksAreCurrent
<1> QED BY <1>1, <1>2

(* The second write of an example counts, whatever became of the first.    *)
LEMMA LoadSaves ==
  ASSUME NEW e, e.id = selected', loadExample(e) PROVE SavedUnlessRefused' /\ MarksAreCurrent'
PROOF
<1>1. PICK first \in BOOLEAN, second \in BOOLEAN : WrittenTwice(e, first, second)
  BY DEF loadExample
<1>2. CASE second
  <2>1. stored' = Persisted(e.workflow, e.payload, e.id)
    BY <1>1, <1>2 DEF WrittenTwice
  <2> QED BY <2>1 DEF loadExample, Persisted, Shown, SavedUnlessRefused, MarksAreCurrent
<1>3. CASE ~ second
  BY <1>1, <1>3 DEF WrittenTwice, loadExample, SavedUnlessRefused, MarksAreCurrent
<1> QED BY <1>2, <1>3

(* Both hold of every step that starts where they hold.                    *)
LEMMA NextKeeps ==
  SavedUnlessRefused /\ MarksAreCurrent /\ [Next]_vars
    => (SavedUnlessRefused /\ MarksAreCurrent)'
PROOF
<1> SUFFICES ASSUME SavedUnlessRefused, MarksAreCurrent, [Next]_vars
             PROVE  (SavedUnlessRefused /\ MarksAreCurrent)'
  OBVIOUS
<1>1. CASE Edit
  BY <1>1, EmitSaves DEF Edit
<1>2. ASSUME NEW k \in 1..Len(wf.nodes), SaveStub(k)
      PROVE  (SavedUnlessRefused /\ MarksAreCurrent)'
  BY <1>2, EmitSaves DEF SaveStub
<1>3. CASE TypePayload
  <2>1. SavedUnlessRefused'
    BY <1>3, PersistSaves DEF TypePayload
  <2>2. MarksAreCurrent'
    BY <1>3 DEF TypePayload, MarksAreCurrent
  <2> QED BY <2>1, <2>2
<1>4. CASE SelectExample
  <2>1. PICK e \in EXAMPLES :
          \/ selected' = e.id /\ loadExample(e)
          \/ UNCHANGED <<wf, payload, stored, refused, marks, ran, panel>>
    BY <1>4 DEF SelectExample
  <2>2. CASE selected' = e.id /\ loadExample(e)
    BY <2>2, LoadSaves
  <2>3. CASE UNCHANGED <<wf, payload, stored, refused, marks, ran, panel>>
    BY <2>3 DEF SavedUnlessRefused, MarksAreCurrent, Shown
  <2> QED BY <2>1, <2>2, <2>3
<1>5. CASE Reset
  BY <1>5, LoadSaves DEF Reset
<1>6. CASE Reload
  BY <1>6 DEF Reload, SavedUnlessRefused, MarksAreCurrent, Shown
<1>7. CASE runWorkflow
  <2>1. SavedUnlessRefused'
    BY <1>7 DEF runWorkflow, Page, SavedUnlessRefused, Shown
  <2>2. MarksAreCurrent'
    BY <1>7 DEF runWorkflow, Says, Page, MarksAreCurrent
  <2> QED BY <2>1, <2>2
<1>8. CASE validateOnly \/ UNCHANGED vars
  BY <1>8 DEF validateOnly, Says, Page, vars, SavedUnlessRefused, MarksAreCurrent, Shown
<1> QED BY <1>1, <1>2, <1>3, <1>4, <1>5, <1>6, <1>7, <1>8 DEF Next

(* The page starts with the default example and no marks.                  *)
LEMMA InitSaved == Init => SavedUnlessRefused /\ MarksAreCurrent
BY DEF Init, SavedUnlessRefused, MarksAreCurrent

(* What a reload brings back is what is on show, unless the last write was *)
(* refused.                                                                *)
THEOREM NothingLost == Spec => []SavedUnlessRefused
BY InitSaved, NextKeeps, PTL DEF Spec

(* No mark outlives the definition it was made for.                        *)
THEOREM MarksNeverStale == Spec => []MarksAreCurrent
BY InitSaved, NextKeeps, PTL DEF Spec

-----------------------------------------------------------------------------
(* Stubs.  The answer of a list of entries: its names, each with the value *)
(* of the last entry of that name.                                         *)
Keys(es) == {es[i].key : i \in 1..Len(es)}
Answer(es) == parseStubOutput([kind |-> "object", entries |-> es])

(* An answer is a map.                                                     *)
LEMMA AnswerIsMap ==
  ASSUME NEW es
  PROVE  Answer(es) = [f \in DOMAIN Answer(es) |-> Answer(es)[f]]
BY DEF Answer, parseStubOutput

(* Of the rows with a key there is a last one.                             *)
LEMMA LastExists ==
  ASSUME NEW n \in Nat, NEW K, K \subseteq 1..n, K # {}
  PROVE  (CHOOSE i \in K : \A j \in K : j <= i) \in K
PROOF
<1> DEFINE Gaps == {n - i : i \in K}
<1>1. Gaps \subseteq Nat /\ Gaps # {}
  <2>1. \A i \in K : n - i \in Nat
    BY PlacesFinite
  <2> QED BY <2>1
<1>2. PICK g \in Gaps : \A h \in Gaps : g <= h
  <2> HIDE DEF Gaps
  <2> QED BY <1>1, LeastNatural
<1>3. PICK k \in K : g = n - k
  BY <1>2
<1>4. ASSUME NEW j \in K PROVE j <= k
  <2>1. n - j \in Gaps
    OBVIOUS
  <2>2. g <= n - j
    <3> HIDE DEF Gaps
    <3> QED BY <1>2, <2>1
  <2>3. j \in 1..n /\ k \in 1..n
    OBVIOUS
  <2> QED BY <1>3, <2>2, <2>3
<1> QED BY <1>4

(* The fields of an answer are the keys, each with its last value.         *)
LEMMA AnswerIs ==
  ASSUME NEW es, Len(es) \in Nat
  PROVE  /\ DOMAIN Answer(es) = Keys(es)
         /\ \A f \in Keys(es) :
              \E i \in 1..Len(es) : es[i].key = f /\ Answer(es)[f] = es[i].value
PROOF
<1> DEFINE n == Len(es)
           at(f) == {i \in 1..n : es[i].key = f}
           last(f) == CHOOSE i \in at(f) : \A j \in at(f) : j <= i
<1>1. Answer(es) = [f \in Keys(es) |-> es[last(f)].value]
  BY DEF Answer, parseStubOutput, Keys
<1>2. ASSUME NEW f \in Keys(es) PROVE last(f) \in at(f)
  <2>1. at(f) \subseteq 1..n /\ at(f) # {}
    BY DEF Keys
  <2> HIDE DEF at
  <2> QED BY <2>1, LastExists
<1> HIDE DEF last
<1>3. ASSUME NEW f \in Keys(es)
      PROVE  \E i \in 1..Len(es) : es[i].key = f /\ Answer(es)[f] = es[i].value
  BY <1>1, <1>2
<1> QED BY <1>1, <1>3

(* Coercing what the editor shows of a value gives it back, just when it   *)
(* is inert.                                                               *)
LEMMA CoercedBack ==
  ASSUME NEW v, Canonical(v)
  PROVE  coerceFieldValue(v.text) = v <=> Inert(v)
PROOF
<1>1. v.text \in Words
  BY DEF Canonical
<1>2. CASE v.kind = "text"
  <2>1. v = Text(v.text)
    BY <1>2 DEF Canonical
  <2>2. JSONparse(v.text).kind # "none" => JSONparse(v.text) # Text(v.text)
    BY <1>1, StubAssumption
  <2> QED BY <1>2, <2>1, <2>2 DEF coerceFieldValue, Inert
<1>3. CASE v.kind # "text"
  <2>1. v.text # "" /\ JSONparse(v.text) = v /\ v.kind # "none"
    BY <1>3 DEF Canonical
  <2> QED BY <1>3, <2>1 DEF coerceFieldValue, Inert
<1> QED BY <1>2, <1>3

(* What a text is read as is canonical.                                    *)
LEMMA CoercedIsCanonical ==
  ASSUME NEW raw \in Words
  PROVE  Canonical(coerceFieldValue(raw))
PROOF
<1>1. CASE raw = "" \/ JSONparse(raw).kind = "none"
  BY <1>1 DEF coerceFieldValue, Canonical, Text
<1>2. CASE ~ (raw = "" \/ JSONparse(raw).kind = "none")
  BY <1>2, StubAssumption DEF coerceFieldValue
<1> QED BY <1>1, <1>2

(* The entries that rows become.                                           *)
WordRows(rows) ==
  /\ IsList(rows)
  /\ \A i \in 1..Len(rows) : rows[i].key \in Words /\ rows[i].value \in Words

(* The rows that are kept, in order.                                       *)
LEMMA PickedRows ==
  ASSUME NEW rows, IsList(rows)
  PROVE  LET ps == Picked(rows, Named(rows)) IN
         /\ IsList(ps) /\ Len(ps) \in Nat
         /\ {ps[j] : j \in 1..Len(ps)} = {rows[i] : i \in Named(rows)}
         /\ Named(rows) = 1..Len(rows) => ps = rows
PROOF
<1> DEFINE S == {rows[k] : k \in DOMAIN rows}
           ps == Picked(rows, Named(rows))
<1>1. rows \in Seq(S)
  BY DEF IsList
<1>2. Named(rows) \subseteq 1..Len(rows)
  BY DEF Named
<1> HIDE DEF S
<1>3. /\ ps \in Seq(S) /\ {ps[j] : j \in 1..Len(ps)} = {rows[i] : i \in Named(rows)}
      /\ Named(rows) = 1..Len(rows) => ps = rows
  BY <1>1, <1>2, PickedIs
<1> HIDE DEF ps
<1>4. IsList(ps) /\ Len(ps) \in Nat
  <2> DEFINE P == {ps[k] : k \in DOMAIN ps}
  <2>1. \A k \in 1..Len(ps) : ps[k] \in P
    BY <1>3
  <2>2. Len(ps) \in Nat /\ ps = [k \in 1..Len(ps) |-> ps[k]]
    BY <1>3
  <2> HIDE DEF P
  <2>3. ps \in Seq(P)
    BY <2>1, <2>2
  <2> QED BY <2>2, <2>3 DEF IsList, P
<1> QED BY <1>3, <1>4 DEF ps

(* What the dialog writes is a stub such as the invariant asks for.        *)
LEMMA SerializedIsOK ==
  ASSUME NEW rows, WordRows(rows)
  PROVE  StubOK(serializeStubFields(rows))
PROOF
<1> DEFINE ps == Picked(rows, Named(rows))
           es == Entries(ps)
<1>1. /\ IsList(ps) /\ Len(ps) \in Nat
      /\ {ps[j] : j \in 1..Len(ps)} = {rows[i] : i \in Named(rows)}
  BY PickedRows DEF WordRows
<1> HIDE DEF ps
<1>2. ASSUME NEW j \in 1..Len(ps) PROVE ps[j].key \in Words /\ ps[j].value \in Words
  <2>1. PICK i \in Named(rows) : ps[j] = rows[i]
    BY <1>1
  <2> QED BY <2>1 DEF Named, WordRows
<1>3. es = [i \in 1..Len(ps) |-> Entry(ps[i])]
  BY DEF Entries
<1>4. Len(es) = Len(ps) /\ IsList(es)
  <2> DEFINE E == {es[k] : k \in DOMAIN es}
  <2>1. \A i \in 1..Len(ps) : Entry(ps[i]) \in E
    BY <1>3
  <2> HIDE DEF E, es
  <2>2. es \in Seq(E) /\ Len(es) = Len(ps)
    BY <1>1, <1>3, <2>1
  <2> QED BY <2>2 DEF IsList, E
<1> HIDE DEF es
<1>5. ASSUME NEW i \in 1..Len(es) PROVE es[i].key \in Words /\ Canonical(es[i].value)
  <2>1. es[i] = Entry(ps[i]) /\ ps[i].key \in Words /\ ps[i].value \in Words
    BY <1>2, <1>3, <1>4
  <2> QED BY <2>1, CoercedIsCanonical, StubAssumption DEF Entry
<1> QED BY <1>4, <1>5 DEF serializeStubFields, StubOK, es, ps

(* The rows of a stub.                                                     *)
LEMMA ParsedRows ==
  ASSUME NEW stub, StubOK(stub)
  PROVE  WordRows(parseStubFields(stub))
PROOF
<1> DEFINE rows == parseStubFields(stub)
           es   == stub.entries
           n    == Len(es)
           row(i) == [key |-> es[i].key, value |-> es[i].value.text]
           R    == {rows[k] : k \in DOMAIN rows}
<1>1. CASE stub.kind # "object"
  <2>1. rows = <<>>
    BY <1>1 DEF parseStubFields
  <2> HIDE DEF rows
  <2>2. rows \in Seq(R) /\ Len(rows) = 0
    <3> HIDE DEF R
    <3> QED BY <2>1
  <2>3. WordRows(rows)
    BY <2>2 DEF WordRows, IsList
  <2> QED BY <2>3 DEF rows
<1>2. CASE stub.kind = "object"
  <2>1. n \in Nat /\ \A i \in 1..n : es[i].key \in Words /\ es[i].value.text \in Words
    <3>1. IsList(es) /\ \A i \in 1..n : es[i].key \in Words /\ Canonical(es[i].value)
      BY <1>2 DEF StubOK
    <3>2. \A i \in 1..n : es[i].value.text \in Words
      BY <3>1 DEF Canonical
    <3>3. n \in Nat
      <4> HIDE DEF es
      <4> QED BY <3>1 DEF IsList
    <3> QED BY <3>1, <3>2, <3>3
  <2>2. rows = [i \in 1..n |-> row(i)]
    BY <1>2 DEF parseStubFields
  <2> HIDE DEF rows
  <2>3. \A i \in 1..n : row(i) \in R
    BY <2>2
  <2>4. rows \in Seq(R) /\ Len(rows) = n
    <3> HIDE DEF R, n, row
    <3> QED BY <2>1, <2>2, <2>3
  <2>5. \A i \in 1..Len(rows) : rows[i].key \in Words /\ rows[i].value \in Words
    BY <2>1, <2>2, <2>4
  <2>6. WordRows(rows)
    BY <2>4, <2>5 DEF WordRows, IsList
  <2> QED BY <2>6 DEF rows
<1> QED BY <1>1, <1>2


(* What the editor makes of a list of entries whose names are all trimmed  *)
(* and not blank.                                                          *)
Trimmed(es) == \A f \in Keys(es) : trim(f) = f /\ f # ""

(* With every name trimmed, the same fields are written.                   *)
LEMMA TrimmedStay ==
  ASSUME NEW stub, stub.kind = "object", StubOK(stub), Trimmed(stub.entries)
  PROVE  LET es == stub.entries
             fs == serializeStubFields(parseStubFields(stub)).entries IN
         /\ Keys(fs) = Keys(es)
         /\ \A f \in Keys(es) : Answer(fs)[f] = coerceFieldValue(Answer(es)[f].text)
PROOF
<1> DEFINE es   == stub.entries
           n    == Len(es)
           rows == parseStubFields(stub)
           fs   == serializeStubFields(rows).entries
<1>1. n \in Nat
  <2>1. IsList(es)
    BY DEF StubOK
  <2> HIDE DEF es
  <2> QED BY <2>1 DEF IsList
<1>2. IsList(rows)
  BY ParsedRows DEF WordRows
<1>3. rows = [i \in 1..n |-> [key |-> es[i].key, value |-> es[i].value.text]]
  BY DEF parseStubFields
<1> HIDE DEF rows
<1>4. Len(rows) = n /\ \A i \in 1..n : rows[i].key = es[i].key /\ rows[i].value = es[i].value.text
  BY <1>1, <1>3
<1>5. \A i \in 1..n : trim(es[i].key) = es[i].key /\ es[i].key # ""
  BY DEF Trimmed, Keys
<1>6. Named(rows) = 1..Len(rows)
  BY <1>4, <1>5 DEF Named
<1>7. Picked(rows, Named(rows)) = rows
  BY <1>2, <1>6, PickedRows
<1>8. fs = [i \in 1..n |-> Entry(rows[i])]
  BY <1>4, <1>7 DEF serializeStubFields, Entries
<1> HIDE DEF fs
<1>9. \A i \in 1..n : fs[i].key = es[i].key /\ fs[i].value = coerceFieldValue(es[i].value.text)
  BY <1>4, <1>5, <1>8 DEF Entry
<1>10. Len(fs) = n
  BY <1>1, <1>8
<1>11. Keys(fs) = Keys(es)
  BY <1>9, <1>10 DEF Keys
<1>12. ASSUME NEW f \in Keys(es) PROVE Answer(fs)[f] = coerceFieldValue(Answer(es)[f].text)
  <2> DEFINE at == {i \in 1..n : es[i].key = f}
             last == CHOOSE i \in at : \A j \in at : j <= i
  <2>1. at \subseteq 1..n /\ at # {}
    BY <1>12 DEF Keys
  <2>2. last \in at
    <3> HIDE DEF at
    <3> QED BY <1>1, <2>1, LastExists
  <2>3. Answer(es)[f] = es[last].value
    BY <1>12 DEF Answer, parseStubOutput, Keys
  <2>4. {i \in 1..Len(fs) : fs[i].key = f} = at
    BY <1>9, <1>10
  <2>5. f \in Keys(fs)
    BY <1>11, <1>12
  <2>6. Answer(fs)[f] = fs[last].value
    <3> HIDE DEF at
    <3>1. Answer(fs)[f] = fs[CHOOSE i \in at : \A j \in at : j <= i].value
      BY <2>4, <2>5 DEF Answer, parseStubOutput, Keys
    <3> QED BY <3>1
  <2> HIDE DEF last
  <2> QED BY <1>9, <2>2, <2>3, <2>6
<1> QED BY <1>11, <1>12 DEF fs, rows

(* The names the editor writes are trimmed, and not blank.                 *)
LEMMA WrittenKeys ==
  ASSUME NEW rows, WordRows(rows), NEW f \in Keys(serializeStubFields(rows).entries)
  PROVE  trim(f) = f /\ f # ""
PROOF
<1> DEFINE ps == Picked(rows, Named(rows))
           es == Entries(ps)
<1>1. Len(ps) \in Nat /\ {ps[j] : j \in 1..Len(ps)} = {rows[i] : i \in Named(rows)}
  BY PickedRows DEF WordRows
<1> HIDE DEF ps
<1>2. es = [i \in 1..Len(ps) |-> Entry(ps[i])] /\ Len(es) = Len(ps)
  BY <1>1 DEF Entries
<1>3. serializeStubFields(rows).entries = es
  BY DEF serializeStubFields, ps
<1> HIDE DEF es
<1>4. PICK j \in 1..Len(ps) : f = es[j].key
  BY <1>2, <1>3 DEF Keys
<1>5. PICK i \in Named(rows) : ps[j] = rows[i]
  BY <1>1
<1>6. f = trim(rows[i].key) /\ f # "" /\ rows[i].key \in Words
  BY <1>2, <1>4, <1>5 DEF Entry, Named, WordRows
<1> QED BY <1>6, StubAssumption

Survives(n) ==
  LET answer == parseStubOutput(n.stub) IN
    parseStubOutput(renderKVEditor(n)) = answer <=>
      \/ ~ HasEditor(n)
      \/ \A f \in DOMAIN answer : trim(f) = f /\ f # "" /\ Inert(answer[f])

(* The property, for one stub.                                             *)
LEMMA StubSurvives ==
  ASSUME NEW n, StubOK(n.stub)
  PROVE  Survives(n)
PROOF
<1> DEFINE stub == n.stub
           rows == parseStubFields(stub)
           new  == serializeStubFields(rows)
           answer == parseStubOutput(stub)
<1>1. CASE ~ HasEditor(n)
  BY <1>1 DEF Survives, renderKVEditor
<1>2. CASE HasEditor(n) /\ stub.kind # "object"
  <2>1. rows = <<>>
    BY <1>2 DEF parseStubFields
  <2>2. answer = [f \in {} |-> <<>>[CHOOSE i \in {} : TRUE].value]
    BY <1>2 DEF parseStubOutput
  <2>3. new.kind = "object" /\ new.entries = <<>>
    <3>1. Named(<<>>) = {}
      BY DEF Named
    <3>2. Picked(<<>>, {}) = <<>>
      <4>1. <<>> \in Seq({}) /\ {} = 1..Len(<<>>)
        OBVIOUS
      <4> QED BY <4>1, PickedIs
    <3> QED BY <2>1, <3>1, <3>2 DEF serializeStubFields, Entries
  <2> HIDE DEF new, answer
  <2>4. DOMAIN answer = {} /\ parseStubOutput(new) = answer
    BY <2>2, <2>3 DEF parseStubOutput
  <2>5. renderKVEditor(n) = new
    BY <1>2 DEF renderKVEditor, new
  <2> QED BY <1>2, <2>4, <2>5 DEF Survives, answer
<1>3. CASE HasEditor(n) /\ stub.kind = "object"
  <2> DEFINE es == stub.entries
             fs == new.entries
  <2>1. renderKVEditor(n) = new
    BY <1>3 DEF renderKVEditor
  <2>2. answer = Answer(es) /\ parseStubOutput(new) = Answer(fs)
    BY <1>3 DEF Answer, parseStubOutput, serializeStubFields
  <2>3. Len(es) \in Nat /\ \A i \in 1..Len(es) : Canonical(es[i].value)
    <3>1. IsList(es) /\ \A i \in 1..Len(es) : Canonical(es[i].value)
      BY <1>3 DEF StubOK
    <3> HIDE DEF es
    <3> QED BY <3>1 DEF IsList
  <2>4. WordRows(rows)
    BY ParsedRows
  <2>5. Len(fs) \in Nat
    BY <1>3, <2>4, SerializedIsOK DEF StubOK, IsList, serializeStubFields
  <2>6. DOMAIN Answer(es) = Keys(es) /\ DOMAIN Answer(fs) = Keys(fs)
    BY <2>3, <2>5, AnswerIs
  <2>7. \A f \in Keys(es) : Canonical(Answer(es)[f])
    BY <2>3, AnswerIs
  <2>8. \A f \in Keys(fs) : trim(f) = f /\ f # ""
    BY <2>4, WrittenKeys
  <2>9. Trimmed(es) => /\ Keys(fs) = Keys(es)
                       /\ \A f \in Keys(es) : Answer(fs)[f] = coerceFieldValue(Answer(es)[f].text)
    BY <1>3, TrimmedStay
  <2>10. ASSUME Answer(fs) = Answer(es)
         PROVE  \A f \in Keys(es) : trim(f) = f /\ f # "" /\ Inert(Answer(es)[f])
    <3>1. Trimmed(es)
      BY <2>6, <2>8, <2>10 DEF Trimmed
    <3>2. \A f \in Keys(es) : coerceFieldValue(Answer(es)[f].text) = Answer(es)[f]
      BY <2>9, <2>10, <3>1
    <3> QED BY <2>7, <3>1, <3>2, CoercedBack DEF Trimmed
  <2>11. ASSUME \A f \in Keys(es) : trim(f) = f /\ f # "" /\ Inert(Answer(es)[f])
         PROVE  Answer(fs) = Answer(es)
    <3>1. Trimmed(es)
      BY <2>11 DEF Trimmed
    <3>2. Keys(fs) = Keys(es) /\ \A f \in Keys(es) : Answer(fs)[f] = Answer(es)[f]
      BY <2>7, <2>9, <2>11, <3>1, CoercedBack
    <3>3. /\ Answer(es) = [f \in Keys(es) |-> Answer(es)[f]]
          /\ Answer(fs) = [f \in Keys(fs) |-> Answer(fs)[f]]
      BY <2>6, AnswerIsMap
    <3> HIDE DEF es, fs
    <3> QED BY <3>2, <3>3
  <2> HIDE DEF es, fs, new, answer
  <2> QED BY <1>3, <2>1, <2>2, <2>6, <2>10, <2>11 DEF Survives, answer
<1> QED BY <1>1, <1>2, <1>3


-----------------------------------------------------------------------------
(* The definition on show, and the one stored, have such stubs.            *)
StubInv ==
  /\ StubsOK(wf)
  /\ stored = <<>> \/ StubsOK(stored[1].workflow)

(* The stubs of the examples.                                              *)
LEMMA ExamplesOK ==
  /\ StubsOK(DEFAULT_EXAMPLE.workflow)
  /\ \A e \in EXAMPLES : StubsOK(e.workflow)
BY StubAssumption

(* One stub in place of another.                                           *)
LEMMA StubReplaced ==
  ASSUME NEW w, StubsOK(w), NEW k \in 1..Len(w.nodes), NEW stub, StubOK(stub)
  PROVE  StubsOK([w EXCEPT !.nodes[k].stub = stub])
PROOF
<1> DEFINE n == w.nodes[k]
           m == [n EXCEPT !.stub = stub]
           ns == [w.nodes EXCEPT ![k] = m]
           v == [w EXCEPT !.nodes[k].stub = stub]
           S == {w.nodes[i] : i \in DOMAIN w.nodes}
           R == {ns[i] : i \in DOMAIN ns}
<1>1. "nodes" \in DOMAIN w /\ w.nodes \in Seq(S)
  BY DEF StubsOK, IsList
<1>2. "stub" \in DOMAIN n
  BY DEF StubsOK, NodesOf
<1>3. v = [w EXCEPT !.nodes = ns]
  OBVIOUS
<1>4. m.stub = stub /\ "stub" \in DOMAIN m
  BY <1>2
<1>5. Len(w.nodes) \in Nat /\ DOMAIN w.nodes = 1..Len(w.nodes) /\ w.nodes = [i \in 1..Len(w.nodes) |-> w.nodes[i]]
  <2> HIDE DEF S
  <2> QED BY <1>1
<1> HIDE DEF v, m
<1>6. ns = [i \in 1..Len(w.nodes) |-> IF i = k THEN m ELSE w.nodes[i]]
  BY <1>5
<1> HIDE DEF ns
<1>7. v.nodes = ns /\ "nodes" \in DOMAIN v
  BY <1>1, <1>3
<1>8. \A i \in 1..Len(w.nodes) : ns[i] \in R
  BY <1>6
<1>9. ns \in Seq(R) /\ Len(ns) = Len(w.nodes)
  <2> HIDE DEF R, S, n
  <2>1. DOMAIN ns = 1..Len(w.nodes)
    BY <1>6
  <2>2. ns = [i \in 1..Len(w.nodes) |-> ns[i]]
    BY <1>6
  <2>3. ns \in [1..Len(w.nodes) -> R]
    BY <1>8, <2>1, <2>2
  <2> QED BY <1>5, <2>1, <2>3
<1>10. \A i \in 1..Len(ns) : "stub" \in DOMAIN ns[i] /\ StubOK(ns[i].stub)
  <2> SUFFICES ASSUME NEW i \in 1..Len(w.nodes) PROVE "stub" \in DOMAIN ns[i] /\ StubOK(ns[i].stub)
    BY <1>9
  <2>1. CASE i = k
    BY <1>4, <1>6, <2>1
  <2>2. CASE i # k
    <3>1. ns[i] = w.nodes[i] /\ w.nodes[i] \in NodesOf(w)
      BY <1>6, <2>2 DEF NodesOf
    <3> QED BY <3>1 DEF StubsOK
  <2> QED BY <2>1, <2>2
<1>11. StubsOK(v)
  <2>1. IsList(ns)
    BY <1>9 DEF IsList
  <2> QED BY <1>7, <1>10, <2>1 DEF StubsOK, NodesOf
<1> QED BY <1>11 DEF v

(* A write stores the definition on show, or nothing.                      *)
LEMMA PersistKeeps ==
  ASSUME StubInv, StubsOK(wf'), Persist PROVE StubInv'
PROOF
<1>1. stored' = stored \/ stored' = Persisted(wf', payload', selected')
  BY DEF Persist
<1>2. Persisted(wf', payload', selected')[1].workflow = wf'
  BY DEF Persisted
<1> QED BY <1>1, <1>2 DEF StubInv

(* A store operation, of any definition it may leave.                      *)
LEMMA EmitKeeps ==
  ASSUME StubInv, NEW w, StubsOK(w), Emit(w) PROVE StubInv'
BY PersistKeeps DEF Emit

(* Loading an example, which writes twice.                                 *)
LEMMA LoadKeeps ==
  ASSUME StubInv, NEW e \in EXAMPLES, loadExample(e) PROVE StubInv'
PROOF
<1>1. StubsOK(e.workflow) /\ wf' = e.workflow
  BY ExamplesOK DEF loadExample
<1>2. PICK first \in BOOLEAN, second \in BOOLEAN : WrittenTwice(e, first, second)
  BY DEF loadExample
<1>3. \/ stored' = stored
      \/ stored' = Persisted(e.workflow, e.payload, e.id)
      \/ stored' = Persisted(e.workflow, payload, e.id)
  BY <1>2 DEF WrittenTwice
<1>4. /\ Persisted(e.workflow, e.payload, e.id)[1].workflow = e.workflow
      /\ Persisted(e.workflow, payload, e.id)[1].workflow = e.workflow
  BY DEF Persisted
<1> QED BY <1>1, <1>3, <1>4 DEF StubInv

(* Every step keeps the stubs as they should be.                           *)
LEMMA StubStepKeeps ==
  ASSUME StubInv, [Next]_vars PROVE StubInv'
PROOF
<1>1. CASE Edit
  <2>1. PICK w \in Drafts : Emit(w)
    BY <1>1 DEF Edit
  <2> QED BY <2>1, EmitKeeps, StubAssumption
<1>2. ASSUME NEW k \in 1..Len(wf.nodes), SaveStub(k) PROVE StubInv'
  <2>1. StubsOK(wf) /\ StubOK(wf.nodes[k].stub)
    BY DEF StubInv, StubsOK, NodesOf
  <2>2. ASSUME NEW stub, StubOK(stub), Emit([wf EXCEPT !.nodes[k].stub = stub]) PROVE StubInv'
    BY <2>1, <2>2, StubReplaced, EmitKeeps
  <2>3. StubOK(renderKVEditor(wf.nodes[k]))
    BY <2>1, ParsedRows, SerializedIsOK DEF renderKVEditor
  <2>4. \A rows \in RowLists : StubOK(serializeStubFields(rows))
    BY StubAssumption, SerializedIsOK DEF WordRows
  <2> QED BY <1>2, <2>2, <2>3, <2>4 DEF SaveStub
<1>3. CASE TypePayload
  BY <1>3, PersistKeeps DEF TypePayload, StubInv
<1>4. CASE SelectExample \/ Reset
  <2>1. ASSUME NEW e \in EXAMPLES, loadExample(e) PROVE StubInv'
    BY <2>1, LoadKeeps
  <2>2. CASE UNCHANGED <<wf, payload, stored, refused, marks, ran, panel>>
    BY <2>2 DEF StubInv
  <2> QED BY <1>4, <2>1, <2>2 DEF SelectExample, Reset
<1>5. CASE Reload
  <2>1. stored' = stored /\ wf' = Shown(stored).workflow
    BY <1>5 DEF Reload
  <2>2. StubsOK(Shown(stored).workflow)
    BY ExamplesOK DEF StubInv, Shown
  <2> QED BY <2>1, <2>2 DEF StubInv
<1>6. CASE runWorkflow \/ validateOnly \/ UNCHANGED vars
  BY <1>6 DEF runWorkflow, validateOnly, Page, vars, StubInv
<1> QED BY <1>1, <1>2, <1>3, <1>4, <1>5, <1>6 DEF Next

(* Looking at a node in the dialog and saving it changes its answer just   *)
(* when a name has blanks around it or is blank, or a text reads as JSON:  *)
(* for any examples and edits, whatever JSON.parse makes of other texts.   *)
THEOREM LookingChangesOnlyThese == Spec => []StubsSurviveTheDialog
PROOF
<1>1. Init => StubInv
  BY ExamplesOK DEF Init, Shown, StubInv
<1>2. StubInv /\ [Next]_vars => StubInv'
  BY StubStepKeeps
<1>3. StubInv => StubsSurviveTheDialog
  BY StubSurvives DEF StubInv, StubsOK, StubsSurviveTheDialog, Survives
<1> QED BY <1>1, <1>2, <1>3, PTL DEF Spec


-----------------------------------------------------------------------------
(* Simulated runs.  The payloads a run of w from p hands on have their     *)
(* fields and values from p and from what the handlers answer.             *)
Answers(w)       == {Handlers(w)[id] : id \in DOMAIN Handlers(w)}
KnownFields(w, p) == DOMAIN p.fields \cup UNION {DOMAIN out : out \in Answers(w)}
KnownValues(w, p) == {p.fields[f] : f \in DOMAIN p.fields} \cup UNION {{out[f] : f \in DOMAIN out} : out \in Answers(w)}
Payloads(w, p)    ==
  {p} \cup {Payload("object", g) : g \in UNION {[D -> KnownValues(w, p)] : D \in SUBSET KnownFields(w, p)}}

LEMMA PayloadFields ==
  ASSUME NEW w, NEW p, NEW q \in Payloads(w, p)
  PROVE  DOMAIN q.fields \subseteq KnownFields(w, p) /\ \A f \in DOMAIN q.fields : q.fields[f] \in KnownValues(w, p)
PROOF
<1>1. CASE q = p
  BY <1>1 DEF KnownFields, KnownValues
<1>2. CASE q # p
  <2>1. PICK D \in SUBSET KnownFields(w, p) : \E g \in [D -> KnownValues(w, p)] : q = Payload("object", g)
    BY <1>2 DEF Payloads
  <2>2. q.fields \in [D -> KnownValues(w, p)]
    BY <2>1 DEF Payload
  <2> QED BY <2>2
<1> QED BY <1>1, <1>2

LEMMA MergedIsPayload ==
  ASSUME NEW w, NEW p, NEW q \in Payloads(w, p), NEW out \in Answers(w)
  PROVE  Merged(q, out) \in Payloads(w, p) /\ DOMAIN Merged(q, out).fields = DOMAIN q.fields \cup DOMAIN out
PROOF
<1> DEFINE D == DOMAIN q.fields \cup DOMAIN out
           V == KnownValues(w, p)
<1>1. DOMAIN q.fields \subseteq KnownFields(w, p) /\ \A f \in DOMAIN q.fields : q.fields[f] \in V
  BY PayloadFields
<1>2. DOMAIN out \subseteq KnownFields(w, p)
  BY DEF KnownFields
<1>3. \A f \in DOMAIN out : out[f] \in V
  BY DEF KnownValues
<1> HIDE DEF V
<1> DEFINE g == [f \in D |-> IF f \in DOMAIN out THEN out[f] ELSE q.fields[f]]
<1>4. g \in [D -> V]
  BY <1>1, <1>3
<1>5. D \in SUBSET KnownFields(w, p)
  BY <1>1, <1>2
<1>6. Merged(q, out) = Payload("object", g) /\ Merged(q, out).fields = g /\ DOMAIN g = D
  BY DEF Merged, Payload
<1> HIDE DEF D, g
<1>7. Merged(q, out) \in Payloads(w, p)
  BY <1>4, <1>5, <1>6 DEF Payloads, V
<1> QED BY <1>6, <1>7 DEF D

(* What a node leaves whose successors are all defined.                    *)
Supplies(n, q) == DOMAIN q.fields \cup (IF n.type = "filter" THEN {} ELSE DOMAIN parseStubOutput(n.stub))
OnlyConditionsFail(x)       == x.error = IF x.status = "completed" THEN "none" ELSE "CONDITION_ERROR"
LeavesWell(w, p, id, q, r) ==
  /\ r.execution.id = id /\ r.execution.input = q.fields /\ OnlyConditionsFail(r.execution)
  /\ \A c \in r.calls :
       /\ c = <<c[1], c[2]>> /\ c[1] \in Children(w, id) \cap NodeIDs(w)
       /\ c[2] \in Payloads(w, p) /\ Supplies(NodeMap(w)[id], q) \subseteq DOMAIN c[2].fields

LEMMA LeavesIs ==
  ASSUME NEW id, NEW q, NEW status, NEW error, NEW calls
  PROVE  LET r == Leaves(Execution(id, q, status, error), calls) IN
         /\ r.execution.id = id /\ r.execution.input = q.fields /\ r.execution.status = status
         /\ r.execution.error = error /\ r.calls = calls
BY DEF Leaves, Execution

LEMMA SuccessorDefined ==
  ASSUME NEW w, IsParsed(w), \A e \in Edges(w) : Defined(w, e[3]), NEW id \in NodeIDs(w),
         NEW i \in 1..Len(Successors(NodeMap(w)[id]))
  PROVE  Successors(NodeMap(w)[id])[i] \in Children(w, id) \cap NodeIDs(w)
PROOF
<1> DEFINE n == NodeMap(w)[id]
           to == Successors(n)[i]
<1>1. n \in NodesOf(w)
  BY ParsedNodes
<1>2. <<n.id, i, to>> \in Edges(w)
  BY <1>1 DEF Edges
<1>3. <<n.id, i, to>>[3] = to
  OBVIOUS
<1> HIDE DEF to
<1>4. to \in NodeIDs(w)
  BY <1>2, <1>3 DEF Defined
<1>5. to \in Children(w, id)
  BY DEF Children, Defined, to
<1> QED BY <1>4, <1>5 DEF to

LEMMA FilterLeavesWell ==
  ASSUME NEW w, IsParsed(w), \A e \in Edges(w) : Defined(w, e[3]), NEW p, NEW id \in NodeIDs(w),
         NEW q \in Payloads(w, p), NodeMap(w)[id].type = "filter"
  PROVE  LeavesWell(w, p, id, q, executeFilter(w, NodeMap(w)[id], q))
PROOF
<1> DEFINE n == NodeMap(w)[id]
           r == executeFilter(w, n, q)
           F == Failing(w, n, q)
           hits == {i \in 1..Len(n.branches) : Evaluate(n.branches[i].cond, q) = "true"}
           stop == CHOOSE i \in F : \A j \in F : i <= j
<1>1. n.id = id /\ n \in NodesOf(w) /\ Len(n.branches) \in Nat
  BY ParsedNodes
<1>2. \A i \in 1..Len(n.branches) : n.branches[i].next \in Children(w, id) \cap NodeIDs(w)
  <2>1. Successors(n) = [i \in 1..Len(n.branches) |-> n.branches[i].next]
    BY DEF Successors
  <2>2. Len(Successors(n)) = Len(n.branches)
    BY <1>1, <2>1
  <2> HIDE DEF n
  <2>3. \A i \in 1..Len(n.branches) : Successors(n)[i] \in Children(w, id) \cap NodeIDs(w)
    BY <2>2, SuccessorDefined DEF n
  <2> QED BY <2>1, <2>3
<1>3. Supplies(n, q) = DOMAIN q.fields
  BY DEF Supplies
<1>4. CASE F = {}
  <2> DEFINE calls == {<<n.branches[i].next, q>> : i \in hits}
  <2>1. r = Leaves(Execution(n.id, q, "completed", "none"), calls)
    BY <1>4 DEF executeFilter
  <2>2. \A c \in calls : /\ c = <<c[1], c[2]>> /\ c[2] = q
                         /\ c[1] \in Children(w, id) \cap NodeIDs(w)
    <3> HIDE DEF n
    <3> QED BY <1>2
  <2> HIDE DEF calls, r, n
  <2>3. /\ r.execution.id = id /\ r.execution.input = q.fields /\ r.execution.status = "completed"
        /\ r.execution.error = "none" /\ r.calls = calls
    BY <1>1, <2>1, LeavesIs
  <2>4. OnlyConditionsFail(r.execution)
    BY <2>3 DEF OnlyConditionsFail
  <2>5. LeavesWell(w, p, id, q, r)
    BY <1>3, <2>2, <2>3, <2>4 DEF LeavesWell, n
  <2> QED BY <2>5 DEF r, n
<1>5. CASE F # {}
  <2> DEFINE error == IF Evaluate(n.branches[stop].cond, q) = "error" THEN "CONDITION_ERROR" ELSE "MISSING_NODE"
  <2>1. r = Leaves(Execution(n.id, q, "failed", error), {})
    BY <1>5 DEF executeFilter
  <2>2. stop \in F
    <3>1. F \subseteq Nat
      BY <1>1 DEF Failing
    <3> HIDE DEF F
    <3>2. \E i \in F : \A j \in F : i <= j
      BY <1>5, <3>1, LeastNatural
    <3> QED BY <3>2
  <2> HIDE DEF stop
  <2>3. error = "CONDITION_ERROR"
    <3>1. \A i \in F : Evaluate(n.branches[i].cond, q) = "error"
      BY <1>2 DEF Failing, Defined
    <3> HIDE DEF F, n
    <3> QED BY <2>2, <3>1
  <2> HIDE DEF r, n, error
  <2>4. /\ r.execution.id = id /\ r.execution.input = q.fields /\ r.execution.status = "failed"
        /\ r.execution.error = error /\ r.calls = {}
    BY <1>1, <2>1, LeavesIs
  <2>5. OnlyConditionsFail(r.execution)
    BY <2>3, <2>4 DEF OnlyConditionsFail
  <2>6. LeavesWell(w, p, id, q, r)
    BY <2>4, <2>5 DEF LeavesWell
  <2> QED BY <2>6 DEF r, n
<1> QED BY <1>4, <1>5

LEMMA LinearLeavesWell ==
  ASSUME NEW w, IsParsed(w), \A e \in Edges(w) : Defined(w, e[3]), NEW p, NEW id \in NodeIDs(w),
         NEW q \in Payloads(w, p), NodeMap(w)[id].type # "filter"
  PROVE  LeavesWell(w, p, id, q, executeLinear(w, NodeMap(w)[id], q))
PROOF
<1> DEFINE n == NodeMap(w)[id]
           r == executeLinear(w, n, q)
           out == Handlers(w)[id]
<1>1. n.id = id /\ n \in NodesOf(w)
  BY ParsedNodes
<1>2. id \in DOMAIN Handlers(w) /\ out = parseStubOutput(n.stub)
  <2>1. id \in {m.id : m \in {l \in NodesOf(w) : l.type # "filter"}}
    BY <1>1
  <2> QED BY <2>1 DEF Handlers
<1>3. out \in Answers(w)
  BY <1>2 DEF Answers
<1>4. Supplies(n, q) = DOMAIN q.fields \cup DOMAIN out
  BY <1>2 DEF Supplies
<1>5. n.next # NoNode => n.next \in Children(w, id) \cap NodeIDs(w)
  <2> SUFFICES ASSUME n.next # NoNode PROVE n.next \in Children(w, id) \cap NodeIDs(w)
    OBVIOUS
  <2>1. Successors(n) = <<n.next>>
    BY DEF Successors
  <2>2. 1 \in 1..Len(Successors(n)) /\ Successors(n)[1] = n.next
    BY <2>1
  <2> QED BY <2>2, SuccessorDefined
<1> DEFINE calls == IF n.next = NoNode THEN {} ELSE {<<n.next, Merged(q, out)>>}
<1>6. r = Leaves(Execution(id, q, "completed", "none"), calls)
  BY <1>1, <1>2, <1>5 DEF executeLinear, Defined
<1>7. Merged(q, out) \in Payloads(w, p) /\ DOMAIN Merged(q, out).fields = DOMAIN q.fields \cup DOMAIN out
  BY <1>3, MergedIsPayload
<1>8. \A c \in calls : /\ c = <<c[1], c[2]>> /\ c[1] \in Children(w, id) \cap NodeIDs(w)
                       /\ c[2] \in Payloads(w, p) /\ Supplies(n, q) \subseteq DOMAIN c[2].fields
  <2> HIDE DEF n, out
  <2> QED BY <1>4, <1>5, <1>7
<1> HIDE DEF calls, r, n, out
<1>9. /\ r.execution.id = id /\ r.execution.input = q.fields /\ r.execution.status = "completed"
      /\ r.execution.error = "none" /\ r.calls = calls
  BY <1>6, LeavesIs
<1>10. OnlyConditionsFail(r.execution)
  BY <1>9 DEF OnlyConditionsFail
<1>11. LeavesWell(w, p, id, q, r)
  BY <1>8, <1>9, <1>10 DEF LeavesWell, n
<1> QED BY <1>11 DEF r, n

LEMMA NodeLeavesWell ==
  ASSUME NEW w, IsParsed(w), \A e \in Edges(w) : Defined(w, e[3]), NEW p, NEW id \in NodeIDs(w),
         NEW q \in Payloads(w, p)
  PROVE  LeavesWell(w, p, id, q, executeNode(w, id, q))
BY FilterLeavesWell, LinearLeavesWell DEF executeNode

(* The calls of a run, level by level.                                     *)
CallLevels(w, p, f) ==
  /\ f[0] = {<<w.start, p>>}
  /\ \A k \in 0..Len(w.nodes) : f[k] \subseteq NodeIDs(w) \X Payloads(w, p)
  /\ \A k \in 1..Len(w.nodes) :
       f[k] = f[k - 1] \cup UNION {executeNode(w, c[1], c[2]).calls : c \in f[k - 1]}
Executions(w, calls) == {executeNode(w, c[1], c[2]).execution : c \in calls}

LEMMA ExecutedByLevels ==
  ASSUME NEW v, NEW p, IsParsed(toWorkflowDef(v)),
         \A e \in Edges(toWorkflowDef(v)) : Defined(toWorkflowDef(v), e[3]),
         Defined(toWorkflowDef(v), toWorkflowDef(v).start)
  PROVE  LET w == toWorkflowDef(v) IN
         \E f : execute(v, p) = Executions(w, f[Len(w.nodes)]) /\ CallLevels(w, p, f)
PROOF
<1> DEFINE w == toWorkflowDef(v)
           n == Len(w.nodes)
           T == NodeIDs(w) \X Payloads(w, p)
           next == [c \in T |-> executeNode(w, c[1], c[2]).calls]
           first == {<<w.start, p>>}
           Is(g) == g = [k \in 0..n |-> IF k = 0 THEN first
                         ELSE g[k - 1] \cup UNION {executeNode(w, c[1], c[2]).calls : c \in g[k - 1]}]
<1>1. n \in Nat
  BY LenProperties DEF IsParsed, IsList
<1>2. first \in SUBSET T
  BY DEF Defined, Payloads
<1>3. next \in [T -> SUBSET T]
  <2>1. ASSUME NEW c \in T PROVE executeNode(w, c[1], c[2]).calls \subseteq T
    <3> DEFINE r == executeNode(w, c[1], c[2])
    <3>1. LeavesWell(w, p, c[1], c[2], r)
      <4> HIDE DEF w
      <4>1. c[1] \in NodeIDs(w) /\ c[2] \in Payloads(w, p)
        OBVIOUS
      <4>2. IsParsed(w) /\ \A e \in Edges(w) : Defined(w, e[3])
        BY DEF w
      <4> QED BY <4>1, <4>2, NodeLeavesWell
    <3> HIDE DEF r, w
    <3>2. ASSUME NEW x \in r.calls PROVE x \in T
      <4>1. x = <<x[1], x[2]>> /\ x[1] \in NodeIDs(w) /\ x[2] \in Payloads(w, p)
        BY <3>1 DEF LeavesWell
      <4> QED BY <4>1
    <3> HIDE DEF T
    <3> QED BY <3>2 DEF r
  <2> HIDE DEF T, w
  <2> QED BY <2>1
<1> HIDE DEF w, n, T, next, first
<1>4. PICK f : f \in [0..n -> SUBSET T] /\ LevelsFrom(f, first, next, n)
  BY <1>1, <1>2, <1>3, LevelsExist
<1>5. Is(f)
  <2>1. ASSUME NEW k \in 0..n, k # 0
        PROVE  f[k] = f[k - 1] \cup UNION {executeNode(w, c[1], c[2]).calls : c \in f[k - 1]}
    <3>1. k - 1 \in 0..n /\ f[k - 1] \in SUBSET T
      BY <1>1, <1>4, <2>1
    <3>2. \A c \in f[k - 1] : next[c] = executeNode(w, c[1], c[2]).calls
      BY <3>1 DEF next
    <3>3. f[k] = f[k - 1] \cup (UNION {next[c] : c \in f[k - 1]})
      BY <1>4, <2>1 DEF LevelsFrom
    <3>4. UNION {next[c] : c \in f[k - 1]} = UNION {executeNode(w, c[1], c[2]).calls : c \in f[k - 1]}
      BY <3>2
    <3> QED BY <3>3, <3>4
  <2>2. 0 \in 0..n /\ f[0] = first
    BY <1>1, <1>4 DEF LevelsFrom
  <2> QED BY <1>4, <2>1, <2>2
<1> DEFINE calls == CHOOSE g : Is(g)
<1>6. Is(calls)
  <2> HIDE DEF Is
  <2> QED BY <1>5
<1>7. execute(v, p) = {executeNode(w, c[1], c[2]).execution : c \in calls[n]}
  BY DEF execute, w, n, first
<1> HIDE DEF calls
<1>8. /\ calls[0] = first
      /\ \A k \in 1..n : calls[k] = calls[k - 1] \cup UNION {executeNode(w, c[1], c[2]).calls : c \in calls[k - 1]}
  <2> DEFINE Made(B) == UNION {executeNode(w, c[1], c[2]).calls : c \in B}
  <2>1. calls = [k \in 0..n |-> IF k = 0 THEN first ELSE calls[k - 1] \cup Made(calls[k - 1])]
    BY <1>6
  <2> HIDE DEF Made, Is
  <2>2. calls[0] = first /\ \A k \in 1..n : calls[k] = calls[k - 1] \cup Made(calls[k - 1])
    <3>1. 0 \in 0..n /\ \A k \in 1..n : k \in 0..n /\ k # 0
      BY <1>1
    <3>2. calls[0] = first
      BY <2>1, <3>1
    <3>3. ASSUME NEW k \in 1..n PROVE calls[k] = calls[k - 1] \cup Made(calls[k - 1])
      BY <2>1, <3>1
    <3> QED BY <3>2, <3>3
  <2> QED BY <2>2 DEF Made
<1> HIDE DEF Is
<1> DEFINE U == {k \in 0..n : calls[k] \subseteq T}
<1>9. 0 \in U
  BY <1>1, <1>2, <1>8
<1>10. ASSUME NEW k \in 1..n, k - 1 \in U PROVE k \in U
  <2>1. calls[k - 1] \subseteq T /\ k \in 0..n
    BY <1>1, <1>10
  <2>2. ASSUME NEW c \in calls[k - 1] PROVE executeNode(w, c[1], c[2]).calls \subseteq T
    <3>1. c \in T /\ next[c] \in SUBSET T
      BY <1>3, <2>1
    <3> QED BY <3>1 DEF next
  <2>3. UNION {executeNode(w, c[1], c[2]).calls : c \in calls[k - 1]} \subseteq T
    BY <2>2
  <2>4. calls[k] \subseteq T
    BY <1>8, <2>1, <2>3
  <2> QED BY <2>1, <2>4
<1>11. \A k \in 0..n : k \in U
  <2> HIDE DEF U
  <2> QED BY <1>1, <1>9, <1>10, UpTo
<1>12. CallLevels(w, p, calls)
  BY <1>8, <1>11 DEF CallLevels, n, T, first
<1>13. execute(v, p) = Executions(w, calls[Len(w.nodes)])
  BY <1>7 DEF Executions, n
<1> QED BY <1>12, <1>13 DEF w

(* Every call of a run is one of a node, with a payload of the run.        *)
LEMMA ExecutedIsCalled ==
  ASSUME NEW v, NEW w, w = toWorkflowDef(v), NEW p, IsParsed(w),
         \A e \in Edges(w) : Defined(w, e[3]), Defined(w, w.start), NEW x \in execute(v, p)
  PROVE  x.id \in NodeIDs(w) /\ OnlyConditionsFail(x)
PROOF
<1> DEFINE n == Len(w.nodes)
<1>1. n \in Nat /\ n \in 0..n
  BY LenProperties DEF IsParsed, IsList
<1>2. PICK f : execute(v, p) = Executions(w, f[n]) /\ CallLevels(w, p, f)
  BY ExecutedByLevels
<1> HIDE DEF n
<1>3. PICK c \in f[n] : x = executeNode(w, c[1], c[2]).execution
  BY <1>2 DEF Executions
<1>4. c[1] \in NodeIDs(w) /\ c[2] \in Payloads(w, p)
  BY <1>1, <1>2, <1>3 DEF CallLevels, n
<1>5. LeavesWell(w, p, c[1], c[2], executeNode(w, c[1], c[2]))
  BY <1>4, NodeLeavesWell
<1> QED BY <1>3, <1>4, <1>5 DEF LeavesWell

(* And the data-flow check has visited its node with no more fields than   *)
(* its payload has, when the stubs keep their word: what is below a call   *)
(* is handed all that the check counts on.                                 *)
Has(p)              == DOMAIN p.fields
Foreseen(c, visits) == \E v \in visits : v[1] = c[1] /\ v[2] \subseteq DOMAIN c[2].fields

LEMMA CallIsForeseen ==
  ASSUME NEW w, IsParsed(w), \A e \in Edges(w) : Defined(w, e[3]), StubsKeepTheirWord(w), NEW p,
         NEW id \in NodeIDs(w), NEW q \in Payloads(w, p), NEW visits, Foreseen(<<id, q>>, visits),
         NEW c \in executeNode(w, id, q).calls
  PROVE  \E v \in visits : Foreseen(c, VisitsBelow(w, v))
PROOF
<1> DEFINE n == NodeMap(w)[id]
<1>1. PICK v \in visits : v[1] = id /\ v[2] \subseteq DOMAIN q.fields
  BY DEF Foreseen
<1>2. /\ c[1] \in Children(w, id) \cap NodeIDs(w)
      /\ Supplies(n, q) \subseteq DOMAIN c[2].fields
  BY NodeLeavesWell DEF LeavesWell
<1>3. n \in NodesOf(w)
  BY ParsedNodes
<1> HIDE DEF n
<1>4. v[2] \cup n.produces \subseteq DOMAIN c[2].fields
  BY <1>1, <1>2, <1>3 DEF StubsKeepTheirWord, Supplies
<1> DEFINE u == <<c[1], v[2] \cup n.produces>>
<1>5. u \in VisitsBelow(w, v)
  BY <1>1, <1>2 DEF VisitsBelow, n
<1>6. u[1] = c[1] /\ u[2] \subseteq DOMAIN c[2].fields
  BY <1>4
<1> HIDE DEF u
<1>7. Foreseen(c, VisitsBelow(w, v))
  BY <1>5, <1>6 DEF Foreseen
<1> QED BY <1>7

LEMMA CallsAreForeseen ==
  ASSUME NEW w, IsParsed(w), \A e \in Edges(w) : Defined(w, e[3]), Defined(w, w.start),
         StubsKeepTheirWord(w), NEW p, NEW initial, initial = Has(p), NEW f, CallLevels(w, p, f)
  PROVE  \A c \in f[Len(w.nodes)] : Foreseen(c, Visits(w, initial))
PROOF
<1> DEFINE n == Len(w.nodes)
<1>1. n \in Nat /\ n \in 0..n
  BY LenProperties DEF IsParsed, IsList
<1>2. PICK g :
        /\ Visits(w, initial) = g[n] /\ g[0] = {<<w.start, initial>>}
        /\ \A k \in 1..n : g[k] = g[k - 1] \cup UNION {VisitsBelow(w, v) : v \in g[k - 1]}
  BY VisitLevels
<1>3. /\ f[0] = {<<w.start, p>>}
      /\ \A k \in 0..n : f[k] \subseteq NodeIDs(w) \X Payloads(w, p)
      /\ \A k \in 1..n :
           f[k] = f[k - 1] \cup UNION {executeNode(w, c[1], c[2]).calls : c \in f[k - 1]}
  BY DEF CallLevels
<1> HIDE DEF n
<1> DEFINE U == {k \in 0..n : \A c \in f[k] : Foreseen(c, g[k])}
<1>4. 0 \in U
  <2>1. \A c \in f[0] : c[1] = w.start /\ c[2] = p
    BY <1>3
  <2>2. <<w.start, initial>> \in g[0]
    BY <1>2
  <2>3. \A c \in f[0] : Foreseen(c, g[0])
    BY <2>1, <2>2 DEF Foreseen, Has
  <2> QED BY <1>1, <2>3
<1>5. ASSUME NEW k \in 1..n, k - 1 \in U PROVE k \in U
  <2>1. /\ k \in 0..n /\ f[k - 1] \subseteq NodeIDs(w) \X Payloads(w, p)
        /\ \A c \in f[k - 1] : Foreseen(c, g[k - 1])
    BY <1>1, <1>3, <1>5
  <2>2. ASSUME NEW c \in f[k] PROVE Foreseen(c, g[k])
    <3>1. CASE c \in f[k - 1]
      <4>1. Foreseen(c, g[k - 1]) /\ g[k - 1] \subseteq g[k]
        BY <1>2, <2>1, <3>1
      <4> QED BY <4>1 DEF Foreseen
    <3>2. CASE c \notin f[k - 1]
      <4>1. PICK d \in f[k - 1] : c \in executeNode(w, d[1], d[2]).calls
        BY <1>3, <2>2, <3>2
      <4>2. d = <<d[1], d[2]>> /\ d[1] \in NodeIDs(w) /\ d[2] \in Payloads(w, p)
        BY <2>1
      <4>3. Foreseen(<<d[1], d[2]>>, g[k - 1])
        BY <2>1, <4>2
      <4>4. \E v \in g[k - 1] : Foreseen(c, VisitsBelow(w, v))
        BY <4>1, <4>2, <4>3, CallIsForeseen
      <4>5. \A v \in g[k - 1] : VisitsBelow(w, v) \subseteq g[k]
        BY <1>2
      <4> QED BY <4>4, <4>5 DEF Foreseen
    <3> QED BY <3>1, <3>2
  <2> QED BY <2>1, <2>2
<1>6. n \in U
  <2> HIDE DEF U
  <2>1. \A k \in 0..n : k \in U
    BY <1>1, <1>4, <1>5, UpTo
  <2> QED BY <1>1, <2>1
<1> QED BY <1>2, <1>6 DEF n

(* So a run that is accepted with its payload supplies every node's reads. *)
LEMMA ExecutedIsSupplied ==
  ASSUME NEW v, NEW w, w = toWorkflowDef(v), NEW p, NEW initial, initial = DOMAIN p.fields,
         IsParsed(w), \A e \in Edges(w) : Defined(w, e[3]), Defined(w, w.start),
         StubsKeepTheirWord(w), DataFlowErrors(w, initial) = {}, NEW x \in execute(v, p)
  PROVE  NodeMap(w)[x.id].reads \subseteq DOMAIN x.input
PROOF
<1> DEFINE n == Len(w.nodes)
<1>1. n \in Nat /\ n \in 0..n
  BY LenProperties DEF IsParsed, IsList
<1>2. PICK f : execute(v, p) = Executions(w, f[n]) /\ CallLevels(w, p, f)
  BY ExecutedByLevels
<1>3. \A c \in f[n] : Foreseen(c, Visits(w, initial))
  BY <1>2, CallsAreForeseen DEF Has
<1> HIDE DEF n
<1>4. PICK c \in f[n] : x = executeNode(w, c[1], c[2]).execution
  BY <1>2 DEF Executions
<1>5. c[1] \in NodeIDs(w) /\ c[2] \in Payloads(w, p)
  BY <1>1, <1>2, <1>4 DEF CallLevels, n
<1>6. LeavesWell(w, p, c[1], c[2], executeNode(w, c[1], c[2]))
  BY <1>5, NodeLeavesWell
<1>7. x.id = c[1] /\ x.input = c[2].fields
  BY <1>4, <1>6 DEF LeavesWell
<1>8. PICK u \in Visits(w, initial) : u[1] = c[1] /\ u[2] \subseteq DOMAIN c[2].fields
  BY <1>3 DEF Foreseen
<1>9. Missing(NodeMap(w)[u[1]], u[2]) = {}
  <2> SUFFICES ASSUME NEW h \in Missing(NodeMap(w)[u[1]], u[2]) PROVE FALSE
    OBVIOUS
  <2>1. <<"reads", u[1], h>> \in DataFlowErrors(w, initial)
    BY DEF DataFlowErrors
  <2> QED BY <2>1
<1> QED BY <1>7, <1>8, <1>9 DEF Missing

(* What validation with a schema promises of a definition.                 *)
LEMMA ValidatedIs ==
  ASSUME NEW w, NEW d, NEW initial, initial # NoSchema, ValidateWithSchema(d, w, initial) = {}
  PROVE  /\ Defined(w, w.start) /\ \A e \in Edges(w) : Defined(w, e[3])
         /\ DataFlowErrors(w, initial) = {}
         /\ \A k \in Positions(w) : \A m \in 1..(k - 1) : w.nodes[m].id # w.nodes[k].id
PROOF
<1>1. StructuralErrors(d, w) = {} /\ DataFlowErrors(w, initial) = {}
  BY DEF ValidateWithSchema, StructuralErrors
<1>2. DuplicateErrors(w) = {} /\ StartErrors(w) = {} /\ ReferenceErrors(w) = {}
  BY <1>1 DEF StructuralErrors
<1>3. Defined(w, w.start)
  BY <1>2 DEF StartErrors
<1>4. \A e \in Edges(w) : Defined(w, e[3])
  BY <1>2 DEF ReferenceErrors
<1>5. \A k \in Positions(w) : \A m \in 1..(k - 1) : w.nodes[m].id # w.nodes[k].id
  BY <1>2 DEF DuplicateErrors
<1> QED BY <1>1, <1>3, <1>4, <1>5

(* The stubs and the reads of the definition handed over.                  *)
LEMMA StubsHandedOver ==
  ASSUME NEW v, NEW w, w = toWorkflowDef(v), IsParsed(v), HasFields(v), StubsOK(v),
         StubsKeepTheirWord(v)
  PROVE  StubsKeepTheirWord(w)
PROOF
<1>1. Len(w.nodes) = Len(v.nodes) /\ \A k \in Positions(v) : w.nodes[k] = Exported(v.nodes[k])
  BY HandedOver
<1>2. ASSUME NEW m \in NodesOf(w)
      PROVE  m.produces \subseteq IF m.type = "filter" THEN {} ELSE DOMAIN parseStubOutput(m.stub)
  <2>1. PICK k \in Positions(v) : m = w.nodes[k]
    BY <1>1 DEF NodesOf, Positions
  <2> DEFINE n == v.nodes[k]
  <2>2. n \in NodesOf(v) /\ m = Exported(n)
    BY <1>1, <2>1 DEF NodesOf, Positions
  <2> HIDE DEF n
  <2>3. NodeFields \subseteq DOMAIN n /\ "stub" \in DOMAIN n
    BY <2>2 DEF HasFields, NodeFields, StubsOK
  <2>4. Exported(n).stub = n.stub
    BY <2>3 DEF Exported
  <2>5. m.produces = n.produces /\ m.type = n.type /\ m.stub = n.stub
    BY <2>2, <2>3, <2>4, KeptIs
  <2> QED BY <2>2, <2>5 DEF StubsKeepTheirWord
<1> QED BY <1>2 DEF StubsKeepTheirWord

LEMMA ReadsHandedOver ==
  ASSUME NEW v, NEW w, w = toWorkflowDef(v), IsParsed(v), HasFields(v),
         \A k \in Positions(w) : \A m \in 1..(k - 1) : w.nodes[m].id # w.nodes[k].id,
         NEW id \in NodeIDs(w)
  PROVE  NodeMap(v)[id].reads = NodeMap(w)[id].reads
PROOF
<1>1. /\ IsParsed(w) /\ NodeIDs(w) = NodeIDs(v) /\ Len(w.nodes) = Len(v.nodes)
      /\ Positions(w) = Positions(v) /\ \A k \in Positions(v) : w.nodes[k] = Exported(v.nodes[k])
  BY HandedOver
<1>2. Len(v.nodes) \in Nat
  BY LenProperties DEF IsParsed, IsList
<1>3. \A k \in Positions(v) : NodeFields \subseteq DOMAIN v.nodes[k]
  BY DEF HasFields, NodeFields, NodesOf, Positions
<1>4. \A k \in Positions(v) : w.nodes[k].id = v.nodes[k].id /\ w.nodes[k].reads = v.nodes[k].reads
  BY <1>1, <1>3, KeptIs
<1>5. PICK k \in Positions(v) : NodeMap(v)[id] = v.nodes[k] /\ v.nodes[k].id = id
  <2>1. NodeMap(v)[id] \in NodesOf(v) /\ NodeMap(v)[id].id = id
    BY <1>1, ParsedNodes
  <2> QED BY <2>1 DEF NodesOf, Positions
<1>6. PICK l \in Positions(v) : NodeMap(w)[id] = w.nodes[l] /\ w.nodes[l].id = id
  <2>1. NodeMap(w)[id] \in NodesOf(w) /\ NodeMap(w)[id].id = id
    BY <1>1, ParsedNodes
  <2> QED BY <1>1, <2>1 DEF NodesOf, Positions
<1>7. k = l
  <2>1. w.nodes[k].id = w.nodes[l].id
    BY <1>4, <1>5, <1>6
  <2>2. k \in 1..Len(v.nodes) /\ l \in 1..Len(v.nodes)
    BY DEF Positions
  <2>3. ~ k < l
    BY <1>1, <1>2, <2>1, <2>2
  <2>4. ~ l < k
    BY <1>1, <1>2, <2>1, <2>2
  <2> QED BY <1>2, <2>2, <2>3, <2>4
<1> QED BY <1>4, <1>5, <1>6, <1>7

(* So a run that validation let pass is clean.                             *)
LEMMA ValidatedRunIsClean ==
  ASSUME NEW v, IsParsed(v), HasFields(v), StubsOK(v), NEW p, DOMAIN p.fields # NoSchema,
         validate(v, <<DOMAIN p.fields>>), NEW x \in execute(v, p)
  PROVE  /\ OnlyConditionsFail(x)
         /\ StubsKeepTheirWord(v) => NodeMap(v)[x.id].reads \subseteq DOMAIN x.input
PROOF
<1> DEFINE w == toWorkflowDef(v)
           initial == DOMAIN p.fields
<1>1. ValidateWithSchema("ts", w, initial) = {}
  BY DEF validate
<1>2. IsParsed(w) /\ w = toWorkflowDef(v) /\ initial = DOMAIN p.fields /\ initial # NoSchema
  BY HandedOver
<1> HIDE DEF w, initial
<1>3. /\ Defined(w, w.start) /\ \A e \in Edges(w) : Defined(w, e[3])
      /\ DataFlowErrors(w, initial) = {}
      /\ \A k \in Positions(w) : \A m \in 1..(k - 1) : w.nodes[m].id # w.nodes[k].id
  BY <1>1, <1>2, ValidatedIs
<1>4. x.id \in NodeIDs(w) /\ OnlyConditionsFail(x)
  BY <1>2, <1>3, ExecutedIsCalled
<1>5. ASSUME StubsKeepTheirWord(v) PROVE NodeMap(v)[x.id].reads \subseteq DOMAIN x.input
  <2>1. StubsKeepTheirWord(w)
    BY <1>2, <1>5, StubsHandedOver
  <2>2. NodeMap(w)[x.id].reads \subseteq DOMAIN x.input
    BY <1>2, <1>3, <2>1, ExecutedIsSupplied
  <2>3. NodeMap(v)[x.id].reads = NodeMap(w)[x.id].reads
    BY <1>2, <1>3, <1>4, ReadsHandedOver
  <2> QED BY <2>2, <2>3
<1> QED BY <1>4, <1>5

(* The definitions and inputs of the page, those kept among them, and the  *)
(* marks: they are of a run of the definition on show that validation let  *)
(* pass.                                                                   *)
Typed(w) == IsParsed(w) /\ HasFields(w)
Inputs   == Texts \cup {e.payload : e \in EXAMPLES}
PageInv ==
  /\ Typed(wf) /\ payload \in Inputs
  /\ stored # <<>> => Typed(stored[1].workflow) /\ stored[1].payload \in Inputs
MarksInv ==
  marks # Nothing =>
    DOMAIN ran.fields # NoSchema /\ validate(wf, <<DOMAIN ran.fields>>) /\ marks = statuses(wf, ran)

(* A stub in place of another leaves a definition one.                     *)
LEMMA TypedStays ==
  ASSUME NEW w, Typed(w), NEW k \in 1..Len(w.nodes), NEW stub
  PROVE  Typed([w EXCEPT !.nodes[k].stub = stub])
PROOF
<1> DEFINE n == w.nodes[k]
           m == [n EXCEPT !.stub = stub]
           ns == [w.nodes EXCEPT ![k] = m]
           v == [w EXCEPT !.nodes[k].stub = stub]
           F == {"id", "type", "branches", "next", "reads", "produces"}
<1>1. /\ {"start", "nodes"} \subseteq DOMAIN w /\ IsList(w.nodes)
      /\ \A i \in 1..Len(w.nodes) : /\ F \subseteq DOMAIN w.nodes[i] /\ IsList(w.nodes[i].branches)
                                   /\ \A j \in 1..Len(w.nodes[i].branches) : "next" \in DOMAIN w.nodes[i].branches[j]
  BY DEF Typed, IsParsed, HasFields, NodesOf
<1>2. v = [w EXCEPT !.nodes = ns]
  OBVIOUS
<1>3. F \subseteq DOMAIN m /\ m.branches = n.branches
  BY <1>1
<1>4. Len(w.nodes) \in Nat /\ DOMAIN w.nodes = 1..Len(w.nodes)
      /\ w.nodes = [i \in 1..Len(w.nodes) |-> w.nodes[i]]
  <2> DEFINE S == {w.nodes[i] : i \in DOMAIN w.nodes}
  <2>1. w.nodes \in Seq(S)
    BY <1>1 DEF IsList
  <2> HIDE DEF S
  <2> QED BY <2>1
<1> HIDE DEF v, m
<1>5. ns = [i \in 1..Len(w.nodes) |-> IF i = k THEN m ELSE w.nodes[i]]
  BY <1>4
<1> HIDE DEF ns, n
<1>6. v.nodes = ns /\ {"start", "nodes"} \subseteq DOMAIN v
  BY <1>1, <1>2
<1>7. IsList(ns) /\ Len(ns) = Len(w.nodes)
  <2>1. ns = [i \in 1..Len(w.nodes) |-> ns[i]]
    BY <1>5
  <2> QED BY <1>4, <2>1, ListOfAny
<1>8. ASSUME NEW i \in 1..Len(ns)
      PROVE  /\ F \subseteq DOMAIN ns[i] /\ IsList(ns[i].branches)
             /\ \A j \in 1..Len(ns[i].branches) : "next" \in DOMAIN ns[i].branches[j]
  <2>1. CASE i = k
    BY <1>1, <1>3, <1>5, <1>7, <2>1 DEF n
  <2>2. CASE i # k
    BY <1>1, <1>5, <1>7, <2>2
  <2> QED BY <2>1, <2>2
<1>9. Typed(v)
  BY <1>6, <1>7, <1>8 DEF Typed, IsParsed, HasFields, NodesOf
<1> QED BY <1>9 DEF v

(* What a write keeps is on the page.                                      *)
LEMMA PersistKeepsPage ==
  ASSUME PageInv, Typed(wf'), payload' \in Inputs, Persist PROVE PageInv'
PROOF
<1>1. stored' = stored \/ stored' = Persisted(wf', payload', selected')
  BY DEF Persist
<1>2. /\ Persisted(wf', payload', selected')[1].workflow = wf'
      /\ Persisted(wf', payload', selected')[1].payload = payload'
  BY DEF Persisted
<1> QED BY <1>1, <1>2 DEF PageInv, Inputs

(* A store operation leaves no marks.                                      *)
LEMMA EmitKeepsPage ==
  ASSUME PageInv, NEW w, Typed(w), Emit(w) PROVE PageInv' /\ MarksInv'
PROOF
<1>1. wf' = w /\ payload' = payload /\ marks' = Nothing /\ Persist
  BY DEF Emit
<1>2. PageInv'
  BY <1>1, PersistKeepsPage DEF PageInv
<1> QED BY <1>1, <1>2 DEF MarksInv

(* Nor does an example that is loaded.                                     *)
LEMMA LoadKeepsPage ==
  ASSUME PageInv, NEW e \in EXAMPLES, loadExample(e) PROVE PageInv' /\ MarksInv'
PROOF
<1>1. Typed(e.workflow) /\ e.payload \in Inputs
  BY DefinitionAssumption DEF Typed, Inputs
<1>2. wf' = e.workflow /\ payload' = e.payload /\ marks' = Nothing
  BY DEF loadExample
<1>3. PICK first \in BOOLEAN, second \in BOOLEAN : WrittenTwice(e, first, second)
  BY DEF loadExample
<1>4. \/ stored' = stored
      \/ stored' = Persisted(e.workflow, e.payload, e.id)
      \/ stored' = Persisted(e.workflow, payload, e.id)
  BY <1>3 DEF WrittenTwice
<1>5. /\ Persisted(e.workflow, e.payload, e.id)[1].workflow = e.workflow
      /\ Persisted(e.workflow, e.payload, e.id)[1].payload = e.payload
      /\ Persisted(e.workflow, payload, e.id)[1].workflow = e.workflow
      /\ Persisted(e.workflow, payload, e.id)[1].payload = payload
  BY DEF Persisted
<1>6. PageInv'
  BY <1>1, <1>2, <1>4, <1>5 DEF PageInv, Inputs
<1> QED BY <1>2, <1>6 DEF MarksInv

(* The page opens with the default example or what is kept.                *)
LEMMA ShownIsTyped ==
  ASSUME stored # <<>> => Typed(stored[1].workflow) /\ stored[1].payload \in Inputs
  PROVE  Typed(Shown(stored).workflow) /\ Shown(stored).payload \in Inputs
PROOF
<1>1. CASE stored # <<>>
  BY <1>1 DEF Shown
<1>2. CASE stored = <<>>
  BY <1>2, StubAssumption, DefinitionAssumption DEF Shown, Typed, Inputs
<1> QED BY <1>1, <1>2

(* Every step keeps both: only a run leaves marks.                         *)
LEMMA StepKeepsPage ==
  ASSUME PageInv, MarksInv, [Next]_vars PROVE PageInv' /\ MarksInv'
PROOF
<1>1. CASE Edit
  <2>1. PICK w \in Drafts : Emit(w)
    BY <1>1 DEF Edit
  <2>2. Typed(w)
    BY DefinitionAssumption DEF Typed
  <2> QED BY <2>1, <2>2, EmitKeepsPage
<1>2. ASSUME NEW k \in 1..Len(wf.nodes), SaveStub(k) PROVE PageInv' /\ MarksInv'
  <2>1. ASSUME NEW stub, Emit([wf EXCEPT !.nodes[k].stub = stub]) PROVE PageInv' /\ MarksInv'
    <3>1. Typed([wf EXCEPT !.nodes[k].stub = stub])
      BY TypedStays DEF PageInv
    <3> QED BY <2>1, <3>1, EmitKeepsPage
  <2> QED BY <1>2, <2>1 DEF SaveStub
<1>3. CASE TypePayload
  <2>1. PageInv'
    BY <1>3, PersistKeepsPage DEF TypePayload, PageInv, Inputs
  <2>2. MarksInv'
    BY <1>3 DEF TypePayload, MarksInv
  <2> QED BY <2>1, <2>2
<1>4. CASE SelectExample \/ Reset
  <2>1. ASSUME NEW e \in EXAMPLES, loadExample(e) PROVE PageInv' /\ MarksInv'
    BY <2>1, LoadKeepsPage
  <2>2. CASE UNCHANGED <<wf, payload, stored, refused, marks, ran, panel>>
    BY <2>2 DEF PageInv, MarksInv, Inputs
  <2> QED BY <1>4, <2>1, <2>2 DEF SelectExample, Reset
<1>5. CASE Reload
  <2>1. wf' = Shown(stored).workflow /\ payload' = Shown(stored).payload /\ stored' = stored /\ marks' = Nothing
    BY <1>5 DEF Reload
  <2>2. Typed(Shown(stored).workflow) /\ Shown(stored).payload \in Inputs
    BY ShownIsTyped DEF PageInv
  <2> QED BY <2>1, <2>2 DEF PageInv, MarksInv
<1>6. CASE runWorkflow
  <2>1. PageInv' /\ wf' = wf
    BY <1>6 DEF runWorkflow, Page, PageInv, Inputs
  <2>2. CASE UNCHANGED <<marks, ran>>
    BY <2>1, <2>2 DEF MarksInv
  <2>3. CASE /\ Input.kind \notin {"none", "null"} /\ validate(wf, <<DOMAIN Handed.fields>>)
             /\ marks' = statuses(wf, Handed) /\ ran' = Handed
    <3>1. DOMAIN Handed.fields # NoSchema
      BY <2>3, DefinitionAssumption DEF PageInv, Inputs, Input, Handed, Payload
    <3> QED BY <2>1, <2>3, <3>1 DEF MarksInv
  <2> QED BY <1>6, <2>2, <2>3 DEF runWorkflow, Says
<1>7. CASE validateOnly \/ UNCHANGED vars
  BY <1>7 DEF validateOnly, Says, Page, vars, PageInv, MarksInv, Inputs
<1> QED BY <1>1, <1>2, <1>3, <1>4, <1>5, <1>6, <1>7 DEF Next

(* Validation keeps what it promises: marks on the graph are those of a    *)
(* run in which nothing failed but conditions and, as long as the stubs    *)
(* answer with what is declared, every node had its declared reads; after  *)
(* edits, stubs, examples and reloads, for any definitions and inputs.     *)
THEOREM ShownRunsAreClean == Spec => []ShownRunIsClean
PROOF
<1>1. Init => StubInv /\ PageInv /\ MarksInv
  <2> SUFFICES ASSUME Init PROVE StubInv /\ PageInv /\ MarksInv
    OBVIOUS
  <2>1. stored = <<>> /\ wf = Shown(stored).workflow /\ payload = Shown(stored).payload /\ marks = Nothing
    BY DEF Init
  <2>2. StubInv
    BY <2>1, ExamplesOK DEF Shown, StubInv
  <2>3. Typed(Shown(stored).workflow) /\ Shown(stored).payload \in Inputs
    BY <2>1, ShownIsTyped
  <2> QED BY <2>1, <2>2, <2>3 DEF PageInv, MarksInv
<1>2. StubInv /\ PageInv /\ MarksInv /\ [Next]_vars => StubInv' /\ PageInv' /\ MarksInv'
  BY StubStepKeeps, StepKeepsPage
<1>3. StubInv /\ PageInv /\ MarksInv => ShownRunIsClean
  <2> SUFFICES ASSUME StubInv, PageInv, MarksInv, marks # Nothing
               PROVE  /\ marks = statuses(wf, ran)
                      /\ \A x \in execute(wf, ran) :
                           /\ OnlyConditionsFail(x)
                           /\ StubsKeepTheirWord(wf) => NodeMap(wf)[x.id].reads \subseteq DOMAIN x.input
    BY DEF ShownRunIsClean, OnlyConditionsFail
  <2>1. IsParsed(wf) /\ HasFields(wf) /\ StubsOK(wf)
    BY DEF StubInv, PageInv, Typed
  <2>2. DOMAIN ran.fields # NoSchema /\ validate(wf, <<DOMAIN ran.fields>>) /\ marks = statuses(wf, ran)
    BY DEF MarksInv
  <2> QED BY <2>1, <2>2, ValidatedRunIsClean
<1> QED BY <1>1, <1>2, <1>3, PTL DEF Spec
=============================================================================
