------------------------------ MODULE Condition ------------------------------
(***************************************************************************)
(* The condition language of filters, in both implementations:             *)
(* internal/model/condition.go and eval.go ("go"), and sdk/typescript's    *)
(* parser.ts and condition.ts ("ts").  A condition is a YAML node, parsed  *)
(* and then evaluated against a payload, its operators being those of      *)
(* ConditionOperators.  A condition is typed in YAML or made in the        *)
(* editor's rows, which the simulator turns into an expression and the     *)
(* preview into YAML, each on its own.                                     *)
(***************************************************************************)
EXTENDS ConditionOperators

CONSTANTS
  Conditions,     \* YAML nodes found under a branch's condition, Absent if none
  RowLists,       \* the rows of branches of the editor
  Payloads,       \* values of kind map
  ParsedInside(_),           \* what parseOpExpr returns for a mapping within an expression,
  EvaluatedInside(_, _, _),  \* and evalOp for an expression within another
  Keys(_),        \* a path split at its dots
  Resolved(_),    \* what a plain scalar of YAML is resolved to
  Infinite,       \* texts of numbers that are not finite
  Inherited       \* names every JavaScript object inherits

VARIABLES rows, yaml, payload, verdicts

vars == <<rows, yaml, payload, verdicts>>

-----------------------------------------------------------------------------
(* Parsing.  A scalar node has its style and the value its tag resolves    *)
(* to.  Neither parser looks at names of operators or numbers of operands. *)
(* The parser recurs, and so does the evaluator: of what they return when  *)
(* they call themselves the constants tell, and it is assumed, where it    *)
(* matters, that this is what the operators here define.                   *)

Path(p)    == [kind |-> "path", path |-> p]
Literal(v) == [kind |-> "literal", value |-> v]
OfOp(e)    == IF IsError(e) THEN Error ELSE [kind |-> "op", op |-> e]

(* A quoted scalar is a text whatever it looks like; a plain one that is   *)
(* no number, boolean or null is a path.                                   *)
ScalarOperand(y) ==
  IF y.style = "quoted" \/ y.value.kind # "str" THEN Literal(y.value)
  ELSE IF y.value.text = "" THEN Error ELSE Path(y.value.text)

ParseOperand(y) ==
  CASE y.node = "scalar"  -> ScalarOperand(y)
    [] y.node = "mapping" -> OfOp(ParsedInside(y))
    [] OTHER              -> Error

ParseOperandList(y) ==
  IF y.node = "sequence" THEN [k \in 1..Len(y.items) |-> ParseOperand(y.items[k])]
  ELSE <<ParseOperand(y)>>

ParseOpExpr(y) ==
  IF y.node # "mapping" \/ Len(y.items) # 1 THEN Error
  ELSE LET operands == ParseOperandList(y.items[1][2])
       IN IF SomeError(operands) THEN Error
          ELSE [kind |-> "expr", op |-> y.items[1][1], operands |-> operands]

(* The list of operator expressions, or Error.                             *)
ParseCondition(y) ==
  IF y.node # "sequence" THEN Error
  ELSE LET exprs == [k \in 1..Len(y.items) |-> ParseOpExpr(y.items[k])]
       IN IF SomeError(exprs) THEN Error ELSE [kind |-> "exprs", exprs |-> exprs]

(* parseBranch, and yaml.v3 on a pointer field: without a condition the    *)
(* branch is unconditional.  So it is in Go when the condition is null, for*)
(* then UnmarshalYAML is not called; parser.ts has no list there and throws.*)
Absent           == [node |-> "absent"]
NullCondition(y) == y.node = "scalar" /\ y.value = Nil
BranchCondition(d, y) ==
  IF y = Absent \/ (d = "go" /\ NullCondition(y)) THEN [kind |-> "exprs", exprs |-> <<>>]
  ELSE ParseCondition(y)

-----------------------------------------------------------------------------
(* resolvePath: one key at a time.  Go knows maps only; in TypeScript an   *)
(* array is an object too, and any object has what its prototype has.      *)
EntryAt(m, key) == SelectSeq(m.entries, LAMBDA e : e[1] = key)
Get(m, key)     == IF EntryAt(m, key) = <<>> THEN Nil ELSE EntryAt(m, key)[1][2]

GoKey(v, key) == IF v.kind = "map" THEN Get(v, key) ELSE Nil

TsKey(v, key) ==
  LET indices == IF v.kind = "list" THEN {k \in 1..Len(v.items) : ToString(k - 1) = key} ELSE {}
  IN IF indices # {} THEN v.items[CHOOSE k \in indices : TRUE]
     ELSE IF v.kind = "list" /\ key = "length" THEN Num(Len(v.items))
     ELSE IF v.kind = "map" /\ EntryAt(v, key) # <<>> THEN Get(v, key)
     ELSE IF Compound(v) /\ key \in Inherited THEN Method ELSE Nil

ResolvePath(d, p, path) ==
  IF path = "" THEN Nil
  ELSE FoldLeft(LAMBDA v, key : IF d = "go" THEN GoKey(v, key) ELSE TsKey(v, key),
                p, Keys(path))

-----------------------------------------------------------------------------
(* evalOp and Evaluate.                                                    *)

EvalExists(d, e, p) ==
  IF Len(e.operands) # 1 \/ e.operands[1].kind # "path" THEN Error
  ELSE Bool(ResolvePath(d, p, e.operands[1].path) # Nil)

EvalOperand(d, o, p) ==
  CASE o.kind = "literal" -> o.value
    [] o.kind = "path"    -> ResolvePath(d, p, o.path)
    [] o.kind = "op"      -> EvaluatedInside(d, o.op, p)

EvalOp(d, e, p) ==
  LET vs == [k \in 1..Len(e.operands) |-> EvalOperand(d, e.operands[k], p)]
  IN IF e.op = "exists" THEN EvalExists(d, e, p) ELSE Applied(d, e.op, vs)

Evaluate(d, exprs, p) == Decision(d, [k \in 1..Len(exprs) |-> EvalOp(d, exprs[k], p)])

Verdict(d, y, p) ==
  LET c == BranchCondition(d, y) IN IF IsError(c) THEN "unparsed" ELSE Evaluate(d, c.exprs, p)

-----------------------------------------------------------------------------
(* The editor's rows.  A row is [op, path, value, kind], two texts typed   *)
(* into a form and the kind chosen for the second.                         *)

OperandFromRow(r) ==
  CASE r.kind = "path"    -> Path(r.value)
    [] r.kind = "number"  -> Literal(IF Number(r.value) # NaN /\ r.value \notin Infinite
                                     THEN Number(r.value) ELSE Str(r.value))
    [] r.kind = "boolean" -> Literal(Bool(r.value = "true"))
    [] r.kind = "string"  -> Literal(Str(r.value))

RowToOpExpr(r) == [kind |-> "expr", op |-> r.op, operands |-> <<Path(r.path), OperandFromRow(r)>>]

RowsToCondition(rs) ==
  IF Len(rs) = 1 THEN <<RowToOpExpr(rs[1])>>
  ELSE <<[kind |-> "expr", op |-> "and",
          operands |-> [k \in 1..Len(rs) |-> OfOp(RowToOpExpr(rs[k]))]]>>

(* The preview: every text stands bare in it, but for a value of kind      *)
(* string, which JSON.stringify quotes.  An empty text leaves no scalar:   *)
(* nothing may follow its comma, and a flow sequence cannot begin with one.*)
Scalar(style, v)  == [node |-> "scalar", style |-> style, value |-> v]
Sequence(ys)      == [node |-> "sequence", items |-> ys]
Mapping(op, y)    == [node |-> "mapping", items |-> <<<<op, y>>>>]
Unreadable        == [node |-> "syntax error"]
Plain(text)       == IF text = "" THEN <<>> ELSE <<Scalar("plain", Resolved(text))>>
FormatValue(r)    == IF r.kind = "string" THEN <<Scalar("quoted", Str(r.value))>> ELSE Plain(r.value)
RowLine(r)        == Mapping(r.op, Sequence(Plain(r.path) \o FormatValue(r)))

(* The slip: the lines of several rows are listed and not joined by and.   *)
RowsListed(rs)  == Sequence([k \in 1..Len(rs) |-> RowLine(rs[k])])
RowsToYAML(rs) ==
  IF \E k \in 1..Len(rs) : rs[k].path = "" THEN Unreadable
  ELSE LET lines == Sequence([k \in 1..Len(rs) |-> RowLine(rs[k])])
       IN IF Len(rs) = 1 THEN lines ELSE Sequence(<<Mapping("and", lines)>>)

-----------------------------------------------------------------------------
Row == [op : STRING, path : STRING, value : STRING,
        kind : {"path", "number", "boolean", "string"}]

ASSUME RowAssumption ==
  \A rs \in RowLists : rs \in Seq(Row) /\ rs # <<>>

ASSUME NodeAssumption ==
  \A y \in Conditions : y.node = "sequence" => Len(y.items) \in Nat

(* The lines of several rows are parsed within the expression that joins   *)
(* them.                                                                   *)
ASSUME ParserAssumption ==
  \A rs \in RowLists : \A k \in 1..Len(rs) :
    ParsedInside(RowLine(rs[k])) = ParseOpExpr(RowLine(rs[k]))

(* What YAML and JavaScript make of the two words and of finite numbers.   *)
ASSUME ScalarAssumption ==
  /\ Resolved("true") = Bool(TRUE) /\ Resolved("false") = Bool(FALSE)
  /\ \A rs \in RowLists : \A k \in 1..Len(rs) :
       LET s == rs[k].value
       IN Resolved(s).kind = "num" /\ s \notin Infinite => Number(s) = Resolved(s)

(* What the orchestrator and the SDK make of the YAML, and the simulator   *)
(* of the rows when there are any.                                         *)
Users   == Dialects \cup {"rows"}
Pending == [u \in Users |-> "pending"]

Init ==
  /\ \/ rows = <<>> /\ yaml \in Conditions
     \/ rows \in RowLists /\ yaml = RowsToYAML(rows)
  /\ payload \in Payloads
  /\ verdicts = Pending

Decide ==
  /\ verdicts = Pending
  /\ verdicts' = [u \in Users |->
       IF u \in Dialects THEN Verdict(u, yaml, payload)
       ELSE IF rows = <<>> THEN "none" ELSE Evaluate("ts", RowsToCondition(rows), payload)]
  /\ UNCHANGED <<rows, yaml, payload>>

Spec == Init /\ [][Decide]_vars
=============================================================================
