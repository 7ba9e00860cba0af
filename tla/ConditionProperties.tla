------------------------- MODULE ConditionProperties -------------------------
(***************************************************************************)
(* What the condition language promises of its comparators and of its      *)
(* lists, and what the preview of a row promises.                          *)
(***************************************************************************)
EXTENDS Condition

Decided == verdicts # Pending

(* The comparison yaml asks for, under another name or with its operands   *)
(* exchanged.                                                              *)
Comparison(y) ==
  /\ y.node = "sequence" /\ Len(y.items) = 1
  /\ LET e == ParseOpExpr(y.items[1])
     IN ~ IsError(e) /\ e.op \in Comparators /\ Len(e.operands) = 2
As(y, op)   == <<[ParseOpExpr(y.items[1]) EXCEPT !.op = op]>>
Swapped(es) == <<[es[1] EXCEPT !.operands = Reverse(@)]>>

Yamls == Conditions \cup {RowsToYAML(rs) : rs \in RowLists}

(* An operand of a comparison is worth something that has a number, that   *)
(* is none or that is NaN.                                                 *)
ASSUME OperandAssumption ==
  \A y \in Yamls : Comparison(y) =>
    \A d \in Dialects, k \in 1..2, p \in Payloads :
      LET n == Numeric(d, EvalOperand(d, ParseOpExpr(y.items[1]).operands[k], p))
      IN n \in {Nil, NaN} \/ (n.kind = "num" /\ n.num \in Int)

ReadsNaN(d) ==
  LET e == As(yaml, "eq")[1]
  IN \E k \in 1..2 : Numeric(d, EvalOperand(d, e.operands[k], payload)) = NaN

(* The six comparators are one order.  They fail on the same operands (eq  *)
(* and neq on none that gt accepts); otherwise exactly one of lt, eq and   *)
(* gt holds, the others are their negations, and exchanging the operands   *)
(* exchanges lt and gt.  So branches on lt, eq and gt of the same operands *)
(* are never all passed by, nor two of them taken.                         *)
ComparatorsAreOneOrder ==
  Decided /\ Comparison(yaml) =>
    \A d \in Dialects :
      LET V(op) == Evaluate(d, As(yaml, op), payload)
          R(op) == Evaluate(d, Swapped(As(yaml, op)), payload)
      IN /\ \A op \in {"gte", "lt", "lte"} : V(op) = "error" <=> V("gt") = "error"
         /\ V("gt") = R("lt") /\ V("eq") = R("eq")
         /\ V("eq") # "error" => V("neq") # V("eq")
         /\ V("gt") # "error" /\ ~ ReadsNaN(d) =>
              /\ Cardinality({op \in {"lt", "eq", "gt"} : V(op) = "true"}) = 1
              /\ V("gte") # V("lt") /\ V("lte") # V("gt")

(* Operators over the expressions of a condition.                          *)
Expr(op, es) == [kind |-> "expr", op |-> op, operands |-> [k \in 1..Len(es) |-> OfOp(es[k])]]
Denials(es)  == [k \in 1..Len(es) |-> Expr("not", <<es[k]>>)]

(* Within an expression they are worth what they are worth alone.          *)
ASSUME EvaluatorAssumption ==
  \A y \in Yamls :
    LET c == ParseCondition(y)
        nested == ToSet(c.exprs) \cup ToSet(Denials(c.exprs)) \cup {Expr("and", Denials(c.exprs))}
    IN ~ IsError(c) =>
         \A d \in Dialects, e \in nested, p \in Payloads :
           EvaluatedInside(d, e, p) = EvalOp(d, e, p)

(* The list of a condition is an implicit or: put below one or operator,   *)
(* the same expressions give the same verdict, errors included; and by the *)
(* law of De Morgan so does the denied conjunction of their denials.       *)
TopLevelIsOr ==
  LET c == ParseCondition(yaml) IN
  Decided /\ ~ IsError(c) /\ c.exprs # <<>> =>
    \A d \in Dialects :
      /\ verdicts[d] = Evaluate(d, <<Expr("or", c.exprs)>>, payload)
      /\ verdicts[d] = Evaluate(d, <<Expr("not", <<Expr("and", Denials(c.exprs))>>)>>, payload)

(* A row whose texts say what their kind promises: a field name and, by    *)
(* kind, another one, a finite number, or one of the words true and false. *)
FieldName(s) == s # "" /\ Resolved(s) = Str(s)
Tidy(r) ==
  /\ FieldName(r.path)
  /\ CASE r.kind = "path"    -> FieldName(r.value)
       [] r.kind = "number"  -> r.value \notin Infinite \cup {""} /\ Resolved(r.value).kind = "num"
       [] r.kind = "boolean" -> r.value \in {"true", "false"}
       [] OTHER              -> TRUE

(* The preview's YAML, which main.ts calls what your workflow looks like,  *)
(* is decided upon by the SDK as the simulator decides upon the rows,      *)
(* errors included, however many rows a branch has, as long as each is     *)
(* tidy.  A row as the editor adds it is not, for it names no field: the   *)
(* preview cannot be parsed and the simulator runs.                        *)
PreviewMeansTheSame ==
  Decided /\ rows # <<>> /\ (\A k \in 1..Len(rows) : Tidy(rows[k])) =>
    verdicts["ts"] = verdicts["rows"]
=============================================================================
