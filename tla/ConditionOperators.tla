------------------------- MODULE ConditionOperators -------------------------
(***************************************************************************)
(* The values of the condition language and what its operators make of     *)
(* them, in both implementations: internal/model/eval.go ("go") and        *)
(* sdk/typescript's condition.ts ("ts").  Where the two take the same      *)
(* steps one operator stands for both; where they do not it takes the      *)
(* dialect.  What the two languages' libraries make of a text, and how     *)
(* they print a list or a map, is left to the constants.                   *)
(***************************************************************************)
EXTENDS Integers, SequencesExt

CONSTANTS
  ParseFloat(_),  \* strconv.ParseFloat of a text: a number, NaN, or Nil on error
  Number(_),      \* JavaScript's Number of a text: a number or NaN
  Blank,          \* texts that trim to ""
  Bytes(_),       \* length of a text in bytes,
  Units(_),       \* and in UTF-16 code units
  Rendered(_, _)  \* in a dialect, what a list or a map is printed as

Dialects == {"go", "ts"}

(* Values.  A map is the sequence of its entries in order of insertion.    *)
Nil       == [kind |-> "nil"]
NaN       == [kind |-> "nan"]
Bool(b)   == [kind |-> "bool", bool |-> b]
Num(n)    == [kind |-> "num", num |-> n]
Str(s)    == [kind |-> "str", text |-> s]
List(vs)  == [kind |-> "list", items |-> vs]
Map(es)   == [kind |-> "map", entries |-> es]
Method    == [kind |-> "function"]
Error     == [kind |-> "error"]

IsError(v)  == v.kind = "error"
Compound(v) == v.kind \in {"list", "map"}

-----------------------------------------------------------------------------
(* toFloat and toNumber.                                                   *)
GoNumber(v) ==
  CASE v.kind \in {"num", "nan"} -> v
    [] v.kind = "bool" -> Num(IF v.bool THEN 1 ELSE 0)
    [] v.kind = "str"  -> ParseFloat(v.text)
    [] OTHER           -> Nil

TsNumber(v) ==
  CASE v.kind \in {"num", "nan"} -> v
    [] v.kind = "bool" -> Num(IF v.bool THEN 1 ELSE 0)
    [] v.kind = "str"  -> IF Number(v.text) # NaN /\ v.text \notin Blank
                          THEN Number(v.text) ELSE Nil
    [] OTHER           -> Nil

Numeric(d, v) == IF d = "go" THEN GoNumber(v) ELSE TsNumber(v)
Below(a, b)   == a.kind = "num" /\ b.kind = "num" /\ a.num < b.num
Same(a, b)    == a.kind = "num" /\ b.kind = "num" /\ a.num = b.num

(* Printed forms, as far as equality of texts without brackets, blanks and *)
(* quotes can tell: what is printed bare, and what element by element.     *)
Bare(v) == CASE v.kind = "str"  -> v.text
             [] v.kind = "num"  -> ToString(v.num)
             [] v.kind = "bool" -> IF v.bool THEN "true" ELSE "false"
             [] v.kind = "nan"  -> "NaN"
             [] OTHER           -> "nil"

(* undefined is what JSON.stringify makes of a method; of nothing else.    *)
Shown(d, v) ==
  IF Compound(v) THEN [rendered |-> Rendered(d, v)]
  ELSE IF v.kind = "function" THEN [undefined |-> TRUE] ELSE [bare |-> Bare(v)]

PrintedSame(d, a, b) == Shown(d, a) = Shown(d, b)

(* A text both languages read as the same number, or as none, and that has *)
(* one length in both.                                                     *)
OrdinaryText(s) ==
  /\ GoNumber(Str(s)) = TsNumber(Str(s))
  /\ Bytes(s) = Units(s)

(* looseEqual.  The slip: two texts are compared as texts.                 *)
TextsExactly(d, a, b) ==
  IF Nil \in {a, b} THEN a = b
  ELSE IF {a.kind, b.kind} # {"str"} /\ Nil \notin {Numeric(d, a), Numeric(d, b)}
       THEN Same(Numeric(d, a), Numeric(d, b)) ELSE PrintedSame(d, a, b)
LooseEqual(d, a, b) ==
  IF Nil \in {a, b} THEN a = b
  ELSE IF Nil \notin {Numeric(d, a), Numeric(d, b)}
       THEN Same(Numeric(d, a), Numeric(d, b)) ELSE PrintedSame(d, a, b)

Size(v) == IF v.kind = "list" THEN Len(v.items) ELSE Len(v.entries)

(* truthy.  The slip: JavaScript's own, to which any object is true.       *)
NativeTruthy(d, v) ==
  CASE v.kind = "nil"  -> FALSE
    [] v.kind = "bool" -> v.bool
    [] v.kind = "num"  -> v.num # 0
    [] v.kind = "str"  -> v.text # ""
    [] OTHER           -> d = "ts" \/ (Compound(v) => Size(v) > 0)
Truthy(d, v) ==
  CASE v.kind = "nil"  -> FALSE
    [] v.kind = "bool" -> v.bool
    [] v.kind = "num"  -> v.num # 0
    [] v.kind = "str"  -> v.text # ""
    [] OTHER           -> Compound(v) => Size(v) > 0

-----------------------------------------------------------------------------
(* evalOp, with the values vs of its operands, some of which may be errors. *)
SomeError(s) == \E k \in 1..Len(s) : IsError(s[k])

BinCmp(d, op, vs) ==
  IF Len(vs) # 2 \/ SomeError(vs) THEN Error
  ELSE Bool(LooseEqual(d, vs[1], vs[2]) <=> op = "eq")

NumCmp(d, op, vs) ==
  IF Len(vs) # 2 \/ SomeError(vs) THEN Error
  ELSE LET a == Numeric(d, vs[1])
           b == Numeric(d, vs[2])
       IN IF Nil \in {a, b} THEN Error
          ELSE Bool(CASE op = "gt"  -> Below(b, a)
                      [] op = "gte" -> Below(b, a) \/ Same(a, b)
                      [] op = "lt"  -> Below(a, b)
                      [] op = "lte" -> Below(a, b) \/ Same(a, b))

EvalLen(d, vs) ==
  IF Len(vs) # 1 \/ SomeError(vs) THEN Error
  ELSE LET v == vs[1] IN
       CASE v.kind = "str" -> Num(IF d = "go" THEN Bytes(v.text) ELSE Units(v.text))
         [] v.kind = "nil" -> Num(0)
         [] Compound(v)    -> Num(Size(v))
         [] OTHER          -> Error

(* Operands are looked at from the left until one decides.  The slip: an   *)
(* operand that fails behind the deciding one fails the whole.             *)
AllEvaluated(d, isAnd, vs) ==
  IF SomeError(vs) THEN Error
  ELSE Bool(IF isAnd THEN \A k \in 1..Len(vs) : Truthy(d, vs[k])
            ELSE \E k \in 1..Len(vs) : Truthy(d, vs[k]))
EvalAndOr(d, isAnd, vs) ==
  LET decides == {k \in 1..Len(vs) : IsError(vs[k]) \/ (Truthy(d, vs[k]) # isAnd)}
  IN IF decides = {} THEN Bool(isAnd)
     ELSE IF IsError(vs[CHOOSE k \in decides : \A l \in decides : k <= l])
          THEN Error ELSE Bool(~ isAnd)

EvalNot(d, vs) ==
  IF Len(vs) # 1 \/ SomeError(vs) THEN Error ELSE Bool(~ Truthy(d, vs[1]))

Comparators == {"eq", "neq", "gt", "gte", "lt", "lte"}

(* Of every operator but exists, which looks at a path and not at a value. *)
Applied(d, op, vs) ==
  CASE op \in {"eq", "neq"}              -> BinCmp(d, op, vs)
    [] op \in {"gt", "gte", "lt", "lte"} -> NumCmp(d, op, vs)
    [] op = "len"                        -> EvalLen(d, vs)
    [] op \in {"and", "or"}              -> EvalAndOr(d, op = "and", vs)
    [] op = "not"                        -> EvalNot(d, vs)
    [] OTHER                             -> Error

(* What Evaluate makes of the values vs of a condition's expressions: the  *)
(* first that fails or is true decides.                                    *)
Decision(d, vs) ==
  LET decides == {k \in 1..Len(vs) : IsError(vs[k]) \/ Truthy(d, vs[k])}
  IN IF vs = <<>> THEN "true"
     ELSE IF decides = {} THEN "false"
     ELSE IF IsError(vs[CHOOSE k \in decides : \A l \in decides : k <= l])
          THEN "error" ELSE "true"
=============================================================================
