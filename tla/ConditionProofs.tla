--------------------------- MODULE ConditionProofs ---------------------------
(***************************************************************************)
(* What the operators of the condition language make of any values, and    *)
(* the properties of conditions that follow.  What a condition nested in   *)
(* another is worth is assumed to be what the operators make of it, and    *)
(* of nothing else is induction over nesting needed.                       *)
(***************************************************************************)
EXTENDS ConditionProperties, WellFoundedInduction, SequenceTheorems, FiniteSetTheorems, TLAPS

(* Of the elements of a sequence that decide, there is a first.            *)
LEMMA FirstDecides ==
  ASSUME NEW n \in Nat, NEW D, D \subseteq 1..n, D # {}
  PROVE  LET k == CHOOSE k \in D : \A l \in D : k <= l IN k \in D /\ \A l \in D : k <= l
PROOF
<1> DEFINE R == OpToRel(<, Nat)
<1>1. IsWellFoundedOn(R, Nat)
  BY NatLessThanWellFounded
<1>2. D \subseteq Nat
  OBVIOUS
<1>3. PICK x \in D : \A y \in D : ~ (<<y, x>> \in R)
  BY <1>1, <1>2, WFMin
<1>4. ASSUME NEW y \in D PROVE x <= y
  <2>1. CASE y < x
    BY <1>2, <1>3, <2>1 DEF OpToRel
  <2> QED BY <1>2, <2>1
<1> QED BY <1>3, <1>4

(* What the operators return, and what a condition with one expression     *)
(* comes to.                                                               *)
LEMMA Results ==
  ASSUME NEW d, NEW op, NEW vs
  PROVE  LET r == Applied(d, op, vs) IN
         r = Error \/ (\E b \in BOOLEAN : r = Bool(b)) \/ (\E n : r = Num(n))
PROOF
<1>1. BinCmp(d, op, vs) = Error \/ \E b \in BOOLEAN : BinCmp(d, op, vs) = Bool(b)
  BY DEF BinCmp
<1>2. ASSUME op \in {"gt", "gte", "lt", "lte"}
      PROVE  NumCmp(d, op, vs) = Error \/ \E b \in BOOLEAN : NumCmp(d, op, vs) = Bool(b)
  BY <1>2 DEF NumCmp, Below, Same
<1>3. EvalLen(d, vs) = Error \/ \E n : EvalLen(d, vs) = Num(n)
  BY DEF EvalLen
<1>4. ASSUME NEW isAnd \in BOOLEAN
      PROVE  EvalAndOr(d, isAnd, vs) = Error \/ \E b \in BOOLEAN : EvalAndOr(d, isAnd, vs) = Bool(b)
  BY DEF EvalAndOr
<1>5. EvalNot(d, vs) = Error \/ \E b \in BOOLEAN : EvalNot(d, vs) = Bool(b)
  BY DEF EvalNot
<1> QED BY <1>1, <1>2, <1>3, <1>4, <1>5 DEF Applied

LEMMA Plainly ==
  ASSUME NEW d
  PROVE  /\ IsError(Error) /\ Truthy(d, Error) \in BOOLEAN
         /\ \A b \in BOOLEAN : ~ IsError(Bool(b)) /\ Truthy(d, Bool(b)) = b
         /\ \A n : ~ IsError(Num(n)) /\ Truthy(d, Num(n)) \in BOOLEAN
BY DEF IsError, Error, Bool, Num, Truthy, Compound

LEMMA OneExpression ==
  ASSUME NEW d, NEW v
  PROVE  Decision(d, <<v>>) = IF IsError(v) THEN "error" ELSE IF Truthy(d, v) THEN "true" ELSE "false"
PROOF
<1> DEFINE vs == <<v>>
           D  == {k \in 1..Len(vs) : IsError(vs[k]) \/ Truthy(d, vs[k])}
<1>1. Len(vs) = 1 /\ vs # <<>> /\ vs[1] = v
  OBVIOUS
<1>2. D = IF IsError(v) \/ Truthy(d, v) THEN {1} ELSE {}
  BY <1>1
<1>3. (CHOOSE k \in {1} : \A l \in {1} : k <= l) = 1
  OBVIOUS
<1>4. vs[CHOOSE k \in {1} : \A l \in {1} : k <= l] = v
  BY <1>1, <1>3
<1> QED BY <1>1, <1>2, <1>4 DEF Decision

-----------------------------------------------------------------------------
(* The order of the comparators, on any two values.                        *)
Readable(d, v) ==
  LET n == Numeric(d, v) IN n \in {Nil, NaN} \/ (n.kind = "num" /\ n.num \in Int)

Comparing(d, op, a, b) == Decision(d, <<Applied(d, op, <<a, b>>)>>)

LEMMA EqualityIsSymmetric ==
  ASSUME NEW d, NEW a, NEW b
  PROVE  LooseEqual(d, a, b) \in BOOLEAN /\ LooseEqual(d, a, b) = LooseEqual(d, b, a)
PROOF
<1>1. Same(Numeric(d, a), Numeric(d, b)) = Same(Numeric(d, b), Numeric(d, a))
  BY DEF Same
<1>2. PrintedSame(d, a, b) = PrintedSame(d, b, a)
  BY DEF PrintedSame
<1>3. {a, b} = {b, a} /\ {Numeric(d, a), Numeric(d, b)} = {Numeric(d, b), Numeric(d, a)}
  OBVIOUS
<1>4. Same(Numeric(d, a), Numeric(d, b)) \in BOOLEAN /\ PrintedSame(d, a, b) \in BOOLEAN
  BY DEF Same, PrintedSame
<1> QED BY <1>1, <1>2, <1>3, <1>4 DEF LooseEqual

(* What a comparison comes to, by its operands.                            *)
Fails(a, b)      == IsError(a) \/ IsError(b)
Unordered(d, a, b) == Fails(a, b) \/ Nil \in {Numeric(d, a), Numeric(d, b)}
Holds(d, op, a, b) ==
  CASE op = "eq"  -> LooseEqual(d, a, b)
    [] op = "neq" -> ~ LooseEqual(d, a, b)
    [] op = "gt"  -> Below(Numeric(d, b), Numeric(d, a))
    [] op = "gte" -> Below(Numeric(d, b), Numeric(d, a)) \/ Same(Numeric(d, a), Numeric(d, b))
    [] op = "lt"  -> Below(Numeric(d, a), Numeric(d, b))
    [] op = "lte" -> Below(Numeric(d, a), Numeric(d, b)) \/ Same(Numeric(d, a), Numeric(d, b))

LEMMA ComparisonsDecide ==
  ASSUME NEW d, NEW a, NEW b, NEW op \in Comparators
  PROVE  Comparing(d, op, a, b) =
           IF IF op \in {"eq", "neq"} THEN Fails(a, b) ELSE Unordered(d, a, b) THEN "error"
           ELSE IF Holds(d, op, a, b) THEN "true" ELSE "false"
PROOF
<1> DEFINE vs == <<a, b>>
           r  == Applied(d, op, vs)
<1>1. Len(vs) = 2 /\ vs[1] = a /\ vs[2] = b
  OBVIOUS
<1>2. SomeError(vs) <=> Fails(a, b)
  BY <1>1 DEF SomeError, Fails
<1>3. Comparing(d, op, a, b) = IF IsError(r) THEN "error" ELSE IF Truthy(d, r) THEN "true" ELSE "false"
  BY OneExpression DEF Comparing
<1>4. LooseEqual(d, a, b) \in BOOLEAN
  BY EqualityIsSymmetric
<1>5. CASE op \in {"eq", "neq"}
  <2>1. r = IF Fails(a, b) THEN Error ELSE Bool(Holds(d, op, a, b))
    BY <1>1, <1>2, <1>4, <1>5 DEF Applied, BinCmp, Holds
  <2>2. Holds(d, op, a, b) \in BOOLEAN
    BY <1>4, <1>5 DEF Holds
  <2> QED BY <1>3, <1>5, <2>1, <2>2, Plainly
<1>6. CASE op \in {"gt", "gte", "lt", "lte"}
  <2>1. r = IF Unordered(d, a, b) THEN Error ELSE Bool(Holds(d, op, a, b))
    BY <1>1, <1>2, <1>6 DEF Applied, NumCmp, Holds, Unordered
  <2>2. Holds(d, op, a, b) \in BOOLEAN
    BY <1>6 DEF Holds, Below, Same
  <2> QED BY <1>3, <1>6, <2>1, <2>2, Plainly
<1> QED BY <1>5, <1>6 DEF Comparators

(* The six comparators are one order on any two values whose numbers, if   *)
(* they have any, are integers or NaN: lt, eq and gt exclude each other    *)
(* and one of them holds, unless a number is missing or NaN.               *)
THEOREM ComparatorsOrder ==
  ASSUME NEW d, NEW a, NEW b, Readable(d, a), Readable(d, b)
  PROVE  LET V(op) == Comparing(d, op, a, b) IN
         /\ \A op \in {"gte", "lt", "lte"} : V(op) = "error" <=> V("gt") = "error"
         /\ V("gt") = Comparing(d, "lt", b, a) /\ V("eq") = Comparing(d, "eq", b, a)
         /\ V("eq") # "error" => V("neq") # V("eq")
         /\ V("gt") # "error" /\ NaN \notin {Numeric(d, a), Numeric(d, b)} =>
              /\ \E op \in {"lt", "eq", "gt"} :
                   \A o \in {"lt", "eq", "gt"} : V(o) = "true" <=> o = op
              /\ V("gte") # V("lt") /\ V("lte") # V("gt")
PROOF
<1> DEFINE V(op) == Comparing(d, op, a, b)
           x == Numeric(d, a)
           y == Numeric(d, b)
<1>1. \A op \in {"gt", "gte", "lt", "lte"} :
        V(op) = IF Unordered(d, a, b) THEN "error" ELSE IF Holds(d, op, a, b) THEN "true" ELSE "false"
  BY ComparisonsDecide DEF Comparators
<1>2. \A op \in {"eq", "neq"} :
        V(op) = IF Fails(a, b) THEN "error" ELSE IF Holds(d, op, a, b) THEN "true" ELSE "false"
  BY ComparisonsDecide DEF Comparators
<1>3. /\ Comparing(d, "lt", b, a) =
           IF Unordered(d, b, a) THEN "error" ELSE IF Holds(d, "lt", b, a) THEN "true" ELSE "false"
      /\ Comparing(d, "eq", b, a) =
           IF Fails(b, a) THEN "error" ELSE IF Holds(d, "eq", b, a) THEN "true" ELSE "false"
  BY ComparisonsDecide DEF Comparators
<1>4. \A op \in {"gte", "lt", "lte"} : V(op) = "error" <=> V("gt") = "error"
  BY <1>1
<1>5. V("gt") = Comparing(d, "lt", b, a) /\ V("eq") = Comparing(d, "eq", b, a)
  <2>1. Holds(d, "lt", b, a) = Holds(d, "gt", a, b) /\ Holds(d, "eq", b, a) = Holds(d, "eq", a, b)
    BY EqualityIsSymmetric DEF Holds
  <2>2. Fails(b, a) = Fails(a, b) /\ Unordered(d, b, a) = Unordered(d, a, b)
    BY DEF Fails, Unordered
  <2> QED BY <1>1, <1>2, <1>3, <2>1, <2>2
<1>6. V("eq") # "error" => V("neq") # V("eq")
  BY <1>2 DEF Holds
<1>7. ASSUME V("gt") # "error", NaN \notin {x, y}
      PROVE  /\ \E op \in {"lt", "eq", "gt"} :
                  \A o \in {"lt", "eq", "gt"} : V(o) = "true" <=> o = op
             /\ V("gte") # V("lt") /\ V("lte") # V("gt")
  <2>1. ~ Unordered(d, a, b) /\ ~ Fails(a, b) /\ Nil \notin {x, y}
    BY <1>1, <1>7 DEF Unordered
  <2>2. x.kind = "num" /\ x.num \in Int /\ y.kind = "num" /\ y.num \in Int
    BY <1>7, <2>1 DEF Readable
  <2>3. a # Nil /\ b # Nil
    BY <2>1 DEF Numeric, GoNumber, TsNumber, Nil
  <2>4. LooseEqual(d, a, b) = Same(x, y)
    BY <2>1, <2>3 DEF LooseEqual
  <2>5. \A op \in Comparators : V(op) = IF Holds(d, op, a, b) THEN "true" ELSE "false"
    BY <1>1, <1>2, <2>1 DEF Comparators
  <2> DEFINE m == x.num
             n == y.num
  <2>6. /\ (V("lt") = "true") = (m < n) /\ (V("eq") = "true") = (m = n) /\ (V("gt") = "true") = (n < m)
        /\ (V("gte") = "true") = (n < m \/ m = n) /\ (V("lte") = "true") = (m < n \/ m = n)
    <3>1. \A op \in Comparators : (V(op) = "true") = Holds(d, op, a, b)
      BY <2>4, <2>5 DEF Holds, Below, Same, Comparators
    <3>2. Below(x, y) = (m < n) /\ Below(y, x) = (n < m) /\ Same(x, y) = (m = n)
      BY <2>2 DEF Below, Same
    <3>3. /\ Holds(d, "eq", a, b) = Same(x, y) /\ Holds(d, "gt", a, b) = Below(y, x)
          /\ Holds(d, "lt", a, b) = Below(x, y) /\ Holds(d, "gte", a, b) = (Below(y, x) \/ Same(x, y))
          /\ Holds(d, "lte", a, b) = (Below(x, y) \/ Same(x, y))
      BY <2>4 DEF Holds
    <3> HIDE DEF V, x, y, m, n
    <3> QED BY <3>1, <3>2, <3>3 DEF Comparators
  <2>7. m \in Int /\ n \in Int
    BY <2>2
  <2>8. \A op \in Comparators : V(op) \in {"true", "false"}
    BY <2>5
  <2> HIDE DEF m, n, V
  <2>9. \/ m < n /\ m # n /\ ~ (n < m)
        \/ ~ (m < n) /\ m = n /\ ~ (n < m)
        \/ ~ (m < n) /\ m # n /\ n < m
    BY <2>7
  <2>10. \E op \in {"lt", "eq", "gt"} :
           \A o \in {"lt", "eq", "gt"} : V(o) = "true" <=> o = op
    BY <2>6, <2>9
  <2>11. (V("gte") = "true") # (V("lt") = "true") /\ (V("lte") = "true") # (V("gt") = "true")
    BY <2>6, <2>9
  <2> QED BY <2>8, <2>10, <2>11 DEF Comparators
<1> QED BY <1>4, <1>5, <1>6, <1>7

-----------------------------------------------------------------------------
(* A list of values that are each truthy, or not, or failed.               *)
Denied(d, vs) == [k \in 1..Len(vs) |-> EvalNot(d, <<vs[k]>>)]

LEMMA DenialOfOne ==
  ASSUME NEW d, NEW v, Truthy(d, v) \in BOOLEAN
  PROVE  LET r == EvalNot(d, <<v>>) IN
         /\ IsError(r) <=> IsError(v)
         /\ ~ IsError(v) => (Truthy(d, r) <=> ~ Truthy(d, v))
PROOF
<1> DEFINE r == EvalNot(d, <<v>>)
<1>1. SomeError(<<v>>) <=> IsError(v)
  BY DEF SomeError
<1>2. r = IF IsError(v) THEN Error ELSE Bool(~ Truthy(d, v))
  BY <1>1 DEF EvalNot
<1> QED BY <1>2, Plainly

(* A condition's list comes to what one or operator over it comes to, and  *)
(* the denied conjunction of the denials, with the same failures: the law  *)
(* of De Morgan holds with operands that are looked at from the left.      *)
THEOREM ListIsOr ==
  ASSUME NEW d, NEW n \in Nat \ {0}, NEW vs, vs = [k \in 1..n |-> vs[k]],
         \A k \in 1..n : Truthy(d, vs[k]) \in BOOLEAN
  PROVE  /\ Decision(d, vs) = Decision(d, <<EvalAndOr(d, FALSE, vs)>>)
         /\ Decision(d, vs) = Decision(d, <<EvalNot(d, <<EvalAndOr(d, TRUE, Denied(d, vs))>>)>>)
PROOF
<1> DEFINE D == {k \in 1..n : IsError(vs[k]) \/ Truthy(d, vs[k])}
           f == CHOOSE k \in D : \A l \in D : k <= l
           us == Denied(d, vs)
<1>1. vs \in Seq({vs[k] : k \in 1..n}) /\ Len(vs) = n /\ vs # <<>>
  OBVIOUS
<1>2. us = [k \in 1..n |-> EvalNot(d, <<vs[k]>>)] /\ Len(us) = n
  BY <1>1 DEF Denied
<1>3. ASSUME NEW k \in 1..n
      PROVE  /\ IsError(us[k]) <=> IsError(vs[k])
             /\ ~ IsError(vs[k]) => (Truthy(d, us[k]) <=> ~ Truthy(d, vs[k]))
             /\ Truthy(d, us[k]) \in BOOLEAN
  <2>1. us[k] = EvalNot(d, <<vs[k]>>)
    BY <1>2
  <2>2. us[k] = Error \/ \E b \in BOOLEAN : us[k] = Bool(b)
    BY <2>1 DEF EvalNot
  <2>3. Truthy(d, us[k]) \in BOOLEAN
    BY <2>2, Plainly
  <2> QED BY <2>1, <2>3, DenialOfOne
<1>4. Decision(d, vs) = IF D = {} THEN "false" ELSE IF IsError(vs[f]) THEN "error" ELSE "true"
  BY <1>1 DEF Decision
<1>5. EvalAndOr(d, FALSE, vs) = IF D = {} THEN Bool(FALSE) ELSE IF IsError(vs[f]) THEN Error ELSE Bool(TRUE)
  <2>1. {k \in 1..Len(vs) : IsError(vs[k]) \/ (Truthy(d, vs[k]) # FALSE)} = D
    BY <1>1
  <2> QED BY <2>1 DEF EvalAndOr
<1>6. EvalAndOr(d, TRUE, us) = IF D = {} THEN Bool(TRUE) ELSE IF IsError(us[f]) THEN Error ELSE Bool(FALSE)
  <2>1. {k \in 1..Len(us) : IsError(us[k]) \/ (Truthy(d, us[k]) # TRUE)} = D
    BY <1>2, <1>3
  <2> QED BY <2>1 DEF EvalAndOr
<1>7. D # {} => f \in 1..n
  BY FirstDecides
<1> DEFINE r == EvalAndOr(d, FALSE, vs)
           q == EvalAndOr(d, TRUE, us)
<1>8. Decision(d, vs) = Decision(d, <<r>>)
  BY <1>4, <1>5, OneExpression, Plainly
<1>9. q = IF D = {} THEN Bool(TRUE) ELSE IF IsError(vs[f]) THEN Error ELSE Bool(FALSE)
  BY <1>3, <1>6, <1>7
<1>10. q \in {Error, Bool(TRUE), Bool(FALSE)} /\ Truthy(d, q) \in BOOLEAN
  <2>1. q \in {Error, Bool(TRUE), Bool(FALSE)}
    BY <1>9
  <2> HIDE DEF q
  <2> QED BY <2>1, Plainly
<1>11. Decision(d, vs) = Decision(d, <<EvalNot(d, <<q>>)>>)
  <2>1. Decision(d, <<EvalNot(d, <<q>>)>>) =
          IF IsError(q) THEN "error" ELSE IF Truthy(d, q) THEN "false" ELSE "true"
    <3> HIDE DEF q
    <3> QED BY <1>10, DenialOfOne, OneExpression
  <2>2. (IsError(q) <=> D # {} /\ IsError(vs[f])) /\ (~ IsError(q) => (Truthy(d, q) <=> D = {}))
    <3> HIDE DEF D, f
    <3> QED BY <1>9, Plainly
  <2> HIDE DEF D, f, q
  <2>3. CASE D = {}
    BY <1>4, <2>1, <2>2, <2>3
  <2>4. CASE D # {}
    <3>1. CASE IsError(vs[f])
      BY <1>4, <2>1, <2>2, <2>4, <3>1
    <3>2. CASE ~ IsError(vs[f])
      BY <1>4, <2>1, <2>2, <2>4, <3>2
    <3> QED BY <3>1, <3>2
  <2> QED BY <2>3, <2>4
<1> QED BY <1>8, <1>11

-----------------------------------------------------------------------------
(* The two implementations on the same values: texts both languages read   *)
(* and measure alike, and no methods.                                      *)
OrdinaryValue(v) ==
  /\ v.kind # "function"
  /\ v.kind = "str" => v = Str(v.text) /\ OrdinaryText(v.text)

LEMMA OrdinaryNumbers ==
  ASSUME NEW v, OrdinaryValue(v)
  PROVE  Numeric("go", v) = Numeric("ts", v)
PROOF
<1>1. CASE v.kind = "str"
  BY <1>1 DEF OrdinaryValue, OrdinaryText, Numeric
<1>2. CASE v.kind # "str"
  BY <1>2 DEF Numeric, GoNumber, TsNumber
<1> QED BY <1>1, <1>2

LEMMA OrdinaryEquality ==
  ASSUME NEW a, NEW b, OrdinaryValue(a), OrdinaryValue(b), Compound(a) /\ Compound(b) => a = b
  PROVE  LooseEqual("go", a, b) = LooseEqual("ts", a, b)
PROOF
<1>1. Numeric("go", a) = Numeric("ts", a) /\ Numeric("go", b) = Numeric("ts", b)
  BY OrdinaryNumbers
<1>2. PrintedSame("go", a, b) = PrintedSame("ts", a, b)
  <2>1. CASE Compound(a) /\ Compound(b)
    BY <2>1 DEF PrintedSame
  <2>2. CASE ~ Compound(a) /\ ~ Compound(b)
    BY <2>2 DEF PrintedSame, Shown
  <2>3. ASSUME NEW v, NEW w, Compound(v), ~ Compound(w), w.kind # "function", NEW d
        PROVE  Shown(d, v) # Shown(d, w)
    <3>1. Shown(d, v) = [rendered |-> Rendered(d, v)] /\ Shown(d, w) = [bare |-> Bare(w)]
      BY <2>3 DEF Shown
    <3>2. "rendered" \in DOMAIN Shown(d, v) /\ "rendered" \notin DOMAIN Shown(d, w)
      BY <3>1
    <3> QED BY <3>2
  <2>4. CASE Compound(a) # Compound(b)
    BY <2>3, <2>4 DEF PrintedSame, OrdinaryValue, Compound
  <2> QED BY <2>1, <2>2, <2>4 DEF Compound
<1> QED BY <1>1, <1>2 DEF LooseEqual

(* condition.ts mirrors eval.go, operator by operator: on ordinary values, *)
(* of which no two that differ are printed element by element, every       *)
(* operator returns the same in both, failure included, and what it        *)
(* returns is ordinary and no such value again; and a condition is decided *)
(* alike.                                                                  *)
THEOREM OperatorsAgree ==
  ASSUME NEW n \in Nat, NEW vs, vs = [k \in 1..n |-> vs[k]],
         \A k \in 1..n : OrdinaryValue(vs[k]),
         \A i, j \in 1..n : Compound(vs[i]) /\ Compound(vs[j]) => vs[i] = vs[j]
  PROVE  /\ \A op : LET r == Applied("go", op, vs) IN
              r = Applied("ts", op, vs) /\ OrdinaryValue(r) /\ ~ Compound(r)
         /\ Decision("go", vs) = Decision("ts", vs)
PROOF
<1>1. vs \in Seq({vs[k] : k \in 1..n}) /\ Len(vs) = n
  OBVIOUS
<1>2. \A v : Truthy("go", v) = Truthy("ts", v)
  BY DEF Truthy
<1>3. ASSUME NEW op PROVE BinCmp("go", op, vs) = BinCmp("ts", op, vs)
  <2>1. n = 2 => LooseEqual("go", vs[1], vs[2]) = LooseEqual("ts", vs[1], vs[2])
    BY OrdinaryEquality
  <2> QED BY <1>1, <2>1 DEF BinCmp
<1>4. ASSUME NEW op \in {"gt", "gte", "lt", "lte"} PROVE NumCmp("go", op, vs) = NumCmp("ts", op, vs)
  <2>1. n = 2 => Numeric("go", vs[1]) = Numeric("ts", vs[1]) /\ Numeric("go", vs[2]) = Numeric("ts", vs[2])
    BY OrdinaryNumbers
  <2> QED BY <1>1, <2>1 DEF NumCmp
<1>5. EvalLen("go", vs) = EvalLen("ts", vs)
  BY <1>1 DEF EvalLen, OrdinaryValue, OrdinaryText
<1>6. ASSUME NEW isAnd PROVE EvalAndOr("go", isAnd, vs) = EvalAndOr("ts", isAnd, vs)
  BY <1>2 DEF EvalAndOr
<1>7. EvalNot("go", vs) = EvalNot("ts", vs)
  BY <1>2 DEF EvalNot
<1>8. ASSUME NEW op
      PROVE  LET r == Applied("go", op, vs) IN
             r = Applied("ts", op, vs) /\ OrdinaryValue(r) /\ ~ Compound(r)
  <2>1. Applied("go", op, vs) = Applied("ts", op, vs)
    BY <1>3, <1>4, <1>5, <1>6, <1>7 DEF Applied
  <2>2. \A b, m : /\ OrdinaryValue(Error) /\ ~ Compound(Error)
                  /\ OrdinaryValue(Bool(b)) /\ ~ Compound(Bool(b))
                  /\ OrdinaryValue(Num(m)) /\ ~ Compound(Num(m))
    BY DEF OrdinaryValue, Compound, Error, Bool, Num
  <2> DEFINE r == Applied("go", op, vs)
  <2>3. r = Error \/ (\E b \in BOOLEAN : r = Bool(b)) \/ (\E m : r = Num(m))
    BY Results
  <2> HIDE DEF r
  <2>4. OrdinaryValue(r) /\ ~ Compound(r)
    BY <2>2, <2>3
  <2> QED BY <2>1, <2>4 DEF r
<1>9. Decision("go", vs) = Decision("ts", vs)
  BY <1>2 DEF Decision
<1> QED BY <1>8, <1>9

(* A condition that is a list is neither absent nor null.                  *)
LEMMA ListParsed ==
  ASSUME NEW d, NEW y, ~ IsError(ParseCondition(y))
  PROVE  BranchCondition(d, y) = ParseCondition(y)
PROOF
<1>1. y.node = "sequence"
  BY DEF ParseCondition, IsError, Error
<1>2. y # Absent /\ ~ NullCondition(y)
  BY <1>1 DEF Absent, NullCondition
<1> QED BY <1>2 DEF BranchCondition

-----------------------------------------------------------------------------
(* The specification: what is decided upon, and how.                       *)
Choice ==
  /\ payload \in Payloads
  /\ \/ rows = <<>> /\ yaml \in Conditions
     \/ rows \in RowLists /\ yaml = RowsToYAML(rows)
  /\ Decided => \A d \in Dialects : verdicts[d] = Verdict(d, yaml, payload)
  /\ Decided /\ rows # <<>> => verdicts["rows"] = Evaluate("ts", RowsToCondition(rows), payload)

THEOREM ChoicesHold == Spec => []Choice
PROOF
<1>1. Init => Choice
  BY DEF Init, Choice, Decided
<1>2. Choice /\ [Decide]_vars => Choice'
  <2> SUFFICES ASSUME Choice, [Decide]_vars PROVE Choice'
    OBVIOUS
  <2>1. CASE Decide
    BY <2>1 DEF Choice, Decide, Users, Dialects
  <2>2. CASE UNCHANGED vars
    BY <2>2 DEF Choice, Decided, vars
  <2> QED BY <2>1, <2>2
<1> QED BY <1>1, <1>2, PTL DEF Spec

LEMMA ChosenYaml ==
  ASSUME Choice PROVE yaml \in Yamls
BY DEF Choice, Yamls

(* An expression that was parsed, and what its operands are worth.         *)
LEMMA ParsedShape ==
  ASSUME NEW y, ~ IsError(ParseOpExpr(y))
  PROVE  \E op, os : ParseOpExpr(y) = [kind |-> "expr", op |-> op, operands |-> os]
BY DEF ParseOpExpr, IsError, Error

LEMMA Operators ==
  ASSUME NEW d, NEW e, NEW p, e.op # "exists"
  PROVE  EvalOp(d, e, p) = Applied(d, e.op, [k \in 1..Len(e.operands) |-> EvalOperand(d, e.operands[k], p)])
BY DEF EvalOp

LEMMA OneEvaluated ==
  ASSUME NEW d, NEW p, NEW e
  PROVE  Evaluate(d, <<e>>, p) = Decision(d, <<EvalOp(d, e, p)>>)
PROOF
<1>1. [k \in 1..Len(<<e>>) |-> EvalOp(d, <<e>>[k], p)] = <<EvalOp(d, e, p)>>
  OBVIOUS
<1> QED BY <1>1 DEF Evaluate

LEMMA TwoCompared ==
  ASSUME NEW d, NEW p, NEW op \in Comparators, NEW e, e.op = op, Len(e.operands) = 2
  PROVE  Evaluate(d, <<e>>, p) =
           Comparing(d, op, EvalOperand(d, e.operands[1], p), EvalOperand(d, e.operands[2], p))
PROOF
<1> DEFINE os == e.operands
<1>1. [k \in 1..2 |-> EvalOperand(d, os[k], p)] = <<EvalOperand(d, os[1], p), EvalOperand(d, os[2], p)>>
  OBVIOUS
<1>2. EvalOp(d, e, p) = Applied(d, op, [k \in 1..2 |-> EvalOperand(d, os[k], p)])
  BY Operators DEF Comparators
<1> QED BY <1>1, <1>2, OneEvaluated DEF Comparing

LEMMA ReversedPair ==
  ASSUME NEW s, Len(s) = 2
  PROVE  LET r == Reverse(s) IN Len(r) = 2 /\ r[1] = s[2] /\ r[2] = s[1]
PROOF
<1>1. Reverse(s) = [k \in 1..2 |-> s[(2 - k) + 1]]
  BY DEF Reverse
<1>2. Reverse(s) = <<s[2], s[1]>>
  BY <1>1
<1> QED BY <1>2

(* Whatever two operands a condition compares, the six comparators are one *)
(* order on them.                                                          *)
THEOREM ConditionsOrdered == Spec => []ComparatorsAreOneOrder
PROOF
<1>1. ASSUME Choice PROVE ComparatorsAreOneOrder
  <2> SUFFICES ASSUME Comparison(yaml), NEW d \in Dialects
               PROVE  LET V(op) == Evaluate(d, As(yaml, op), payload)
                          R(op) == Evaluate(d, Swapped(As(yaml, op)), payload)
                      IN /\ \A op \in {"gte", "lt", "lte"} : V(op) = "error" <=> V("gt") = "error"
                         /\ V("gt") = R("lt") /\ V("eq") = R("eq")
                         /\ V("eq") # "error" => V("neq") # V("eq")
                         /\ V("gt") # "error" /\ ~ ReadsNaN(d) =>
                              /\ Cardinality({op \in {"lt", "eq", "gt"} : V(op) = "true"}) = 1
                              /\ V("gte") # V("lt") /\ V("lte") # V("gt")
    BY DEF ComparatorsAreOneOrder
  <2> DEFINE V(op) == Evaluate(d, As(yaml, op), payload)
             R(op) == Evaluate(d, Swapped(As(yaml, op)), payload)
             e == ParseOpExpr(yaml.items[1])
             os == e.operands
             a == EvalOperand(d, os[1], payload)
             b == EvalOperand(d, os[2], payload)
             C(op) == Comparing(d, op, a, b)
  <2>1. Len(os) = 2 /\ ~ IsError(e) /\ \E o, s : e = [kind |-> "expr", op |-> o, operands |-> s]
    BY ParsedShape DEF Comparison
  <2>2. \A op : LET x == [e EXCEPT !.op = op] IN
           As(yaml, op) = <<x>> /\ x.op = op /\ x.operands = os
    BY <2>1 DEF As
  <2>3. \A op : \E x : Swapped(As(yaml, op)) = <<x>> /\ x.op = op /\ x.operands = Reverse(os)
    <3> TAKE op
    <3> DEFINE x == [e EXCEPT !.op = op]
    <3>1. As(yaml, op) = <<x>> /\ x.op = op /\ x.operands = os
          /\ \E o, s : x = [kind |-> "expr", op |-> o, operands |-> s]
      <4>1. PICK o, s : e = [kind |-> "expr", op |-> o, operands |-> s]
        BY <2>1
      <4>2. x = [kind |-> "expr", op |-> op, operands |-> s]
        BY <4>1
      <4> QED BY <2>2, <4>2
    <3> HIDE DEF x, os
    <3>2. Swapped(<<x>>) = <<[x EXCEPT !.operands = Reverse(@)]>>
      BY DEF Swapped
    <3> QED BY <3>1, <3>2
  <2>4. \A op \in Comparators : V(op) = C(op)
    BY <2>1, <2>2, TwoCompared
  <2>5. \A op \in Comparators : R(op) = Comparing(d, op, b, a)
    <3> TAKE op \in Comparators
    <3>1. PICK x : Swapped(As(yaml, op)) = <<x>> /\ x.op = op /\ x.operands = Reverse(os)
      BY <2>3
    <3>2. Len(x.operands) = 2 /\ x.operands[1] = os[2] /\ x.operands[2] = os[1]
      BY <2>1, <3>1, ReversedPair
    <3> QED BY <3>1, <3>2, TwoCompared
  <2>6. Readable(d, a) /\ Readable(d, b)
    <3>1. yaml \in Yamls /\ payload \in Payloads
      BY <1>1, ChosenYaml DEF Choice
    <3>2. \A k \in 1..2 : Readable(d, EvalOperand(d, os[k], payload))
      BY <3>1, OperandAssumption DEF Readable
    <3> QED BY <3>2
  <2>7. ~ ReadsNaN(d) => NaN \notin {Numeric(d, a), Numeric(d, b)}
    <3>1. As(yaml, "eq")[1].operands = os
      <4>1. PICK x : As(yaml, "eq") = <<x>> /\ x.operands = os
        BY <2>2
      <4> HIDE DEF os
      <4> QED BY <4>1
    <3> HIDE DEF os
    <3> QED BY <3>1 DEF ReadsNaN
  <2> HIDE DEF V, R, a, b
  <2>8. /\ \A op \in {"gte", "lt", "lte"} : C(op) = "error" <=> C("gt") = "error"
        /\ C("gt") = Comparing(d, "lt", b, a) /\ C("eq") = Comparing(d, "eq", b, a)
        /\ C("eq") # "error" => C("neq") # C("eq")
        /\ C("gt") # "error" /\ NaN \notin {Numeric(d, a), Numeric(d, b)} =>
             /\ \E op \in {"lt", "eq", "gt"} : \A o \in {"lt", "eq", "gt"} : C(o) = "true" <=> o = op
             /\ C("gte") # C("lt") /\ C("lte") # C("gt")
    BY <2>6, ComparatorsOrder
  <2> HIDE DEF C
  <2>9. ASSUME V("gt") # "error", ~ ReadsNaN(d)
        PROVE  Cardinality({op \in {"lt", "eq", "gt"} : V(op) = "true"}) = 1
    <3>1. PICK op \in {"lt", "eq", "gt"} : \A o \in {"lt", "eq", "gt"} : C(o) = "true" <=> o = op
      BY <2>4, <2>7, <2>8, <2>9 DEF Comparators
    <3>2. {o \in {"lt", "eq", "gt"} : V(o) = "true"} = {op}
      BY <2>4, <3>1 DEF Comparators
    <3> QED BY <3>2, FS_Singleton
  <2>10. V("gt") # "error" /\ ~ ReadsNaN(d) => V("gte") # V("lt") /\ V("lte") # V("gt")
    BY <2>4, <2>7, <2>8 DEF Comparators
  <2>11. /\ \A op \in {"gte", "lt", "lte"} : V(op) = "error" <=> V("gt") = "error"
         /\ V("gt") = R("lt") /\ V("eq") = R("eq")
         /\ V("eq") # "error" => V("neq") # V("eq")
    BY <2>4, <2>5, <2>8 DEF Comparators
  <2> QED BY <2>9, <2>10, <2>11 DEF V, R
<1> QED BY <1>1, ChoicesHold, PTL

-----------------------------------------------------------------------------
LEMMA EvaluatedIs ==
  ASSUME NEW d, NEW e, NEW p
  PROVE  Truthy(d, EvalOp(d, e, p)) \in BOOLEAN
PROOF
<1> DEFINE r == EvalOp(d, e, p)
<1>1. r = Error \/ (\E b \in BOOLEAN : r = Bool(b)) \/ (\E n : r = Num(n))
  <2>1. CASE e.op = "exists"
    <3>1. r = EvalExists(d, e, p)
      BY <2>1 DEF EvalOp
    <3> HIDE DEF r
    <3> QED BY <3>1 DEF EvalExists
  <2>2. CASE e.op # "exists"
    <3> DEFINE vs == [k \in 1..Len(e.operands) |-> EvalOperand(d, e.operands[k], p)]
    <3>1. r = Applied(d, e.op, vs)
      BY <2>2, Operators
    <3> HIDE DEF r, vs
    <3> QED BY <3>1, Results
  <2> QED BY <2>1, <2>2
<1> HIDE DEF r
<1> QED BY <1>1, Plainly DEF r

IsList(s, n) == s = [k \in 1..n |-> s[k]]

LEMMA ListLength ==
  ASSUME NEW n \in Nat, NEW s, IsList(s, n)
  PROVE  Len(s) = n
BY DEF IsList

(* An operator over expressions that are worth within it what they are     *)
(* worth alone.                                                            *)
LEMMA OverExpressions ==
  ASSUME NEW d, NEW p, NEW op, op # "exists", NEW n \in Nat, NEW es, IsList(es, n),
         \A k \in 1..n : ~ IsError(es[k]) /\ EvaluatedInside(d, es[k], p) = EvalOp(d, es[k], p),
         NEW vs, IsList(vs, n), \A k \in 1..n : vs[k] = EvalOp(d, es[k], p)
  PROVE  EvalOp(d, Expr(op, es), p) = Applied(d, op, vs)
PROOF
<1> DEFINE os == [k \in 1..n |-> OfOp(es[k])]
<1>1. Len(es) = n /\ Len(os) = n
  BY DEF IsList
<1>2. Expr(op, es) = [kind |-> "expr", op |-> op, operands |-> os]
  BY <1>1 DEF Expr
<1>3. ASSUME NEW k \in 1..n PROVE EvalOperand(d, os[k], p) = EvalOp(d, es[k], p)
  <2>1. os[k] = [kind |-> "op", op |-> es[k]]
    BY DEF OfOp
  <2> HIDE DEF os
  <2> QED BY <2>1 DEF EvalOperand
<1> HIDE DEF os
<1>4. EvalOp(d, Expr(op, es), p) = Applied(d, op, [k \in 1..n |-> EvalOperand(d, os[k], p)])
  BY <1>1, <1>2, Operators
<1>5. [k \in 1..n |-> EvalOperand(d, os[k], p)] = vs
  BY <1>3 DEF IsList
<1> QED BY <1>4, <1>5

LEMMA OverOne ==
  ASSUME NEW d, NEW p, NEW e, ~ IsError(e), EvaluatedInside(d, e, p) = EvalOp(d, e, p)
  PROVE  EvalOp(d, Expr("not", <<e>>), p) = EvalNot(d, <<EvalOp(d, e, p)>>)
PROOF
<1> DEFINE one == <<e>>
           ws  == [i \in 1..1 |-> EvalOp(d, one[i], p)]
<1>1. IsList(one, 1) /\ \A i \in 1..1 : one[i] = e
  BY DEF IsList
<1>2. ws = <<EvalOp(d, e, p)>>
  OBVIOUS
<1> HIDE DEF one
<1>3. EvalOp(d, Expr("not", one), p) = Applied(d, "not", ws)
  <2>1. \A i \in 1..1 : ~ IsError(one[i]) /\ EvaluatedInside(d, one[i], p) = EvalOp(d, one[i], p)
    BY <1>1
  <2>2. 1 \in Nat /\ "not" # "exists"
    OBVIOUS
  <2>3. IsList(ws, 1) /\ \A i \in 1..1 : ws[i] = EvalOp(d, one[i], p)
    BY DEF IsList
  <2> HIDE DEF ws
  <2> QED BY <1>1, <2>1, <2>2, <2>3, OverExpressions
<1> HIDE DEF ws
<1>4. EvalOp(d, Expr("not", one), p) = EvalNot(d, ws)
  BY <1>3 DEF Applied
<1> QED BY <1>2, <1>4 DEF one

LEMMA ParsedList ==
  ASSUME Choice, ~ IsError(ParseCondition(yaml)), ParseCondition(yaml).exprs # <<>>
  PROVE  LET es == ParseCondition(yaml).exprs IN
         \E n \in Nat \ {0} : /\ es = [k \in 1..n |-> es[k]] /\ Len(es) = n
                              /\ \A k \in 1..n : ~ IsError(es[k])
PROOF
<1> DEFINE n == Len(yaml.items)
           xs == [k \in 1..n |-> ParseOpExpr(yaml.items[k])]
<1>1. yaml.node = "sequence" /\ ~ SomeError(xs) /\ ParseCondition(yaml).exprs = xs
  BY DEF ParseCondition, IsError, Error
<1>2. n \in Nat
  <2>1. CASE rows = <<>> /\ yaml \in Conditions
    BY <1>1, <2>1, NodeAssumption
  <2>2. CASE rows \in RowLists /\ yaml = RowsToYAML(rows)
    <3>1. rows \in Seq(Row) /\ Len(rows) \in Nat
      BY <2>2, RowAssumption
    <3> DEFINE ys == [k \in 1..Len(rows) |-> RowLine(rows[k])]
    <3>2. Len(ys) \in Nat
      BY <3>1
    <3> HIDE DEF ys
    <3>3. yaml.items = ys \/ yaml.items = <<Mapping("and", Sequence(ys))>>
      BY <1>1, <2>2 DEF RowsToYAML, Unreadable, Sequence, ys
    <3> QED BY <3>2, <3>3
  <2> QED BY <2>1, <2>2 DEF Choice
<1>3. Len(xs) = n /\ xs = [k \in 1..n |-> xs[k]]
  BY <1>2
<1>4. n # 0
  <2>1. n = 0 => xs = <<>>
    OBVIOUS
  <2> QED BY <1>1, <2>1
<1>5. \A k \in 1..n : ~ IsError(xs[k])
  BY <1>1, <1>3 DEF SomeError
<1> HIDE DEF xs, n
<1> QED BY <1>1, <1>2, <1>3, <1>4, <1>5

(* The list of a condition is an implicit or, and De Morgan's law holds of *)
(* it, failures included.                                                  *)
THEOREM ListsAreOr == Spec => []TopLevelIsOr
PROOF
<1>1. ASSUME Choice PROVE TopLevelIsOr
  <2> DEFINE es == ParseCondition(yaml).exprs
             p == payload
             all == Expr("and", Denials(es))
  <2> SUFFICES ASSUME Decided, ~ IsError(ParseCondition(yaml)), es # <<>>, NEW d \in Dialects
               PROVE  /\ verdicts[d] = Evaluate(d, <<Expr("or", es)>>, p)
                      /\ verdicts[d] = Evaluate(d, <<Expr("not", <<all>>)>>, p)
    BY DEF TopLevelIsOr
  <2>1. PICK n \in Nat \ {0} : /\ es = [k \in 1..n |-> es[k]] /\ Len(es) = n
                               /\ \A k \in 1..n : ~ IsError(es[k])
    BY <1>1, ParsedList
  <2> DEFINE ds == Denials(es)
             vs == [k \in 1..n |-> EvalOp(d, es[k], p)]
  <2>2. verdicts[d] = Decision(d, vs)
    <3>1. verdicts[d] = Evaluate(d, es, p)
      BY <1>1, ListParsed DEF Choice, Verdict
    <3> HIDE DEF es
    <3> QED BY <2>1, <3>1 DEF Evaluate
  <2>3. /\ \A k \in 1..n : EvaluatedInside(d, es[k], p) = EvalOp(d, es[k], p)
        /\ \A k \in 1..n : EvaluatedInside(d, ds[k], p) = EvalOp(d, ds[k], p)
        /\ EvaluatedInside(d, all, p) = EvalOp(d, all, p)
    <3>1. yaml \in Yamls /\ p \in Payloads
      BY <1>1, ChosenYaml DEF Choice
    <3>2. \A e \in ToSet(es) \cup ToSet(ds) \cup {all} : EvaluatedInside(d, e, p) = EvalOp(d, e, p)
      BY <3>1, EvaluatorAssumption
    <3>3. ds = [k \in 1..n |-> Expr("not", <<es[k]>>)]
      BY <2>1 DEF Denials
    <3> HIDE DEF es, ds, all
    <3>4. \A k \in 1..n : es[k] \in ToSet(es) /\ ds[k] \in ToSet(ds)
      BY <2>1, <3>3 DEF ToSet
    <3> QED BY <3>2, <3>4
  <2>4. ds = [k \in 1..n |-> Expr("not", <<es[k]>>)] /\ ~ IsError(all)
        /\ \A k \in 1..n : ~ IsError(ds[k])
    BY <2>1 DEF Denials, Expr, IsError
  <2> HIDE DEF es, ds, all, vs
  <2>5. EvalOp(d, Expr("or", es), p) = EvalAndOr(d, FALSE, vs)
    <3>1. IsList(es, n) /\ IsList(vs, n) /\ \A k \in 1..n : vs[k] = EvalOp(d, es[k], p)
      BY <2>1 DEF IsList, vs
    <3>2. EvalOp(d, Expr("or", es), p) = Applied(d, "or", vs)
      BY <2>1, <2>3, <3>1, OverExpressions
    <3> QED BY <3>2 DEF Applied
  <2>6. ASSUME NEW k \in 1..n PROVE EvalOp(d, ds[k], p) = EvalNot(d, <<vs[k]>>)
    <3>1. EvalOp(d, Expr("not", <<es[k]>>), p) = EvalNot(d, <<EvalOp(d, es[k], p)>>)
      BY <2>1, <2>3, OverOne
    <3> QED BY <2>4, <3>1 DEF vs
  <2>7. EvalOp(d, all, p) = EvalAndOr(d, TRUE, Denied(d, vs))
    <3>1. [k \in 1..n |-> EvalOp(d, ds[k], p)] = Denied(d, vs)
      <4>1. Len(vs) = n
        BY DEF vs
      <4> QED BY <2>6, <4>1 DEF Denied
    <3>2. IsList(ds, n)
      BY <2>4 DEF IsList
    <3> DEFINE us == Denied(d, vs)
    <3>3. IsList(us, n) /\ \A k \in 1..n : us[k] = EvalOp(d, ds[k], p)
      BY <3>1 DEF IsList
    <3> HIDE DEF us
    <3>4. /\ n \in Nat /\ "and" # "exists"
          /\ \A k \in 1..n : ~ IsError(ds[k]) /\ EvaluatedInside(d, ds[k], p) = EvalOp(d, ds[k], p)
      BY <2>3, <2>4
    <3>5. EvalOp(d, Expr("and", ds), p) = Applied(d, "and", us)
      BY <3>2, <3>3, <3>4, OverExpressions
    <3> QED BY <3>5 DEF Applied, all, ds, us
  <2>8. EvalOp(d, Expr("not", <<all>>), p) = EvalNot(d, <<EvalOp(d, all, p)>>)
    BY <2>3, <2>4, OverOne
  <2>9. /\ Decision(d, vs) = Decision(d, <<EvalAndOr(d, FALSE, vs)>>)
        /\ Decision(d, vs) = Decision(d, <<EvalNot(d, <<EvalAndOr(d, TRUE, Denied(d, vs))>>)>>)
    <3>1. vs = [k \in 1..n |-> vs[k]] /\ \A k \in 1..n : Truthy(d, vs[k]) \in BOOLEAN
      BY EvaluatedIs DEF vs
    <3> QED BY <3>1, ListIsOr
  <2> QED BY <2>2, <2>5, <2>7, <2>8, <2>9, OneEvaluated
<1> QED BY <1>1, ChoicesHold, PTL

-----------------------------------------------------------------------------
(* What is read of a scalar node.                                          *)
LEMMA ScalarsRead ==
  /\ \A v : ~ IsError(Literal(v)) /\ ~ IsError(Path(v))
  /\ \A style, v : Scalar(style, v).node = "scalar"
  /\ \A v : v.kind # "str" => ScalarOperand(Scalar("plain", v)) = Literal(v)
  /\ \A s : s # "" => ScalarOperand(Scalar("plain", Str(s))) = Path(s)
  /\ \A v : ScalarOperand(Scalar("quoted", v)) = Literal(v)
BY DEF IsError, Literal, Path, Scalar, ScalarOperand, Str

(* A tidy row's line in the preview is parsed into the row's expression.   *)
LEMMA LineParsed ==
  ASSUME NEW rs \in RowLists, NEW k \in 1..Len(rs), Tidy(rs[k])
  PROVE  ParseOpExpr(RowLine(rs[k])) = RowToOpExpr(rs[k])
PROOF
<1> DEFINE r == rs[k]
<1>0. Tidy(r)
  OBVIOUS
<1>1. r \in Row
  BY RowAssumption
<1>2. r.path # "" /\ Plain(r.path) = <<Scalar("plain", Str(r.path))>>
  BY <1>0 DEF Tidy, FieldName, Plain
<1>3. PICK y : /\ FormatValue(r) = <<y>> /\ y.node = "scalar" /\ ScalarOperand(y) = OperandFromRow(r)
               /\ ~ IsError(OperandFromRow(r))
  <2> HIDE DEF r
  <2>1. CASE r.kind = "path"
    <3>1. r.value # "" /\ FormatValue(r) = <<Scalar("plain", Str(r.value))>>
      BY <1>0, <2>1 DEF Tidy, FieldName, FormatValue, Plain
    <3>2. OperandFromRow(r) = Path(r.value)
      BY <2>1 DEF OperandFromRow
    <3> QED BY <3>1, <3>2, ScalarsRead
  <2>2. CASE r.kind = "number"
    <3>1. r.value \notin Infinite \cup {""} /\ Resolved(r.value).kind = "num"
      BY <1>0, <2>2 DEF Tidy
    <3>2. Number(r.value) = Resolved(r.value) /\ Number(r.value) # NaN
      <4>1. Number(r.value) = Resolved(r.value)
        BY <3>1, ScalarAssumption DEF r
      <4>2. NaN.kind # "num"
        BY DEF NaN
      <4> QED BY <3>1, <4>1, <4>2
    <3>3. FormatValue(r) = <<Scalar("plain", Resolved(r.value))>>
      BY <2>2, <3>1 DEF FormatValue, Plain
    <3>4. OperandFromRow(r) = Literal(Resolved(r.value))
      BY <2>2, <3>1, <3>2 DEF OperandFromRow
    <3> QED BY <3>1, <3>3, <3>4, ScalarsRead
  <2>3. CASE r.kind = "boolean"
    <3>1. r.value \in {"true", "false"}
      BY <1>0, <2>3 DEF Tidy
    <3> DEFINE b == Bool(r.value = "true")
    <3>2. FormatValue(r) = <<Scalar("plain", b)>>
      BY <2>3, <3>1, ScalarAssumption DEF FormatValue, Plain
    <3>3. OperandFromRow(r) = Literal(b) /\ b.kind # "str"
      BY <2>3 DEF OperandFromRow, Bool
    <3> HIDE DEF b
    <3> QED BY <3>2, <3>3, ScalarsRead
  <2>4. CASE r.kind = "string"
    <3>1. FormatValue(r) = <<Scalar("quoted", Str(r.value))>> /\ OperandFromRow(r) = Literal(Str(r.value))
      BY <2>4 DEF FormatValue, OperandFromRow
    <3> QED BY <3>1, ScalarsRead
  <2> QED BY <1>1, <2>1, <2>2, <2>3, <2>4 DEF Row
<1> HIDE DEF r
<1> DEFINE x == Scalar("plain", Str(r.path))
           ys == <<x, y>>
<1>4. ParseOperand(x) = Path(r.path) /\ ~ IsError(Path(r.path))
  BY <1>2, ScalarsRead DEF ParseOperand
<1>5. ParseOperand(y) = OperandFromRow(r)
  BY <1>3 DEF ParseOperand
<1>6. RowLine(r) = Mapping(r.op, Sequence(ys))
  <2>1. ASSUME NEW u, NEW v PROVE <<u>> \o <<v>> = <<u, v>>
    <3> DEFINE w == <<u>> \o <<v>>
    <3>1. <<u>> \in Seq({u, v}) /\ <<v>> \in Seq({u, v}) /\ Len(<<u>>) = 1 /\ Len(<<v>>) = 1
      OBVIOUS
    <3>2. w \in Seq({u, v}) /\ Len(w) = 2 /\ w[1] = u /\ w[2] = v
      BY <3>1, ConcatProperties
    <3> HIDE DEF w
    <3>3. w = <<u, v>>
      BY <3>2
    <3> QED BY <3>3 DEF w
  <2>2. Plain(r.path) \o FormatValue(r) = ys
    BY <1>2, <1>3, <2>1
  <2> QED BY <2>2 DEF RowLine
<1> HIDE DEF x
<1> DEFINE os == [i \in 1..Len(ys) |-> ParseOperand(ys[i])]
<1>7. os = <<Path(r.path), OperandFromRow(r)>>
  BY <1>4, <1>5
<1>8. ~ SomeError(os)
  BY <1>3, <1>4, <1>7 DEF SomeError
<1>9. ParseOperandList(Sequence(ys)) = os
  BY DEF ParseOperandList, Sequence
<1> HIDE DEF os, ys
<1>10. ParseOpExpr(Mapping(r.op, Sequence(ys))) = [kind |-> "expr", op |-> r.op, operands |-> os]
  <2> DEFINE z == Sequence(ys)
  <2> HIDE DEF z
  <2>1. LET m == Mapping(r.op, z) IN
        m.node = "mapping" /\ Len(m.items) = 1 /\ m.items[1][1] = r.op /\ m.items[1][2] = z
    BY DEF Mapping
  <2> QED BY <1>8, <1>9, <2>1 DEF ParseOpExpr, z
<1> QED BY <1>6, <1>7, <1>10 DEF RowToOpExpr, r

LEMMA OneParsed ==
  ASSUME NEW y, ~ IsError(ParseOpExpr(y))
  PROVE  ParseCondition(Sequence(<<y>>)) = [kind |-> "exprs", exprs |-> <<ParseOpExpr(y)>>]
PROOF
<1>1. Sequence(<<y>>).node = "sequence" /\ Sequence(<<y>>).items = <<y>>
  BY DEF Sequence
<1>2. [k \in 1..Len(<<y>>) |-> ParseOpExpr(<<y>>[k])] = <<ParseOpExpr(y)>>
  OBVIOUS
<1>3. ~ SomeError(<<ParseOpExpr(y)>>)
  BY DEF SomeError
<1> QED BY <1>1, <1>2, <1>3 DEF ParseCondition

(* The preview of tidy rows parses into what the simulator runs.           *)
LEMMA PreviewParsed ==
  ASSUME NEW rs \in RowLists, \A k \in 1..Len(rs) : Tidy(rs[k])
  PROVE  ParseCondition(RowsToYAML(rs)) = [kind |-> "exprs", exprs |-> RowsToCondition(rs)]
PROOF
<1> DEFINE n == Len(rs)
           ys == [k \in 1..n |-> RowLine(rs[k])]
           os == [k \in 1..n |-> OfOp(RowToOpExpr(rs[k]))]
<1>1. n \in Nat \ {0} /\ ~ \E k \in 1..n : rs[k].path = ""
  <2>1. rs \in Seq(Row) /\ rs # <<>>
    BY RowAssumption
  <2>2. \A k \in 1..n : rs[k].path # ""
    BY DEF Tidy, FieldName
  <2>3. n \in Nat /\ n # 0
    BY <2>1, EmptySeq
  <2> QED BY <2>2, <2>3
<1>2. \A k \in 1..n : ParseOpExpr(RowLine(rs[k])) = RowToOpExpr(rs[k]) /\ ~ IsError(RowToOpExpr(rs[k]))
  <2>1. \A r : ~ IsError(RowToOpExpr(r))
    BY DEF RowToOpExpr, IsError
  <2>2. ASSUME NEW k \in 1..n PROVE ParseOpExpr(RowLine(rs[k])) = RowToOpExpr(rs[k])
    BY LineParsed
  <2>3. \A k \in 1..n : ~ IsError(RowToOpExpr(rs[k]))
    BY <2>1
  <2> HIDE DEF n, ys, os
  <2> QED BY <2>2, <2>3
<1>3. Len(ys) = n /\ Len(os) = n
  <2>1. IsList(ys, n) /\ IsList(os, n)
    BY DEF IsList
  <2> HIDE DEF ys, os, n
  <2> QED BY <1>1, <2>1, ListLength
<1>4. CASE n = 1
  <2>1. RowsToYAML(rs) = Sequence(ys) /\ RowsToCondition(rs) = <<RowToOpExpr(rs[1])>>
    BY <1>1, <1>4 DEF RowsToYAML, RowsToCondition
  <2>2. ys = <<RowLine(rs[1])>>
    BY <1>4
  <2> QED BY <1>2, <1>4, <2>1, <2>2, OneParsed
<1>5. CASE n # 1
  <2> DEFINE z == Sequence(ys)
             y == Mapping("and", z)
             e == [kind |-> "expr", op |-> "and", operands |-> os]
  <2>1. RowsToYAML(rs) = Sequence(<<y>>) /\ RowsToCondition(rs) = <<e>>
    BY <1>1, <1>5 DEF RowsToYAML, RowsToCondition
  <2>2. ParseOperandList(z) = os
    <3>1. z.node = "sequence" /\ z.items = ys
      BY DEF Sequence
    <3>2. ASSUME NEW k \in 1..n PROVE ParseOperand(ys[k]) = OfOp(RowToOpExpr(rs[k]))
      <4>1. ys[k] = RowLine(rs[k]) /\ RowLine(rs[k]).node = "mapping"
        BY DEF RowLine, Mapping
      <4>2. ParsedInside(ys[k]) = RowToOpExpr(rs[k])
        BY <1>2, <4>1, ParserAssumption
      <4> HIDE DEF ys
      <4> QED BY <4>1, <4>2 DEF ParseOperand
    <3> HIDE DEF ys, z
    <3> QED BY <1>3, <3>1, <3>2 DEF ParseOperandList
  <2>3. ~ SomeError(os)
    <3>1. Len(os) = n /\ \A k \in 1..n : ~ IsError(os[k])
      <4>1. \A x : ~ IsError(x) => ~ IsError(OfOp(x))
        BY DEF OfOp, IsError
      <4>2. Len(os) = n /\ \A k \in 1..n : os[k] = OfOp(RowToOpExpr(rs[k]))
        BY <1>3
      <4> HIDE DEF os
      <4> QED BY <1>2, <4>1, <4>2
    <3> HIDE DEF os
    <3> QED BY <3>1 DEF SomeError
  <2> HIDE DEF z, os
  <2>4. y.node = "mapping" /\ Len(y.items) = 1 /\ y.items[1][1] = "and" /\ y.items[1][2] = z
    BY DEF Mapping
  <2>5. ParseOpExpr(y) = e
    <3> HIDE DEF y
    <3> QED BY <2>2, <2>3, <2>4 DEF ParseOpExpr
  <2>6. ~ IsError(e)
    BY DEF IsError
  <2> HIDE DEF y, e
  <2> QED BY <2>1, <2>5, <2>6, OneParsed
<1> QED BY <1>4, <1>5

(* The preview of tidy rows is decided upon as the simulator decides upon  *)
(* the rows, for any texts and payload: both evaluate the same expression. *)
THEOREM PreviewsMeanTheSame == Spec => []PreviewMeansTheSame
PROOF
<1>1. ASSUME Choice PROVE PreviewMeansTheSame
  <2> SUFFICES ASSUME Decided, rows # <<>>, \A k \in 1..Len(rows) : Tidy(rows[k])
               PROVE  verdicts["ts"] = verdicts["rows"]
    BY DEF PreviewMeansTheSame
  <2>1. rows \in RowLists /\ yaml = RowsToYAML(rows)
    BY <1>1 DEF Choice
  <2>2. ParseCondition(yaml) = [kind |-> "exprs", exprs |-> RowsToCondition(rows)]
    BY <2>1, PreviewParsed
  <2>3. verdicts["ts"] = Verdict("ts", yaml, payload)
        /\ verdicts["rows"] = Evaluate("ts", RowsToCondition(rows), payload)
    BY <1>1 DEF Choice, Dialects
  <2>4. BranchCondition("ts", yaml) = ParseCondition(yaml)
    BY <2>2, ListParsed DEF IsError
  <2> QED BY <2>2, <2>3, <2>4 DEF Verdict, IsError
<1> QED BY <1>1, ChoicesHold, PTL
=============================================================================
