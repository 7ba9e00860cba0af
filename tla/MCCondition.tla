----------------------------- MODULE MCCondition -----------------------------
(***************************************************************************)
(* Every comparison of two values, and conditions of every shape the       *)
(* parsers accept or refuse, against payloads with two fields v and w.     *)
(***************************************************************************)
EXTENDS ConditionAgreement

Huge == 1000   \* stands for an infinite number

(* The texts, and what the two languages make of them; "accents" stands    *)
(* for three letters of two bytes each.                                    *)
GoNumerals ==
  [s \in {"3", "3.0", "NaN"} |-> IF s = "NaN" THEN NaN ELSE Num(3)]
JsNumerals ==
  [s \in {"3", "3.0", " 3 ", "", "1e400"} |->
     Num(CASE s = "" -> 0 [] s = "1e400" -> Huge [] OTHER -> 3)]
MCParseFloat(s) == IF s \in DOMAIN GoNumerals THEN GoNumerals[s] ELSE Nil
MCNumber(s)     == IF s \in DOMAIN JsNumerals THEN JsNumerals[s] ELSE NaN
MCUnits(s) == IF s = "accents" THEN 3 ELSE Len(s)
MCBytes(s) == IF s = "accents" THEN 6 ELSE Len(s)

MCKeys(path) ==
  CASE path = "v.a"      -> <<"v", "a">>
    [] path = "v.0"      -> <<"v", "0">>
    [] path = "v.length" -> <<"v", "length">>
    [] path = "v.toString" -> <<"v", "toString">>
    [] OTHER             -> <<path>>

-----------------------------------------------------------------------------
Constant(v) == Scalar("plain", v)
Name(s)     == Constant(Str(s))
Quoted(s)   == Scalar("quoted", Str(s))
Apply(op, ys) == Mapping(op, Sequence(ys))

V == Name("v")
W == Name("w")
Three == Constant(Num(3))

Values ==
  {Nil, Bool(TRUE), Bool(FALSE), Num(0), Num(1), Num(3),
   Str("3"), Str("3.0"), Str(""), Str("abc"), Str("true"), Str("NaN"), Str(" 3 "),
   Str("1e400"), Str("accents"),
   List(<<>>), List(<<Num(3)>>), List(<<Str("3")>>), Map(<<>>),
   Map(<<<<"a", Num(3)>>, <<"b", Nil>>>>), Map(<<<<"b", Nil>>, <<"a", Num(3)>>>>)}

MCPayloads ==
  {Map(<<<<"v", a>>, <<"w", b>>>>) : a, b \in Values} \cup
  {Map(<<<<"v", a>>>>) : a \in Values} \cup {Map(<<>>)}

Simple == {Apply("gt", <<V, Three>>), Apply("eq", <<W, Quoted("abc")>>), Apply("exists", <<V>>),
           Apply("not", <<W>>), Apply("len", <<V>>)}

(* Expressions, some of which only fail when they are evaluated.           *)
Expressions ==
  Simple \cup
  {Apply(op, <<V, W>>) : op \in {"eq", "gt", "lte"}} \cup
  {Apply(op, <<x, Three>>) : op \in {"neq", "gte", "lt"},
      x \in {Name("v.a"), Name("v.0"), Name("v.length"), Apply("len", <<V>>)}} \cup
  {Apply(op, <<a, b>>) : op \in {"and", "or"}, a, b \in {V, Apply("gt", <<W, Three>>)}} \cup
  {Apply("exists", <<x>>) : x \in {Name("u"), Name("v.toString"), Name("toString"), Quoted("v")}} \cup
  {Mapping("not", V), Mapping("len", W), Mapping("exists", Name("v.a")), Apply("and", <<>>), Apply("or", <<>>),
   Apply("eq", <<V>>), Apply("gt", <<V, W, W>>), Apply("not", <<>>), Apply("len", <<V, W>>),
   Apply("exists", <<>>), Apply("eq", <<V, Constant(Nil)>>), Apply("eq", <<V, Constant(Bool(TRUE))>>),
   Apply("matches", <<V, W>>), Apply("eq", <<Mapping("matches", V), W>>)}

Refused ==
  {V, Mapping("eq", V), Sequence(<<V>>), Sequence(<<Mapping("eq", Sequence(<<V, Name("")>>))>>),
   Sequence(<<Mapping("eq", Sequence(<<V, Sequence(<<>>)>>))>>), Sequence(<<Mapping("not", Mapping("eq", Sequence(<<Sequence(<<>>)>>)))>>),
   Sequence(<<[node |-> "mapping", items |-> <<<<"eq", V>>, <<"gt", V>>>>]>>)}

MCConditions ==
  {Absent, Constant(Nil), Sequence(<<>>)} \cup {Sequence(<<e>>) : e \in Expressions} \cup
  {Sequence(<<e, f>>) : e, f \in Simple} \cup Refused

(* What YAML makes of the texts typed into rows.                           *)
MCResolved(s) ==
  CASE s \in {"3", "3.0", " 3 "} -> Num(3)
    [] s \in {"true", "TRUE"}    -> Bool(TRUE)
    [] s = "false"               -> Bool(FALSE)
    [] s = "null"                -> Nil
    [] OTHER                     -> Str(s)

RowOf(op, path, value, kind) == [op |-> op, path |-> path, value |-> value, kind |-> kind]

(* Rows as they are added, as they are meant and as they may be filled in; *)
(* and two and three of them on one branch.                                *)
Meant  == {RowOf("eq", "v", "3", "number"), RowOf("neq", "v", "abc", "string"), RowOf("gt", "v", "w", "path"),
           RowOf("eq", "w", "true", "boolean"), RowOf("lte", "w", "3.0", "number")}
Filled == {RowOf("eq", "", "", "string"), RowOf("eq", "3", "v", "path"), RowOf("eq", "v", "3", "string"),
           RowOf("eq", "null", "", "string"), RowOf("eq", "v", "false", "boolean")} \cup
          {RowOf("eq", "v", s, "number") : s \in {"abc", "", " 3 ", "w", "1e400"}} \cup
          {RowOf("eq", "v", s, "boolean") : s \in {"TRUE", "w", ""}} \cup
          {RowOf("eq", "v", s, "path") : s \in {"", "true"}}
MCRowLists ==
  {<<r>> : r \in Meant \cup Filled} \cup {<<r, t>> : r \in Meant, t \in {RowOf("eq", "w", "true", "boolean")}}
  \cup {<<RowOf("gt", "v", "3", "number"), RowOf("lt", "w", "3", "number"), RowOf("neq", "v", "w", "path")>>}

-----------------------------------------------------------------------------
(* Go sorts the keys of a map it prints, JSON.stringify does not.           *)
RECURSIVE GoShown(_), Json(_)
GoShown(v) ==
  CASE v.kind = "list" -> [list |-> [k \in 1..Len(v.items) |-> GoShown(v.items[k])]]
    [] v.kind = "map"  -> [map |-> {<<e[1], GoShown(e[2])>> : e \in ToSet(v.entries)}]
    [] OTHER           -> [bare |-> Bare(v)]

Json(v) ==
  CASE v.kind = "list" -> [list |-> [k \in 1..Len(v.items) |-> Json(v.items[k])]]
    [] v.kind = "map"  -> [object |-> [k \in 1..Len(v.entries) |->
                                         <<v.entries[k][1], Json(v.entries[k][2])>>]]
    [] v.kind = "str"  -> [quoted |-> v.text]
    [] v.kind = "nil"  -> [bare |-> "null"]
    [] OTHER           -> [bare |-> Bare(v)]
MCRendered(d, v) == IF d = "go" THEN GoShown(v) ELSE Json(v)

-----------------------------------------------------------------------------
(* The parser and the evaluator call themselves.  The LETs end TLC's walk  *)
(* through the operators when it counts what they cost.                    *)
MCParsedInside(y)          == LET expr == ParseOpExpr(y) IN expr
MCEvaluatedInside(d, e, p) == LET value == EvalOp(d, e, p) IN value
=============================================================================
