------------------------- MODULE ConditionAgreement --------------------------
(***************************************************************************)
(* How far the two implementations of the condition language agree.        *)
(***************************************************************************)
EXTENDS ConditionProperties

(* The scalar nodes of a condition, and the texts a value is made of.      *)
RECURSIVE Scalars(_), Texts(_)
Scalars(y) ==
  CASE y.node = "scalar"   -> {y}
    [] y.node = "sequence" -> UNION {Scalars(y.items[k]) : k \in 1..Len(y.items)}
    [] y.node = "mapping"  -> UNION {Scalars(y.items[k][2]) : k \in 1..Len(y.items)}
    [] OTHER               -> {}
Texts(v) ==
  CASE v.kind = "str"  -> {v.text}
    [] v.kind = "list" -> UNION {Texts(v.items[k]) : k \in 1..Len(v.items)}
    [] v.kind = "map"  -> UNION {Texts(v.entries[k][2]) : k \in 1..Len(v.entries)}
    [] OTHER           -> {}

(* A path that steps through maps only, by names no object inherits.       *)
OrdinaryPath(p, path) ==
  \A k \in 1..Len(Keys(path)) :
    /\ Keys(path)[k] \notin Inherited
    /\ FoldLeft(GoKey, p, SubSeq(Keys(path), 1, k - 1)).kind # "list"

(* At most one value that is printed element by element when compared.     *)
OneCompound(p) ==
  /\ \A i, j \in 1..Len(p.entries) :
       Compound(p.entries[i][2]) /\ Compound(p.entries[j][2]) => i = j

Ordinary(y, p) ==
  /\ ~ NullCondition(y)
  /\ \A s \in Texts(p) : OrdinaryText(s)
  /\ \A n \in Scalars(y) : n.value.kind = "str" =>
       IF n.style = "quoted" THEN OrdinaryText(n.value.text)
       ELSE OrdinaryPath(p, n.value.text)
  /\ OneCompound(p)

(* condition.ts mirrors eval.go where the two languages give it a chance:  *)
(* a branch is taken, not taken or an error in the browser exactly when it *)
(* is so in the orchestrator, unless a text that the languages read or     *)
(* measure differently, a path that enters a list or names a method, or    *)
(* two compound values that may be compared are involved, or the key       *)
(* condition is there and null: always true in Go, refused by parser.ts.   *)
EnginesAgree ==
  Decided /\ Ordinary(yaml, payload) => verdicts["go"] = verdicts["ts"]
=============================================================================
