------------------------------ MODULE MCEngine ------------------------------
(***************************************************************************)
(* Instances of Engine for TLC: small definitions, payloads over the       *)
(* fields x and y, and workers that answer in every way that matters.      *)
(***************************************************************************)
EXTENDS Cli, TLC

Node0 == [id |-> "", type |-> "action", worker |-> "", branches |-> <<>>,
          next |-> NoNode, reads |-> {}, produces |-> {}]

Enhance(id, to) == [Node0 EXCEPT !.id = id, !.type = "enhancer", !.next = to]
Act(id)         == [Node0 EXCEPT !.id = id]
Split(id, bs)   == [Node0 EXCEPT !.id = id, !.type = "filter", !.branches = bs]
To(cond, id)    == [cond |-> cond, next |-> id]
Def(start, ns)  == [start |-> start, nodes |-> ns]

(* a; then f splits to b -> b2 and, when y is set, to c.                   *)
SplitAfterEnhancer ==
  Def("a", <<Enhance("a", "f"), Split("f", <<To("always", "b"), To("has y", "c")>>),
             Enhance("b", "b2"), Act("b2"), Act("c")>>)

(* A filter whose branch is a filter; its own second branch may be taken.  *)
NestedSplit ==
  Def("f", <<Split("f", <<To("always", "g"), To("has y", "c")>>),
             Split("g", <<To("has y", "d"), To("always", "e")>>),
             Act("c"), Act("d"), Act("e")>>)

Trees == {SplitAfterEnhancer, NestedSplit}

(* Definitions the validator rejects; Execute accepts any definition.      *)
NoStart    == Def("z", <<Act("a")>>)
Dangling   == Def("a", <<Enhance("a", "b"), Enhance("b", "gone")>>)
BadBranch  == Def("f", <<Split("f", <<To("always", "a"), To("has y", "gone")>>), Act("a")>>)
BadType    == Def("a", <<Enhance("a", "b"), [Act("b") EXCEPT !.type = "router"]>>)
BadCond    == Def("a", <<Enhance("a", "f"), Split("f", <<To("broken", "b"), To("always", "b")>>), Act("b")>>)
NoneTaken  == Def("a", <<Enhance("a", "f"), Split("f", <<To("has z", "b")>>), Act("b")>>)
Orphaned   == Def("a", <<Enhance("a", "orphan"), Act("orphan")>>)
OwnWorker  == Def("own", <<[Enhance("own", "a") EXCEPT !.worker = "local"], Act("a")>>)
Merging    == Def("f", <<Split("f", <<To("always", "a"), To("always", "a")>>), Act("a")>>)

Unvalidated == {NoStart, Dangling, BadBranch, BadType, BadCond, NoneTaken,
                Orphaned, OwnWorker, Merging}

(* Five enhancers, then two branches of two nodes each.                    *)
DeepSplit ==
  Def("n1", <<Enhance("n1", "n2"), Enhance("n2", "n3"), Enhance("n3", "n4"),
              Enhance("n4", "n5"), Enhance("n5", "f"),
              Split("f", <<To("always", "l"), To("always", "r")>>),
              Enhance("l", "l2"), Act("l2"), Enhance("r", "r2"), Act("r2")>>)
Chain == Def("a", <<Enhance("a", "b"), Act("b")>>)

Deep        == {DeepSplit}
Definitions == Trees \cup Unvalidated \cup Deep
Chains      == {Chain, DeepSplit}

-----------------------------------------------------------------------------
MCEvaluate(cond, p) ==
  CASE cond = "always" -> "true"
    [] cond = "broken" -> "error"
    [] cond = "has y"  -> IF "y" \in DOMAIN p THEN "true" ELSE "false"
    [] OTHER           -> "false"

Pay(S, v) == [f \in S |-> v]
Ok(out)   == [status |-> "success", output |-> out]
Failure   == [status |-> "failure", output |-> Pay({}, 1)]
Unmarked  == [status |-> "", output |-> Pay({"x"}, 2)]

InputX  == {Pay({"x"}, 1)}
InputXY == {Pay({"x"}, 1), Pay({"x", "y"}, 1)}
DeepIds      == {n.id : n \in NodesOf(DeepSplit)} \ {"f"}
Answers(id)  == IF id \in DeepIds THEN {Ok(Pay({}, 1))}
                ELSE {Ok(Pay({"y"}, 1)), Ok(Pay({"y"}, 11)), Unmarked, Failure}
Printing(id) == {Ok(Pay({}, 1)), Ok(Pay({"x"}, 2)), Ok(Pay({"x"}, 11))}
Echoes(id)   == {Ok(Pay({}, 1))}

Workers == [id \in {"a", "b", "b2", "c", "d", "e"} \cup DeepIds |->
              IF id = "a" THEN <<"u1", "u2">> ELSE <<"u1">>]

(* What Sprintf prints.  Values 1 and 11 stand for the number 1 and the    *)
(* string "1": different values with one printed form.                     *)
Plain(v)   == v
Printed(v) == v % 10
=============================================================================
