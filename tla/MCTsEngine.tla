----------------------------- MODULE MCTsEngine -----------------------------
(***************************************************************************)
(* Instances of TsEngine for TLC: nested splits, definitions no validator  *)
(* accepts, and workers that answer with anything.                         *)
(***************************************************************************)
EXTENDS TsEngineProperties, TLC

Node0 == [id |-> "", type |-> "action", worker |-> "", branches |-> <<>>,
          next |-> NoNode, reads |-> {}, produces |-> {}]

Enhance(id, to) == [Node0 EXCEPT !.id = id, !.type = "enhancer", !.next = to]
Act(id)         == [Node0 EXCEPT !.id = id]
Split(id, bs)   == [Node0 EXCEPT !.id = id, !.type = "filter", !.branches = bs]
To(cond, id)    == [cond |-> cond, next |-> id]
Def(start, ns)  == [start |-> start, nodes |-> ns]

(* A filter above a filter and a chain; the inner one waits for a field.   *)
Nested ==
  Def("f", <<Split("f", <<To("always", "a"), To("always", "c")>>),
             Enhance("a", "g"), Split("g", <<To("always", "b"), To("has y", "d")>>),
             Act("b"), Act("c"), Act("d")>>)

Odd == {Def("z", <<Act("a")>>),
        Def("a", <<Enhance("a", "gone")>>),
        Def("f", <<Split("f", <<To("has z", "a"), To("always", "gone")>>), Act("a")>>),
        Def("f", <<Split("f", <<To("broken", "a"), To("always", "a")>>), Act("a")>>),
        Def("a", <<Enhance("a", "f"), Split("f", <<To("has z", "a")>>)>>),
        Def("f", <<Split("f", <<To("always", "b"), To("always", "orphan")>>), Act("b"), Act("orphan")>>),
        Def("f", <<Split("f", <<To("always", "a"), To("always", "a")>>), Act("a")>>)}

Definitions == {Nested} \cup Odd
Single      == {Def("a", <<Act("a")>>), Nested}

MCEvaluate(cond, p) ==
  CASE cond = "always" -> "true"
    [] cond = "broken" -> "error"
    [] cond = "has y"  -> IF "y" \in DOMAIN p THEN "true" ELSE "false"
    [] OTHER           -> "false"

Pay(S, v)  == [f \in S |-> v]
MCInputs   == {Pay({}, 1), Pay({"y"}, 1)}
OneInput   == {Pay({"y"}, 1)}
Returns(status, output) == [kind |-> "returns", body |-> [status |-> status, output |-> output]]
MCOutcomes == {Returns("success", Pay({"x"}, 1)), Returns("success", Pay({"y"}, 2)),
               Returns("success", Absent), Returns("failure", Absent), Returns("null", Absent),
               [kind |-> "returns nothing"], [kind |-> "throws"]}
Plain      == {Returns("success", Pay({}, 1))}

TwoWorkers  == <<"u1", "u2">>
MCAnnounced == [u \in {"u1", "u2"} |-> IF u = "u1" THEN {"a", "b", "c"} ELSE {"b", "d"}]
=============================================================================
