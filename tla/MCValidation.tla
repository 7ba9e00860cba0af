---------------------------- MODULE MCValidation ----------------------------
(***************************************************************************)
(* Every definition of up to three nodes, valid or not, for the structural *)
(* rules; and the trees of four nodes with every declaration of one field  *)
(* for the data-flow check.                                                *)
(***************************************************************************)
EXTENDS Validation

Targets(ids) == ids \cup {"gone"}
To(ids)      == [cond : {"c"}, next : ids]
NodeOf(id, type, branches, next, reads, produces) ==
  [id |-> id, type |-> type, worker |-> NoWorker, branches |-> branches,
   next |-> next, reads |-> reads, produces |-> produces]

Shapes(id, ids) ==
  {NodeOf(id, "action", <<>>, t, {}, {}) : t \in Targets(ids) \cup {NoNode}} \cup
  {NodeOf(id, "filter", <<b>>, NoNode, {}, {}) : b \in To(Targets(ids))} \cup
  {NodeOf(id, "filter", <<b, c>>, NoNode, {}, {}) : b, c \in To(Targets(ids))}

Misshaped(id, ids) ==
  {NodeOf(id, "filter", <<>>, NoNode, {}, {}), NodeOf(id, "router", <<>>, NoNode, {}, {})} \cup
  {NodeOf(id, "filter", <<b>>, t, {}, {}) : b \in To({NoNode} \cup ids), t \in ids} \cup
  {NodeOf(id, "action", <<b>>, NoNode, {}, {}) : b \in To(ids)}

Three == {"a", "b", "c"}
SmallDefinitions ==
  {[start |-> s, nodes |-> <<m, n, o>>] : s \in {"a", "b"}, m \in Shapes("a", Three),
      n \in Shapes("b", Three), o \in Shapes("c", Three)} \cup
  {[start |-> s, nodes |-> <<m, n>>] : s \in {"a", "gone"},
      m \in Shapes("a", {"a", "b"}) \cup Misshaped("a", {"a", "b"}),
      n \in Shapes("b", {"a", "b"}) \cup Misshaped("b", {"a", "b"})
                                    \cup Shapes("a", {"a", "b"})}

(* f splits to b -> d and to c; or a chain into a split.                   *)
Flow == SUBSET {"x"}
FlowDefinitions ==
  {[start |-> "f", nodes |->
      <<NodeOf("f", "filter", <<[cond |-> "c", next |-> "b"], [cond |-> "c", next |-> "c"]>>,
               NoNode, r1, {}),
        NodeOf("b", "enhancer", <<>>, "d", r2, p2), NodeOf("c", "action", <<>>, NoNode, r3, p3),
        NodeOf("d", "action", <<>>, NoNode, r4, p4)>>] :
      r1, r2, r3, r4, p2, p3, p4 \in Flow}
FilterProduces ==
  {[start |-> "f", nodes |->
      <<NodeOf("f", "filter", <<[cond |-> "c", next |-> "b"]>>, NoNode, {}, p),
        NodeOf("b", "action", <<>>, NoNode, r, {})>>] : p, r \in Flow}

(* Filters below filters, some of whose branches lead nowhere yet.         *)
To2(t, u) == <<[cond |-> "c", next |-> t], [cond |-> "c", next |-> u]>>
Ends == {"x", "y", "f", NoNode}
NestedFilters ==
  {[start |-> "f", nodes |->
      <<NodeOf("f", "filter", To2("g", "h"), NoNode, {}, {}), NodeOf("g", "filter", To2(t, u), NoNode, {}, {}),
        NodeOf("h", "filter", To2(v, "z"), NoNode, {}, {}), NodeOf("x", "filter", To2("p", "q"), NoNode, {}, {}),
        NodeOf("y", "action", <<>>, NoNode, {}, {}), NodeOf("z", "action", <<>>, NoNode, {}, {}),
        NodeOf("p", "action", <<>>, NoNode, {}, {})>>] : t, u, v \in Ends}

(* Ids that YAML does not take for texts, and a filter that keeps a next.  *)
OddIds == {"1", "1.0", "null", "b"}
OddDefinitions ==
  {[start |-> s, nodes |-> <<NodeOf(s, "enhancer", <<>>, t, {}, {x}), NodeOf(t, "action", <<>>, NoNode, {y}, {})>>] :
      s \in OddIds, t \in OddIds \ {"b"}, x, y \in {"x", "1.0"}} \cup
  {[start |-> s, nodes |-> <<NodeOf(s, "filter", <<b>>, t, {}, {}), NodeOf("b", "action", <<>>, NoNode, {}, {})>>] :
      s \in OddIds, t \in {NoNode, "b"}, b \in To({NoNode, "b", "null"})}

(* And filters, some of whose branches the parser cannot read as written.  *)
UnreadableDefinitions ==
  {[start |-> "f", nodes |-> <<NodeOf("f", t, <<[cond |-> c, next |-> "b"]>>, NoNode, {}, {}),
                               NodeOf("b", "action", <<>>, NoNode, {}, {})>>] :
      t \in {"filter", "action"}, c \in {"c", "broken"}}
MCReadable(b)   == b.cond # "broken"
MCRespelled(s) == IF s = "1.0" THEN "1" ELSE s

Definitions ==
  SmallDefinitions \cup FlowDefinitions \cup FilterProduces \cup NestedFilters \cup OddDefinitions
    \cup UnreadableDefinitions
FlowSchemas == {NoSchema} \cup Flow
=============================================================================
