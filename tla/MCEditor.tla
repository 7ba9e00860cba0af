------------------------------ MODULE MCEditor ------------------------------
(* Instances of WorkflowEditor for TLC. *)
EXTENDS EditorProperties

Plain(id, type, to) == [id |-> id, type |-> type, next |-> to, branches |-> <<>>]
Split(id, to) == [id |-> id, type |-> "filter", next |-> NoNode,
                  branches |-> [i \in 1..Len(to) |-> [next |-> to[i]]]]
Def(ns) == [start |-> ns[1].id, nodes |-> ns]

(* A filter that ends with an empty branch and an open end, and a chain.   *)
MCExamples == {Def(<<Split("f", <<"enhancer_4", "b">>), Split("enhancer_4", <<>>),
                     Plain("b", "action", NoNode)>>),
               Def(<<Plain("b", "enhancer", "c"), Plain("c", "action", NoNode)>>)}
MCHandlers == {[id |-> "h", type |-> "enhancer"]}
MCNumbered(t, k) == t \o "_" \o ToString(k)
=============================================================================
