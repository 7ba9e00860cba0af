----------------------------- MODULE MCSimulator -----------------------------
(***************************************************************************)
(* Two examples, one with a split and one with stubs that open questions,  *)
(* definitions an edit may arrive at, valid or not, and inputs of any kind.*)
(***************************************************************************)
EXTENDS Simulator

NodeOf(id, type, next, branches, reads, produces, stub) ==
  [id |-> id, type |-> type, next |-> next, branches |-> branches, reads |-> reads,
   produces |-> produces, stub |-> stub, worker |-> NoWorker]
To(c, id)     == [cond |-> c, next |-> id]
NoStub        == [kind |-> "none"]
Garbage       == [kind |-> "other"]
Json(t)       == [kind |-> "json", text |-> t]
Field(k, v)   == [key |-> k, value |-> v]
Answering(es) == [kind |-> "object", entries |-> es]

Split(stub, last) ==
  [start |-> "v",
   nodes |-> <<NodeOf("v", "enhancer", "f", <<>>, {"a"}, {"b"}, stub),
               NodeOf("f", "filter", NoNode, <<To("hasB", "p"), To("numC", last)>>, {}, {}, NoStub),
               NodeOf("p", "action", NoNode, <<>>, {"b"}, {}, Garbage),
               NodeOf("q", "action", NoNode, <<>>, {"a"}, {}, NoStub)>>]
Chain(read, entries) ==
  [start |-> "s",
   nodes |-> <<NodeOf("s", "enhancer", "t", <<>>, {}, {"a"}, Answering(entries)),
               NodeOf("t", "action", NoNode, <<>>, {read}, {}, NoStub)>>]

Orders == [id |-> "orders", workflow |-> Split(Answering(<<Field("b", Json("1"))>>), "q"), payload |-> "{a}"]
Alerts == [id |-> "alerts", workflow |-> Chain("a", <<Field("a", Text("1")), Field(" c", Json("1"))>>), payload |-> ""]
MCExamples == {Orders, Alerts}

Gate ==
  [start |-> "f",
   nodes |-> <<NodeOf("f", "filter", NoNode, <<To("has0", "q")>>, {"0"}, {}, NoStub),
               NodeOf("q", "action", NoNode, <<>>, {"0"}, {}, NoStub)>>]
MCDrafts == {Gate, Split(NoStub, "q"),
             Chain("c", <<Field("a", Json("1")), Field("b", Text(""))>>)}
MCTexts == {"null", "{a", "{a,c}", "\"1\""}
MCWords == {"", "a", "b", "b ", "c", " c", "x", "1", "\"1\""}
MCRowLists == {<<[key |-> "b", value |-> "\"1\""], [key |-> "", value |-> "1"],
                 [key |-> "b ", value |-> ""]>>}

Object(fields) == [kind |-> "object", text |-> "", keys |-> fields]
MCJSONparse(t) ==
  CASE t = "{}" -> Object({}) [] t = "{a}" -> Object({"a"}) [] t = "{a,c}" -> Object({"a", "c"})
    [] t = "null" -> [kind |-> "null", text |-> "null"]
    [] t = "1" -> Json("1") [] t = "\"1\"" -> Text("1")
    [] OTHER -> [kind |-> "none"]
MCProperties(v) ==
  CASE v.kind = "object" -> [f \in v.keys |-> Json("1")]
    [] v.kind = "text" -> [f \in {"0"} |-> Text("1")] [] OTHER -> Nothing
MCtrim(t) == CASE t = " c" -> "c" [] t = "b " -> "b" [] OTHER -> t

MCEvaluate(c, p) ==
  LET has(f) == p.kind = "object" /\ f \in DOMAIN p.fields
  IN CASE c = "hasB" -> IF has("b") THEN "true" ELSE "false"
       [] c = "has0" -> IF has("0") THEN "true" ELSE "false"
       [] OTHER      -> IF has("c") THEN "true" ELSE "error"
MCRespelled(s) == s
MCReadable(b) == TRUE
=============================================================================
