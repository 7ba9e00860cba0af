------------------------------ MODULE GraphLayout ------------------------------
(***************************************************************************)
(* Where renderGraph of the editor's graph.ts puts the boxes of the nodes: *)
(* computeWidth counts the columns below a node and assign centres each    *)
(* node over its own.  A place is [id, depth, centre], the centre in half  *)
(* columns.  Drawing itself is left out.                                   *)
(***************************************************************************)
EXTENDS Validator

NodeW  == 140
ColGap == 28

(* computeWidth, with its memory: the widths known so far, 0 for those not *)
(* known, and the ids seen.  successorIds leaves out the branches that lead*)
(* nowhere yet.                                                            *)
Memories(w) == [widths : [Mentioned(w) -> Nat], seen : SUBSET Mentioned(w)]
WidthOf(widths, id) == IF widths[id] = 0 THEN 1 ELSE widths[id]

Seen(m, id) == [m EXCEPT !.seen = @ \cup {id}]

Measured(w, compute, id, m) ==
  LET succ == Successors(NodeMap(w)[id])
      below[i \in 0..Len(succ)] ==
        IF i = 0 THEN [m |-> Seen(m, id), total |-> 0]
        ELSE IF succ[i] = NoNode THEN below[i - 1]
        ELSE LET next == compute[succ[i]][below[i - 1].m]
             IN [m |-> next, total |-> below[i - 1].total + WidthOf(next.widths, succ[i])]
      last == below[Len(succ)]
  IN [last.m EXCEPT !.widths[id] = IF last.total > 1 THEN last.total ELSE 1]

(* Each call sees one more node of the path, as dfs grays one.             *)
ComputeWidth(w) ==
  LET compute[depth \in 0..Len(w.nodes)] ==
        [id \in Mentioned(w) |-> [m \in Memories(w) |->
           IF m.widths[id] # 0 \/ id \in m.seen THEN m
           ELSE IF Defined(w, id) /\ depth > 0 THEN Measured(w, compute[depth - 1], id, m)
           ELSE Seen(m, id)]]
  IN compute[Len(w.nodes)]

Widths(w) ==
  ComputeWidth(w)[w.start][[widths |-> [id \in Mentioned(w) |-> 0], seen |-> {}]].widths

(* assign: a branch without a target takes a column and draws nothing.     *)
(* The slip: every branch gets one column.                                 *)
OneColumn(widths, b) == 1
ColumnsOf(widths, b) == WidthOf(widths, b.next)

Boxes(w) == [id : NodeIDs(w), depth : 0..Len(w.nodes), centre : Nat]

Drawn(placed, id) == \E p \in placed : p.id = id

(* The boxes below the node n, whose own is placed; assign is what the     *)
(* calls below it do.                                                      *)
AssignedBelow(widths, assign, n, left, placed) ==
  IF n.type = "filter"
  THEN LET row[i \in 0..Len(n.branches)] ==
             IF i = 0 THEN [placed |-> placed, cursor |-> left]
             ELSE LET b == n.branches[i]
                      s == row[i - 1]
                  IN [placed |-> IF b.next = NoNode THEN s.placed
                                 ELSE assign[b.next][s.cursor][s.placed],
                      cursor |-> s.cursor + ColumnsOf(widths, b)]
       IN row[Len(n.branches)].placed
  ELSE IF n.next = NoNode THEN placed ELSE assign[n.next][left][placed]

(* The row of a box is the number of calls it is below the start.          *)
Assign(w, widths) ==
  LET assign[rows \in 0..Len(w.nodes)] ==
        [id \in Mentioned(w) |-> [left \in Nat |-> [placed \in SUBSET Boxes(w) |->
           IF ~ Defined(w, id) \/ Drawn(placed, id) \/ rows = 0 THEN placed
           ELSE AssignedBelow(widths, assign[rows - 1], NodeMap(w)[id], left,
                  placed \cup {[id |-> id, depth |-> Len(w.nodes) - rows,
                                 centre |-> 2 * left + WidthOf(widths, id)]})]]]
  IN assign[Len(w.nodes)]

Placed(w) == Assign(w, Widths(w))[w.start][0][{}]

Overlap(p, q) ==
  LET apart == IF p.centre > q.centre THEN p.centre - q.centre ELSE q.centre - p.centre
  IN p.depth = q.depth /\ apart * (NodeW + ColGap) < 2 * NodeW
=============================================================================
