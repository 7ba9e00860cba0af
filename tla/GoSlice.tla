------------------------------ MODULE GoSlice -------------------------------
(***************************************************************************)
(* Go slices of strings, as the language defines them: a slice is a view   *)
(* of the first len slots of a backing array that other slices may share.  *)
(* append writes the next slot in place when the array has room for it and *)
(* otherwise copies to a new array.  Modelled because the engine extends   *)
(* the parent_nodes slice of one message from several goroutines.          *)
(*                                                                         *)
(* Arrays are named by the address of the call that allocated them.  The   *)
(* nil slice is a view of the empty array that no call allocated.          *)
(***************************************************************************)
EXTENDS Naturals, Sequences

NilSlice  == [arr |-> <<>>, len |-> 0]
NoArrays  == [a \in {<<>>} |-> <<>>]

(* Room for one more.  The slip: a full slice is taken to have room.       *)
RoomOrFull(arrays, s) == s.len <= Len(arrays[s.arr])
HasRoom(arrays, s)  == s.len < Len(arrays[s.arr])
Contents(arrays, s) == SubSeq(arrays[s.arr], 1, s.len)

(* Growth by one element: an empty slice gets one slot, a full one doubles.*)
Grown(arrays, s, x) ==
  [k \in 1..(IF s.len = 0 THEN 1 ELSE 2 * s.len) |->
     IF k <= s.len THEN arrays[s.arr][k] ELSE IF k = s.len + 1 THEN x ELSE ""]

(* append(s, x) with `fresh` the array to make when s is full: the slice   *)
(* it returns, and the arrays after the call.  The slip: the caller keeps  *)
(* the slice it had instead of the one returned.                           *)
NotReassigned(arrays, s, fresh) == s
Appended(arrays, s, fresh) ==
  [arr |-> IF HasRoom(arrays, s) THEN s.arr ELSE fresh, len |-> s.len + 1]

ArraysAfter(arrays, s, x, fresh) ==
  IF HasRoom(arrays, s)
  THEN [arrays EXCEPT ![s.arr][s.len + 1] = x]
  ELSE [a \in DOMAIN arrays \cup {fresh} |->
          IF a = fresh THEN Grown(arrays, s, x) ELSE arrays[a]]
=============================================================================
