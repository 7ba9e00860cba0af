----------------------------- MODULE MCRegistry -----------------------------
(***************************************************************************)
(* An instance of Registry for TLC.  Two goroutines resolve an id that     *)
(* three workers serve, one of them named twice by --workers, with a       *)
(* counter that wraps after five turns, which neither 2 nor 3 divides.  A  *)
(* worker answers /handlers with the id once, twice, or not at all.        *)
(***************************************************************************)
EXTENDS Registry, TLC

ThreeWorkers == <<"u1", "u2", "u1", "u3">>
Answers      == {<<>>, <<"enrich">>, <<"enrich", "enrich">>}
Symmetry     == Permutations(Resolver)
=============================================================================
