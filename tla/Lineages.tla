------------------------------ MODULE Lineages ------------------------------
(***************************************************************************)
(* What a call of either engine inherits from the calls above it.  Calls   *)
(* are named by address, so those above a call are its proper prefixes.    *)
(***************************************************************************)
EXTENDS Naturals, Sequences

Prefix(c, k) == SubSeq(c, 1, k)

Overlay(base, out) ==
  [f \in DOMAIN base \cup DOMAIN out |-> IF f \in DOMAIN out THEN out[f] ELSE base[f]]

(* A payload under the outputs of some calls above, by their depths: a     *)
(* field has the value of the nearest that returned it, else its own.      *)
Overlaid(base, outs) ==
  [f \in DOMAIN base \cup UNION {DOMAIN outs[k] : k \in DOMAIN outs} |->
     LET ks == {k \in DOMAIN outs : f \in DOMAIN outs[k]}
     IN IF ks = {} THEN base[f]
        ELSE outs[CHOOSE k \in ks : \A l \in ks : l <= k][f]]
=============================================================================
