---------------------------- MODULE WorkflowRun -----------------------------
(***************************************************************************)
(* What executing a workflow promises, without goroutines, payloads or     *)
(* HTTP.  An execution is a tree of calls that grows downwards: a call is  *)
(* begun once, at the earliest when its parent has succeeded, and settled  *)
(* once; the parent's success decides which calls are due below it.  The   *)
(* verdict is given once, when every call due has been settled, and it is  *)
(* "failed" exactly when some call failed.                                 *)
(*                                                                         *)
(* Calls are named by address as in module Engine, which implements this.  *)
(***************************************************************************)
EXTENDS Naturals, Sequences

CONSTANT Fanout   \* bound on the number of branches of a filter

VARIABLES
  call,      \* calls begun: address -> "busy" / "ok" / "failed"
  due,       \* per call begun: the children its success makes due
  verdict    \* "none", "pending", then "completed", "failed" or "error"

vars == <<call, due, verdict>>

Init == call = <<>> /\ due = <<>> /\ verdict = "none"

Begun(c) == c \in DOMAIN call
Kids(c, is) == {Append(c, i) : i \in is}

Begin ==
  /\ verdict = "none"
  /\ verdict' = "pending"
  /\ call' = [c \in {<<>>} |-> "busy"]
  /\ due'  = [c \in {<<>>} |-> {}]

(* The definition has no start node.                                       *)
Refuse ==
  /\ verdict = "none"
  /\ verdict' = "error"
  /\ UNCHANGED <<call, due>>

Extended(f, new, v) == [c \in DOMAIN f \cup new |-> IF c \in new THEN v ELSE f[c]]

Fail(c) ==
  /\ call[c] = "busy"
  /\ call' = [call EXCEPT ![c] = "failed"]
  /\ UNCHANGED <<due, verdict>>

(* A call succeeds and makes children due, some of which begin at once.    *)
Succeed(c, is, now) ==
  /\ call[c] = "busy"
  /\ call' = Extended([call EXCEPT ![c] = "ok"], Kids(c, now), "busy")
  /\ due'  = Extended([due EXCEPT ![c] = is], Kids(c, now), {})
  /\ UNCHANGED verdict

Start(c, i) ==
  /\ i \in due[c] /\ ~ Begun(Append(c, i))
  /\ call' = Extended(call, {Append(c, i)}, "busy")
  /\ due'  = Extended(due, {Append(c, i)}, {})
  /\ UNCHANGED verdict

Settled == \A c \in DOMAIN call :
             call[c] # "busy" /\ \A i \in due[c] : Begun(Append(c, i))

Report ==
  /\ verdict = "pending"
  /\ Settled
  /\ verdict' = IF \A c \in DOMAIN call : call[c] = "ok" THEN "completed" ELSE "failed"
  /\ UNCHANGED <<call, due>>

Next ==
  \/ Begin \/ Refuse \/ Report
  \/ \E c \in DOMAIN call :
       \/ Fail(c)
       \/ \E is \in SUBSET (1..Fanout) : \E now \in SUBSET is : Succeed(c, is, now)
       \/ \E i \in due[c] : Start(c, i)

Spec == Init /\ [][Next]_vars
=============================================================================
