--------------------------- MODULE KernelOwnership ---------------------------
(***************************************************************************)
(* What Bus promises about kernel instances, whoever passes them around:   *)
(* an instance is used only while the program holds it, by one call at a   *)
(* time, it is released once, by the call that destroys it, and it is lost *)
(* only between calls.                                                     *)
(***************************************************************************)
CONSTANTS Kernels, None

VARIABLES
  status,  \* status[k]: "unmade", "held", "lost" or "released"
  busy     \* the instance that a call is using, or None

vars == <<status, busy>>

Init ==
  /\ status = [k \in Kernels |-> "unmade"]
  /\ busy = None

Become(k, from, to) ==
  status[k] = from /\ status' = [status EXCEPT ![k] = to]

Acquire(k) == busy = None /\ Become(k, "unmade", "held") /\ UNCHANGED busy

Use(k) == busy = None /\ status[k] = "held" /\ busy' = k /\ UNCHANGED status

Finish == busy # None /\ busy' = None /\ UNCHANGED status

Release(k) == busy = k /\ Become(k, "held", "released") /\ busy' = None

Lose(k) == busy = None /\ Become(k, "held", "lost") /\ UNCHANGED busy

Next ==
  \/ Finish
  \/ \E k \in Kernels : Acquire(k) \/ Use(k) \/ Release(k) \/ Lose(k)

Spec == Init /\ [][Next]_vars
=============================================================================
