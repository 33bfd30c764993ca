---------------------------- MODULE RemoteCalls ----------------------------
(***************************************************************************)
(* What AsyncBus promises about calls to workers, without its map, its     *)
(* lock and its threads: a call waits from the moment it is registered     *)
(* until one event ends it.  An answer or a failure ends one call, a look  *)
(* at the clock exactly the calls whose time was up by then, a call under  *)
(* the same key exactly the one it displaces, and closing all of them.     *)
(***************************************************************************)
EXTENDS Integers

CONSTANTS Calls, Keys, NoKey

VARIABLES
  status,  \* status[c]: "unmade", "waiting", or how the call ended
  key,     \* key[c]: what its answer is looked up by, NoKey before it begins
  due,     \* due[c]: when it times out
  now,     \* the time
  closed   \* nobody calls any more

vars == <<status, key, due, now, closed>>

Init ==
  /\ status = [c \in Calls |-> "unmade"]
  /\ key = [c \in Calls |-> NoKey]
  /\ due = [c \in Calls |-> 0]
  /\ now = 0
  /\ closed = FALSE

Waiting == {c \in Calls : status[c] = "waiting"}

(* The calls in S end in this way, and no others change. *)
Conclude(S, outcome) ==
  status' = [c \in Calls |-> IF c \in S THEN outcome ELSE status[c]]

(* Call c waits under some key, and a call that waited under it is broken. *)
Begin(c) ==
  /\ ~closed /\ status[c] = "unmade"
  /\ key'[c] \in Keys /\ key' = [key EXCEPT ![c] = key'[c]]
  /\ due'[c] \in Int /\ due' = [due EXCEPT ![c] = due'[c]]
  /\ status' = [d \in Calls |->
                  IF d = c THEN "waiting"
                  ELSE IF d \in Waiting /\ key[d] = key'[c] THEN "broken"
                  ELSE status[d]]
  /\ UNCHANGED <<now, closed>>

Answer(c) ==
  /\ c \in Waiting /\ Conclude({c}, "ok")
  /\ UNCHANGED <<key, due, now, closed>>

Fail(c) ==
  /\ c \in Waiting /\ Conclude({c}, "error")
  /\ UNCHANGED <<key, due, now, closed>>

(* The time somebody read, some time ago, decides who is late. *)
Expire ==
  /\ \E read \in 0..now : Conclude({c \in Waiting : due[c] <= read}, "timeout")
  /\ UNCHANGED <<key, due, now, closed>>

Close ==
  /\ ~closed /\ closed' = TRUE
  /\ Conclude(Waiting, "broken")
  /\ UNCHANGED <<key, due, now>>

Tick == ~closed /\ now' = now + 1 /\ UNCHANGED <<status, key, due, closed>>

Next ==
  \/ \E c \in Calls : Begin(c) \/ Answer(c) \/ Fail(c)
  \/ Expire
  \/ Close
  \/ Tick

Spec == Init /\ [][Next]_vars

-----------------------------------------------------------------------------

(* Nobody waits for an answer that would go to another call. *)
OnePerKey == \A c, d \in Waiting : key[c] = key[d] => c = d

(* After closing nobody waits. *)
NoneLeft == closed => Waiting = {}
=============================================================================
