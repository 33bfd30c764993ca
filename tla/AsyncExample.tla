---------------------------- MODULE AsyncExample ----------------------------
(***************************************************************************)
(* examples/async.cpp: one thread that makes an AsyncBus, sends a request  *)
(* after the other, each with an id of its own, then pumps and checks for  *)
(* timeouts until every future is ready, and stops.  Its steps are those   *)
(* of AsyncBus, in the order main() takes them.                            *)
(***************************************************************************)
EXTENDS AsyncBus

VARIABLE at   \* the statement main() is at

ASSUME IdsAssumption == Requests \subseteq Nat /\ Timeouts # {}

exampleVars == <<vars, at>>

Goes(from, to) == at = from /\ at' = to

-----------------------------------------------------------------------------

ExampleInit == Init /\ at = "start"

(* if (!bus.bus()) is never true; a start() that fails ends the program. *)
StartOrGiveUp ==
  /\ at = "start"
  /\ \/ Start /\ at' = IF kernel' = "running" THEN "request" ELSE "return"
     \/ kernel = "none" /\ at' = "return" /\ UNCHANGED vars

(* The text of request i has the id i. *)
SameText(i) == [found |-> 1, id |-> 1, object |-> TRUE]
RequestText(i) == [found |-> i, id |-> i, object |-> TRUE]

(* for (int i = 1; i <= 5; i++) futures.push_back(bus.request_async(...)) *)
Request(i) ==
  /\ Goes("request", "request")
  /\ \A j \in Requests : j < i => pc[j] = "returned"
  /\ Call(i)
  /\ text'[i] = RequestText(i)

AllRequested ==
  /\ Goes("request", "pump")
  /\ \A i \in Requests : pc[i] = "returned"
  /\ UNCHANGED vars

(* bus.pump(10ms), with the messages it dispatches; there is nothing to    *)
(* dispatch once the kernel has failed.                                    *)
Pump ==
  \/ Goes("pump", "pumping") /\ PumpEnter
  \/ Goes("pumping", "pumping") /\ \E m \in inbox : HandleResponse(m)
  \/ Goes("pump", "sweep") /\ kernel = "stopped" /\ UNCHANGED vars

PumpOver == Goes("pumping", "sweep") /\ PumpReturn

SweepForgotten == Goes("sweep", "count") /\ UNCHANGED vars

(* bus.check_timeouts() *)
CheckTimeouts ==
  \/ Goes("sweep", "sweep") /\ ReadClock
  \/ Goes("sweep", "count") /\ SweepExpired

(* The futures that are ready are counted anew in each round. *)
Count ==
  /\ Goes("count", IF \A i \in Requests : future[i] \in Settled
                   THEN "get" ELSE "pump")
  /\ UNCHANGED vars

(* Every get() returns or throws at once; then stop(), whose error, when   *)
(* the kernel has failed by then, nobody looks at.                         *)
GetAndStop ==
  /\ Goes("get", "return")
  /\ \/ Stop
     \/ kernel = "stopped" /\ UNCHANGED vars

Return == Goes("return", "exited") /\ Destroy

(***************************************************************************)
(* Bound: time stands still where a deadline would lie past MaxClock.      *)
(***************************************************************************)
Environment ==
  /\ at # "exited" /\ at' = at
  /\ \/ Tick /\ \A i \in Requests, t \in Timeouts :
                  pc[i] # "returned" => clock' + t <= MaxClock
     \/ \E r \in Requests : WorkerReply(r) \/ WorkerLoses(r)
     \/ \E k \in WorkerIds : WorkerCall(k)
     \/ KernelStopped

Exited == at = "exited" /\ UNCHANGED exampleVars

Main ==
  \/ StartOrGiveUp
  \/ \E i \in Requests : Request(i)
  \/ AllRequested
  \/ Pump
  \/ CheckTimeouts
  \/ Count
  \/ GetAndStop
  \/ Return

ExampleNext == Main \/ PumpOver \/ Environment \/ Exited

(* main() runs on, pump(10ms) comes back, and time passes. *)
ExampleSpec ==
  /\ ExampleInit /\ [][ExampleNext]_exampleVars
  /\ WF_exampleVars(Main) /\ WF_exampleVars(PumpOver)
  /\ WF_exampleVars(Environment /\ clock' # clock)

-----------------------------------------------------------------------------
(* Properties                                                              *)

(* The program uses AsyncBus as its documentation asks: what it does is a  *)
(* behaviour of AsyncBus in which no thread stays inside request_async()   *)
(* and check_timeouts() is called again and again.                         *)
UsesAsyncBus == FairSpec

(* It comes to its end, whatever workers lose, repeat or reorder. *)
Terminates == <>(at = "exited")

(* Past its loop it reads from each future the reply to that request, its  *)
(* own error or its timeout: get() neither waits nor throws.               *)
ResultsAreOwn ==
  at \in {"get", "exited"} =>
    \A i \in Requests :
      /\ future[i] \in {"none", "ok", "error", "timeout"}
      /\ future[i] \in {"ok", "error"} => by[i] = i

-----------------------------------------------------------------------------
(* The invariant that ResultsAreOwn follows from                           *)

(* Every request goes out under the id in its text, and the others' differ.*)
OwnIds ==
  \A i \in Requests :
    pc[i] # "idle" => text[i] = RequestText(i) /\ id[i] = i /\ wire[i] = i

AllReady == \A i \in Requests : future[i] \in Settled

NothingAsked == \A i \in Requests : pc[i] = "idle"

PlaceInv ==
  /\ at # "exited" => kernel # "destroyed"
  /\ at = "start" => NothingAsked
  /\ at = "get" => AllReady
  /\ at = "return" => AllReady \/ NothingAsked

EndInv ==
  at = "exited" =>
    \A i \in Requests :
      /\ future[i] \in {"none", "ok", "error", "timeout"}
      /\ future[i] \in {"ok", "error"} => by[i] = i

ExampleInv == IndInv /\ OwnIds /\ PlaceInv /\ EndInv
=============================================================================
