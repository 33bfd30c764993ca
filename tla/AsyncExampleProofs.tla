------------------------- MODULE AsyncExampleProofs -------------------------
(***************************************************************************)
(* Theorems about module AsyncExample, for any number of requests: its     *)
(* steps are steps of AsyncBus, so that what is proved of AsyncBus holds   *)
(* of it, and the results it reads are those of its own requests.          *)
(***************************************************************************)
EXTENDS AsyncExample, AsyncBusRefinement

-----------------------------------------------------------------------------
(* The program uses AsyncBus through its methods only                      *)

LEMMA StepsAreAsyncBus == [ExampleNext]_exampleVars => [Next]_vars
<1> SUFFICES ASSUME [ExampleNext]_exampleVars PROVE [Next]_vars
  OBVIOUS
<1>1. CASE StartOrGiveUp
  BY <1>1 DEF StartOrGiveUp, Next
<1>2. ASSUME NEW i \in Requests, Request(i) PROVE Next
  BY <1>2 DEF Request, Next
<1>3. CASE AllRequested \/ Count \/ Exited \/ UNCHANGED exampleVars
  BY <1>3 DEF AllRequested, Count, Exited, exampleVars
<1>4. CASE Pump \/ PumpOver
  BY <1>4 DEF Pump, PumpOver, Next
<1>5. CASE CheckTimeouts
  BY <1>5 DEF CheckTimeouts, Next, Sweep
<1>6. CASE GetAndStop \/ Return
  BY <1>6 DEF GetAndStop, Return, Next
<1>7. CASE Environment
  BY <1>7 DEF Environment, Next, Worker
<1> QED
  BY <1>1, <1>2, <1>3, <1>4, <1>5, <1>6, <1>7 DEF ExampleNext, Main

(* The safety half of UsesAsyncBus: the program behaves as AsyncBus does. *)
LEMMA ImplementsAsyncBus == ExampleSpec => Spec
BY StepsAreAsyncBus, PTL DEF ExampleSpec, ExampleInit, Spec

(* What the program sees of its calls is what module RemoteCalls promises. *)
THEOREM ProgramSeesCalls == ExampleSpec => CallsSpec
BY ImplementsAsyncBus, Implements, PTL

-----------------------------------------------------------------------------
(* The ids of its requests                                                 *)

(* A request is made only in the place where main() makes it. *)
LEMMA AskedInPlace ==
  ASSUME TypeOK, [ExampleNext]_exampleVars, NEW i \in Requests, Prepare(i)
  PROVE  Request(i) /\ at = "request" /\ at' = "request"
<1>1. pc[i] = "idle" /\ pc'[i] = "prepared"
  BY PrepareEffect
<1>2. PICK j \in Requests : Request(j)
  BY <1>1
  DEF ExampleNext, Main, StartOrGiveUp, AllRequested, Pump, PumpOver, CheckTimeouts,
      Count, GetAndStop, Return, Environment, Exited, exampleVars, vars, Start, Stop,
      PumpEnter, PumpReturn, HandleResponse, Destroy, ReadClock, SweepExpired, Tick,
      WorkerReply, WorkerLoses, WorkerCall, KernelStopped, callVars
<1>3. j = i
  BY <1>1, <1>2
  DEF TypeOK, Request, Call, Prepare, Register, SendAccepted, SendRejected,
      ResolveRejected, Goto
<1> QED
  BY <1>2, <1>3 DEF Request, Goes

LEMMA NextOwnIds ==
  ASSUME TypeOK, OwnIds, [ExampleNext]_exampleVars
  PROVE  OwnIds'
<1> SUFFICES ASSUME NEW i \in Requests, pc'[i] # "idle"
             PROVE  text'[i] = RequestText(i) /\ id'[i] = i /\ wire'[i] = i
  BY DEF OwnIds, RequestText
<1>1. CASE Prepare(i)
  <2>1. text'[i] = RequestText(i)
    BY <1>1, AskedInPlace DEF Request
  <2>2. i # NoId
    BY IdsAssumption, ConstantsAssumption DEF Keys
  <2>3. RequestText(i).found = i /\ RequestText(i).id = i
    BY DEF RequestText
  <2>4. id'[i] = i
    BY <1>1, <2>1, <2>2, <2>3, PrepareEffect
  <2>5. WireIds(RequestText(i)) = {i}
    BY <2>2, <2>3 DEF WireIds
  <2>6. wire'[i] = i
    BY <1>1, <2>1, <2>5, PrepareEffect
  <2> QED
    BY <2>1, <2>4, <2>6
<1>2. CASE ~Prepare(i)
  BY <1>2, StepsAreAsyncBus, IdsStay, CallsAdvance DEF OwnIds
<1> QED
  BY <1>1, <1>2

(* Their ids are all different, so none clashes with another. *)
LEMMA NoClash ==
  ASSUME TypeOK, CallInv, OwnIds, NEW i \in Requests, pc[i] # "idle"
  PROVE  ~Clash(i)
<1>1. i # NoId
  BY IdsAssumption, ConstantsAssumption DEF Keys
<1> SUFFICES ASSUME NEW q \in Requests \ {i} PROVE i \notin {id[q], wire[q]}
  BY DEF Clash, OwnIds
<1> QED
  BY <1>1 DEF OwnIds, CallInv

(* As long as the bus lives, a settled future has its own outcome. *)
LEMMA ReadyIsOwn ==
  ASSUME IndInv, OwnIds, WorkerIds \subseteq {NoId}, NestedIds = {},
         kernel # "destroyed", NEW i \in Requests, future[i] \in Settled
  PROVE  /\ future[i] \in {"ok", "error", "timeout"}
         /\ future[i] \in {"ok", "error"} => by[i] = i
<1>1. pc[i] # "idle" /\ id[i] = i
  BY DEF IndInv, CallInv, OwnIds, Settled
<1>2. ~Clash(i)
  BY <1>1, NoClash DEF IndInv
<1>3. i \notin WorkerIds \cup NestedIds
  BY IdsAssumption, ConstantsAssumption DEF Keys
<1> QED
  BY <1>1, <1>2, <1>3
  DEF IndInv, OutcomeInv, OwnReply, OwnFailure, KeptPromise, Settled

-----------------------------------------------------------------------------
(* Where main() is when its futures are ready                              *)

LEMMA NextPlaceInv ==
  ASSUME IndInv, PlaceInv, [ExampleNext]_exampleVars
  PROVE  PlaceInv'
<1> USE DEF PlaceInv, Goes, NothingAsked, AllReady
<1>1. CASE StartOrGiveUp
  BY <1>1 DEF StartOrGiveUp, Start, vars, callVars, futureVars, kernelVars
<1>2. ASSUME NEW i \in Requests, Request(i) PROVE PlaceInv'
  BY <1>2 DEF Request, Call, Prepare, Register, SendAccepted, SendRejected,
              ResolveRejected, kernelVars
<1>3. CASE AllRequested \/ Exited \/ UNCHANGED exampleVars
  BY <1>3 DEF AllRequested, Exited, exampleVars, vars, callVars, futureVars, kernelVars
<1>4. CASE Count
  BY <1>4 DEF Count, vars, callVars, futureVars, kernelVars
<1>5. CASE Pump \/ PumpOver
  BY <1>5 DEF Pump, PumpOver, PumpEnter, HandleResponse, PumpReturn, vars, callVars,
              futureVars, kernelVars
<1>6. CASE CheckTimeouts
  BY <1>6 DEF CheckTimeouts, ReadClock, SweepExpired, kernelVars
<1>7. CASE GetAndStop
  BY <1>7 DEF GetAndStop, Stop, vars, futureVars, callVars, kernelVars
<1>8. CASE Return
  BY <1>8 DEF Return
<1>9. CASE Environment
  BY <1>9 DEF Environment, Tick, WorkerReply, WorkerLoses, WorkerCall, KernelStopped,
              callVars, futureVars, kernelVars
<1> QED
  BY <1>1, <1>2, <1>3, <1>4, <1>5, <1>6, <1>7, <1>8, <1>9 DEF ExampleNext, Main

(* The destructor finds no promise that waits. *)
LEMMA NextEndInv ==
  ASSUME IndInv, OwnIds, PlaceInv, EndInv, WorkerIds \subseteq {NoId},
         NestedIds = {}, [ExampleNext]_exampleVars
  PROVE  EndInv'
<1>1. CASE Return
  <2>1. at = "return" /\ kernel # "destroyed" /\ Destroy
    BY <1>1 DEF Return, Goes, Destroy
  <2>2. \A i \in Requests : future[i] \in Settled \/ future[i] = "none"
    BY <2>1 DEF PlaceInv, AllReady, NothingAsked, IndInv, CallInv
  <2>3. DOMAIN pending = {}
    <3> SUFFICES ASSUME NEW k \in DOMAIN pending PROVE FALSE
      OBVIOUS
    <3>1. pending[k] \in Requests
      BY DEF IndInv, TypeOK
    <3>2. future[pending[k]] = "unset"
      BY DEF IndInv, FiledIsUnset
    <3> QED
      BY <2>2, <3>1, <3>2 DEF Settled
  <2>4. \A i \in Requests : future'[i] = future[i] /\ by'[i] = by[i]
    BY <2>1, <2>3 DEF Destroy, Settle
  <2>5. \A i \in Requests : future[i] \in Settled =>
          /\ future[i] \in {"ok", "error", "timeout"}
          /\ future[i] \in {"ok", "error"} => by[i] = i
    BY <2>1, ReadyIsOwn
  <2> QED
    BY <2>2, <2>4, <2>5 DEF EndInv
<1>2. CASE UNCHANGED <<at, futureVars>>
  BY <1>2 DEF EndInv, futureVars
<1>3. CASE at' # "exited"
  BY <1>3 DEF EndInv
<1> QED
  BY <1>1, <1>2, <1>3
  DEF ExampleNext, Main, StartOrGiveUp, Request, AllRequested, Pump, PumpOver,
      CheckTimeouts, Count, GetAndStop, Environment, Exited, exampleVars, vars, Goes,
      Tick, WorkerReply, WorkerLoses, WorkerCall

-----------------------------------------------------------------------------
(* The theorems                                                            *)

(* The program reads from each future what became of that request, and     *)
(* never a broken promise: on the ids 1, 2, ... that it chose itself, with *)
(* workers that make no requests of their own.                             *)
THEOREM ResultsOwn ==
  ASSUME WorkerIds \subseteq {NoId}, NestedIds = {}
  PROVE  ExampleSpec => []ResultsAreOwn
<1>1. ExampleInit => OwnIds /\ PlaceInv /\ EndInv
  BY DEF ExampleInit, Init, OwnIds, PlaceInv, EndInv, NothingAsked
<1>2. IndInv /\ OwnIds /\ PlaceInv /\ EndInv /\ [ExampleNext]_exampleVars
        => OwnIds' /\ PlaceInv' /\ EndInv'
  BY NextOwnIds, NextPlaceInv, NextEndInv DEF IndInv
<1>3. IndInv /\ OwnIds /\ PlaceInv /\ EndInv => ResultsAreOwn
  <2> SUFFICES ASSUME IndInv, OwnIds, PlaceInv, EndInv
               PROVE  ResultsAreOwn
    OBVIOUS
  <2>1. CASE at = "get"
    BY <2>1, ReadyIsOwn DEF PlaceInv, AllReady, ResultsAreOwn
  <2>2. CASE at = "exited"
    BY <2>2 DEF EndInv, ResultsAreOwn
  <2> QED
    BY <2>1, <2>2 DEF ResultsAreOwn
<1>4. ExampleSpec => []IndInv
  BY ImplementsAsyncBus, Inductive, PTL
<1> QED
  BY <1>1, <1>2, <1>3, <1>4, PTL DEF ExampleSpec
=============================================================================
