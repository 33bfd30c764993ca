------------------------- MODULE AsyncBusRefinement -------------------------
(***************************************************************************)
(* AsyncBus implements RemoteCalls, for any number of calls, any ids and   *)
(* any timeouts: its map, its lock and its threads do not show.            *)
(***************************************************************************)
EXTENDS AsyncBusProofs

USE DEF callVars, mapVars, futureVars, kernelVars, timeVars

-----------------------------------------------------------------------------
(* The map and the calls that wait                                         *)

(* Once the object is gone, no thread is inside one of its methods. *)
NobodyInside ==
  kernel = "destroyed" => \A r \in Requests : pc[r] \in {"idle", "returned"}

LEMMA NextNobodyInside ==
  ASSUME TypeOK, NobodyInside, [Next]_vars
  PROVE  NobodyInside'
<1>1. CASE Destroy
  BY <1>1 DEF Destroy, NobodyInside
<1>2. ASSUME NEW q \in Requests, Call(q) PROVE NobodyInside'
  <2>1. kernel # "destroyed"
    BY <1>2 DEF NobodyInside, Call, Prepare, Register, SendAccepted, SendRejected,
                ResolveRejected, Goto
  <2> QED
    BY <1>2, <2>1 DEF NobodyInside, Call, Prepare, Register, SendAccepted,
                      SendRejected, ResolveRejected
<1>3. ASSUME UNCHANGED pc, kernel' = "destroyed" => kernel = "destroyed"
      PROVE  NobodyInside'
  BY <1>3 DEF NobodyInside
<1> QED
  BY <1>1, <1>2, <1>3
  DEF Next, Start, Stop, PumpEnter, PumpReturn, HandleResponse, Sweep, ReadClock,
      SweepExpired, Tick, Worker, WorkerReply, WorkerLoses, WorkerCall, KernelStopped,
      Gone, vars

(* The map holds the calls that wait, each under its key. *)
LEMMA MapIsWaiting ==
  ASSUME IndInv
  PROVE  /\ Remote!Waiting = {pending[k] : k \in DOMAIN pending}
         /\ \A k : Filed(k) = {c \in Remote!Waiting : CallKey[c] = k}
         /\ \A k : \A c \in Filed(k) : Filed(k) = {c}
         /\ \A r \in Remote!Waiting : Registered(r) /\ future[r] = "unset"
<1>1. ASSUME NEW r \in Requests
      PROVE  r \in Remote!Waiting <=> Registered(r) /\ future[r] = "unset"
  <2>1. future[r] # "waiting"
    BY DEF IndInv, TypeOK, Settled
  <2> QED
    BY <2>1 DEF Remote!Waiting, CallStatus
<1>2. ASSUME NEW r \in Requests, Registered(r), future[r] = "unset"
      PROVE  id[r] \in DOMAIN pending /\ pending[id[r]] = r /\ CallKey[r] = id[r]
  BY <1>2 DEF IndInv, UnsetIsFiled, Registered, CallKey
<1>3. ASSUME NEW k \in DOMAIN pending
      PROVE  /\ pending[k] \in Requests /\ Registered(pending[k])
             /\ future[pending[k]] = "unset" /\ id[pending[k]] = k
  BY DEF IndInv, TypeOK, FiledIsUnset, Registered
<1>4. \A r \in Remote!Waiting : r \in Requests
  BY DEF Remote!Waiting
<1>5. Remote!Waiting = {pending[k] : k \in DOMAIN pending}
  BY <1>1, <1>2, <1>3, <1>4
<1>6. ASSUME NEW k, NEW c \in Requests
      PROVE  c \in Filed(k) <=> c \in Remote!Waiting /\ CallKey[c] = k
  BY <1>1, <1>2, <1>3 DEF Filed
<1>7. \A k : Filed(k) \subseteq Requests
  BY DEF Filed
<1>8. \A k : \A c \in Filed(k) : Filed(k) = {c}
  BY DEF Filed
<1> QED
  BY <1>1, <1>4, <1>5, <1>6, <1>7, <1>8

-----------------------------------------------------------------------------
(* What a step leaves alone                                                *)

(* Only Register makes a call wait, gives it its key and its deadline. *)
LEMMA OthersStay ==
  ASSUME IndInv, [Next]_vars, NEW r \in Requests, ~Register(r)
  PROVE  /\ Registered(r)' <=> Registered(r)
         /\ CallKey'[r] = CallKey[r]
         /\ CallDue'[r] = CallDue[r]
<1>1. CASE Prepare(r)
  <2>1. ~Registered(r) /\ ~Registered(r)'
    BY <1>1, PrepareEffect DEF IndInv, Registered
  <2>2. deadline'[r] = deadline[r]
    BY <1>1 DEF Prepare
  <2> QED
    BY <2>1, <2>2 DEF CallKey, CallDue
<1>2. CASE ~Prepare(r)
  <2>1. deadline'[r] = deadline[r] /\ (pc[r] = "prepared" => pc'[r] = "prepared")
    <3>1. CASE Call(r)
      BY <1>2, <3>1 DEF Call, SendAccepted, SendRejected, ResolveRejected, Goto
    <3> QED
      BY <3>1, LocalsAreOwn DEF IndInv
  <2>2. id'[r] = id[r]
    BY <1>2, IdsStay DEF IndInv
  <2>3. Registered(r)' <=> Registered(r)
    BY <1>2, <2>1, CallsAdvance DEF IndInv, Registered
  <2>4. Instant(deadline[r])' = Instant(deadline[r])
    BY <2>1 DEF Instant
  <2> QED
    BY <2>1, <2>2, <2>3 DEF CallKey, CallDue
<1> QED
  BY <1>1, <1>2

LEMMA KeysAndDuesStay ==
  ASSUME IndInv, [Next]_vars, \A q \in Requests : ~Register(q)
  PROVE  /\ CallKey' = CallKey /\ CallDue' = CallDue
         /\ \A r \in Requests : Registered(r)' <=> Registered(r)
<1>1. \A r \in Requests : /\ Registered(r)' <=> Registered(r)
                          /\ CallKey'[r] = CallKey[r]
                          /\ CallDue'[r] = CallDue[r]
  BY OthersStay
<1>2. CallKey = [r \in Requests |-> CallKey[r]] /\ CallDue = [r \in Requests |-> CallDue[r]]
  BY DEF CallKey, CallDue
<1>3. CallKey' = [r \in Requests |-> CallKey'[r]] /\ CallDue' = [r \in Requests |-> CallDue'[r]]
  BY DEF CallKey, CallDue
<1> QED
  BY <1>1, <1>2, <1>3

(* Settling the futures of calls that wait ends these calls. *)
LEMMA SettlingConcludes ==
  ASSUME IndInv, \A r \in Requests : Registered(r)' <=> Registered(r),
         NEW S \in SUBSET Remote!Waiting, NEW outcome \in Settled,
         \A r \in Requests : Registered(r) =>
           future'[r] = IF r \in S THEN outcome ELSE future[r]
  PROVE  Remote!Conclude(S, outcome)
<1>1. outcome # "unset"
  BY DEF Settled
<1>2. ASSUME NEW r \in Requests
      PROVE  CallStatus'[r] = IF r \in S THEN outcome ELSE CallStatus[r]
  <2>1. r \in S => Registered(r) /\ future[r] = "unset"
    BY MapIsWaiting
  <2> QED
    BY <1>1, <2>1 DEF CallStatus
<1>3. CallStatus' = [r \in Requests |-> CallStatus'[r]]
  BY DEF CallStatus
<1> QED
  BY <1>2, <1>3 DEF Remote!Conclude

-----------------------------------------------------------------------------
(* One lemma for each step that begins or ends calls                       *)

LEMMA RegisterBegins ==
  ASSUME IndInv, NobodyInside, [Next]_vars, NEW q \in Requests, Register(q)
  PROVE  Remote!Begin(q)
<1>1. /\ pc[q] = "prepared" /\ pc'[q] = "sending" /\ future[q] = "unset"
      /\ id' = id /\ id[q] \in Keys /\ kernel' = kernel /\ clock' = clock
      /\ deadline'[q] \in Nat
  BY NextTypeOK DEF IndInv, TypeOK, CallInv, Register, Goto
<1>2. ASSUME NEW r \in Requests, r # q
      PROVE  /\ Registered(r)' <=> Registered(r)
             /\ CallKey'[r] = CallKey[r]
             /\ CallDue'[r] = CallDue[r]
  <2>1. ~Register(r)
    BY <1>1, <1>2 DEF IndInv, TypeOK, Register, Goto
  <2> QED
    BY <2>1, OthersStay
<1>3. ~Registered(q) /\ Registered(q)'
  BY <1>1 DEF Registered
<1>4. CallKey'[q] = id[q]
  BY <1>1, <1>3 DEF CallKey
<1>5. CallDue'[q] \in Int
  BY <1>1, InstantInRange DEF CallDue
<1>6. CallKey' = [CallKey EXCEPT ![q] = CallKey'[q]]
  <2>1. CallKey' = [r \in Requests |-> CallKey'[r]]
    BY DEF CallKey
  <2>2. CallKey = [r \in Requests |-> CallKey[r]]
    BY DEF CallKey
  <2> QED
    BY <1>2, <2>1, <2>2
<1>7. CallDue' = [CallDue EXCEPT ![q] = CallDue'[q]]
  <2>1. CallDue' = [r \in Requests |-> CallDue'[r]]
    BY DEF CallDue
  <2>2. CallDue = [r \in Requests |-> CallDue[r]]
    BY DEF CallDue
  <2> QED
    BY <1>2, <2>1, <2>2
<1>8. Filed(id[q]) = {c \in Remote!Waiting : CallKey[c] = CallKey'[q]}
  BY <1>4, MapIsWaiting
<1>9. q \notin Remote!Waiting
  BY <1>3, MapIsWaiting
<1>10. \A r \in Requests :
         future'[r] = IF r \in Filed(id[q]) THEN "broken" ELSE future[r]
  BY DEF Register, Settle
<1>11. CallStatus'[q] = "waiting"
  <2>1. q \notin Filed(id[q])
    BY <1>8, <1>9
  <2> QED
    BY <1>1, <1>3, <1>10, <2>1 DEF CallStatus
<1>12. ASSUME NEW r \in Requests, r # q
       PROVE  CallStatus'[r] = IF r \in Remote!Waiting /\ CallKey[r] = CallKey'[q]
                               THEN "broken" ELSE CallStatus[r]
  <2>1. CASE r \in Filed(id[q])
    <3>1. Registered(r)
      BY <1>8, <2>1, MapIsWaiting
    <3> QED
      BY <1>2, <1>8, <1>10, <1>12, <2>1, <3>1 DEF CallStatus
  <2>2. CASE r \notin Filed(id[q])
    BY <1>2, <1>8, <1>10, <1>12, <2>2 DEF CallStatus
  <2> QED
    BY <2>1, <2>2
<1>13. CallStatus' = [d \in Requests |->
                        IF d = q THEN "waiting"
                        ELSE IF d \in Remote!Waiting /\ CallKey[d] = CallKey'[q]
                             THEN "broken" ELSE CallStatus[d]]
  <2>1. CallStatus' = [r \in Requests |-> CallStatus'[r]]
    BY DEF CallStatus
  <2> QED
    BY <1>11, <1>12, <2>1
<1>14. kernel # "destroyed" /\ CallStatus[q] = "unmade"
  BY <1>1, <1>3 DEF NobodyInside, CallStatus
<1> QED
  BY <1>1, <1>4, <1>5, <1>6, <1>7, <1>13, <1>14 DEF Remote!Begin

(* What is found under a key is one call that waits, or nothing. *)
LEMMA LookupConcludes ==
  ASSUME IndInv, [Next]_vars, \A q \in Requests : ~Register(q) /\ ~Prepare(q),
         NEW k, NEW outcome \in Settled, NEW cause,
         Settle(Filed(k), outcome, cause)
  PROVE  \/ \E c \in Remote!Waiting : Remote!Conclude({c}, outcome)
         \/ CallStatus' = CallStatus
<1>1. \A r \in Requests : Registered(r)' <=> Registered(r)
  BY KeysAndDuesStay
<1>2. \A r \in Requests :
        future'[r] = IF r \in Filed(k) THEN outcome ELSE future[r]
  BY DEF Settle
<1>3. CASE Filed(k) = {}
  BY <1>1, <1>2, <1>3 DEF CallStatus
<1>4. ASSUME NEW c \in Filed(k) PROVE c \in Remote!Waiting /\ Remote!Conclude({c}, outcome)
  <2>1. c \in Remote!Waiting /\ Filed(k) = {c}
    BY MapIsWaiting
  <2>2. \A r \in Requests : Registered(r) =>
          future'[r] = IF r \in {c} THEN outcome ELSE future[r]
    BY <1>2, <2>1
  <2> QED
    BY <1>1, <2>1, <2>2, SettlingConcludes
<1> QED
  BY <1>3, <1>4

LEMMA SweepExpires ==
  ASSUME IndInv, [Next]_vars, SweepExpired
  PROVE  Remote!Expire
<1>1. \A q \in Requests : ~Register(q)
  BY DEF SweepExpired, Register, IndInv, TypeOK
<1>2. /\ CallKey' = CallKey /\ CallDue' = CallDue
      /\ \A r \in Requests : Registered(r)' <=> Registered(r)
  BY <1>1, KeysAndDuesStay
<1>3. sampled \in 0..clock /\ clock' = clock /\ kernel' = kernel
  BY DEF SweepExpired, IndInv, TypeOK, ClockInv
<1> DEFINE expired == {pending[k] : k \in ExpiredKeys}
           late == {c \in Remote!Waiting : CallDue[c] <= sampled}
<1>4. expired = late
  <2>1. \A k \in DOMAIN pending : CallDue[pending[k]] = Instant(deadline[pending[k]])
    BY DEF CallDue, IndInv, TypeOK
  <2>2. \A k \in DOMAIN pending : Instant(deadline[pending[k]]) \in Int
    BY InstantInRange DEF IndInv, TypeOK
  <2>3. expired = {c \in {pending[k] : k \in DOMAIN pending} : CallDue[c] <= sampled}
    BY <1>3, <2>1, <2>2 DEF ExpiredKeys
  <2> QED
    BY <2>3, MapIsWaiting
<1>5. \A r \in Requests : future'[r] = IF r \in expired THEN "timeout" ELSE future[r]
  BY DEF SweepExpired
<1> HIDE DEF expired
<1>6. Remote!Conclude(late, "timeout")
  <2>1. late \in SUBSET Remote!Waiting /\ "timeout" \in Settled
    BY DEF Settled
  <2>2. \A r \in Requests : Registered(r) =>
          future'[r] = IF r \in late THEN "timeout" ELSE future[r]
    BY <1>4, <1>5
  <2> HIDE DEF late
  <2> QED
    BY <1>2, <2>1, <2>2, SettlingConcludes
<1> QED
  BY <1>2, <1>3, <1>6 DEF Remote!Expire

LEMMA DestroyCloses ==
  ASSUME IndInv, [Next]_vars, Destroy
  PROVE  Remote!Close
<1>1. \A q \in Requests : ~Register(q)
  BY DEF Destroy, Register
<1>2. /\ CallKey' = CallKey /\ CallDue' = CallDue
      /\ \A r \in Requests : Registered(r)' <=> Registered(r)
  BY <1>1, KeysAndDuesStay
<1>3. Remote!Conclude(Remote!Waiting, "broken")
  <2>1. Remote!Waiting \in SUBSET Remote!Waiting /\ "broken" \in Settled
    BY DEF Settled
  <2>2. \A r \in Requests : Registered(r) =>
          future'[r] = IF r \in Remote!Waiting THEN "broken" ELSE future[r]
    BY MapIsWaiting DEF Destroy, Settle
  <2> QED
    BY <1>2, <2>1, <2>2, SettlingConcludes
<1> QED
  BY <1>2, <1>3 DEF Destroy, Remote!Close

(* A step that leaves the futures of calls under way alone. *)
LEMMA QuietStep ==
  ASSUME IndInv, [Next]_vars, \A q \in Requests : ~Register(q),
         \A r \in Requests : Registered(r) => future'[r] = future[r]
  PROVE  CallStatus' = CallStatus /\ CallKey' = CallKey /\ CallDue' = CallDue
<1>1. /\ CallKey' = CallKey /\ CallDue' = CallDue
      /\ \A r \in Requests : Registered(r)' <=> Registered(r)
  BY KeysAndDuesStay
<1> QED
  BY <1>1 DEF CallStatus

LEMMA CallImplements ==
  ASSUME IndInv, NobodyInside, [Next]_vars, NEW q \in Requests, Call(q)
  PROVE  [Remote!Next]_(Remote!vars)
<1>1. CASE Register(q)
  BY <1>1, RegisterBegins DEF Remote!Next
<1>2. CASE ~Register(q)
  <2>1. kernel' = kernel /\ clock' = clock
    BY <1>2 DEF Call, Prepare, SendAccepted, SendRejected, ResolveRejected
  <2>2. ASSUME NEW r \in Requests PROVE ~Register(r)
    BY <1>2 DEF IndInv, TypeOK, Call, Prepare, Register, SendAccepted, SendRejected,
                ResolveRejected, Goto
  <2>3. CASE ResolveRejected(q)
    <3>1. ASSUME NEW r \in Requests PROVE ~Prepare(r)
      BY <2>3 DEF IndInv, TypeOK, ResolveRejected, Prepare, Goto
    <3>2. \/ \E c \in Remote!Waiting : Remote!Conclude({c}, "error")
          \/ CallStatus' = CallStatus
      BY <2>2, <2>3, <3>1, LookupConcludes DEF ResolveRejected, Settled
    <3>3. CallKey' = CallKey /\ CallDue' = CallDue
      BY <2>2, KeysAndDuesStay
    <3> QED
      BY <2>1, <3>2, <3>3 DEF Remote!Next, Remote!Fail, Remote!Waiting, Remote!vars
  <2>4. CASE ~ResolveRejected(q)
    <3>1. \A r \in Requests : Registered(r) => future'[r] = future[r]
      BY <1>2, <2>4 DEF IndInv, TypeOK, Call, Prepare, SendAccepted, SendRejected,
                        Goto, Registered
    <3> QED
      BY <2>1, <2>2, <3>1, QuietStep DEF Remote!vars
  <2> QED
    BY <2>3, <2>4
<1> QED
  BY <1>1, <1>2

LEMMA ResponseImplements ==
  ASSUME IndInv, [Next]_vars, NEW m \in inbox, HandleResponse(m)
  PROVE  [Remote!Next]_(Remote!vars)
<1>1. kernel' = kernel /\ clock' = clock
  BY DEF HandleResponse
<1>2. ASSUME NEW r \in Requests PROVE ~Register(r) /\ ~Prepare(r)
  BY DEF IndInv, TypeOK, HandleResponse, Register, Prepare, Goto
<1>3. CallKey' = CallKey /\ CallDue' = CallDue
  BY <1>2, KeysAndDuesStay
<1>4. CASE m.key = NoId
  <2>1. \A r \in Requests : future'[r] = future[r]
    BY <1>4 DEF HandleResponse, Settle
  <2> QED
    BY <1>1, <1>2, <2>1, QuietStep DEF Remote!vars
<1>5. CASE m.key # NoId
  <2>1. Settle(Filed(m.key), "ok", m.to)
    BY <1>5 DEF HandleResponse
  <2>2. \/ \E c \in Remote!Waiting : Remote!Conclude({c}, "ok")
        \/ CallStatus' = CallStatus
    BY <1>2, <2>1, LookupConcludes DEF Settled
  <2> QED
    BY <1>1, <1>3, <2>2 DEF Remote!Next, Remote!Answer, Remote!Waiting, Remote!vars
<1> QED
  BY <1>4, <1>5

-----------------------------------------------------------------------------
(* The theorems                                                            *)

(* Whatever the threads, the workers and the clock do, callers see the     *)
(* calls of RemoteCalls: the map of async.hpp is looked up, overwritten    *)
(* and swept so that each event ends the calls it is about and no others.  *)
THEOREM Implements == Spec => CallsSpec
<1>1. Init => Remote!Init /\ NobodyInside
  <2> SUFFICES ASSUME Init PROVE Remote!Init /\ NobodyInside
    OBVIOUS
  <2>1. \A r \in Requests : ~Registered(r) /\ Instant(deadline[r]) = 0
    <3>1. Instant(0) = 0
      BY InstantInRange, ConstantsAssumption
    <3> QED
      BY <3>1 DEF Init, Registered
  <2>2. kernel # "destroyed" /\ clock = 0
    BY DEF Init
  <2> QED
    BY <2>1, <2>2 DEF Remote!Init, NobodyInside, CallStatus, CallKey, CallDue
<1>2. TypeOK /\ NobodyInside /\ [Next]_vars => NobodyInside'
  BY NextNobodyInside
<1>3. ASSUME IndInv, NobodyInside, [Next]_vars
      PROVE  [Remote!Next]_(Remote!vars)
  <2>1. ASSUME NEW q \in Requests, Call(q) PROVE [Remote!Next]_(Remote!vars)
    BY <1>3, <2>1, CallImplements
  <2>2. ASSUME NEW m \in inbox, HandleResponse(m)
        PROVE  [Remote!Next]_(Remote!vars)
    BY <1>3, <2>2, ResponseImplements
  <2>3. CASE Destroy
    BY <1>3, <2>3, DestroyCloses DEF Remote!Next
  <2>4. CASE SweepExpired
    BY <1>3, <2>4, SweepExpires DEF Remote!Next
  <2>5. ASSUME UNCHANGED <<pc, future>>
        PROVE  CallStatus' = CallStatus /\ CallKey' = CallKey /\ CallDue' = CallDue
    <3>1. \A q \in Requests : ~Register(q)
      BY <1>3, <2>5 DEF Register, Goto, IndInv, TypeOK
    <3> QED
      BY <1>3, <2>5, <3>1, QuietStep
  <2>6. CASE Tick
    BY <2>5, <2>6 DEF Tick, Remote!Next, Remote!Tick
  <2>7. ASSUME UNCHANGED <<pc, future, clock>>,
               kernel' = "destroyed" <=> kernel = "destroyed"
        PROVE  UNCHANGED Remote!vars
    BY <2>5, <2>7 DEF Remote!vars
  <2>8. CASE Start \/ Stop \/ PumpEnter \/ PumpReturn \/ ReadClock
    BY <2>7, <2>8 DEF Start, Stop, PumpEnter, PumpReturn, ReadClock
  <2>9. CASE Worker
    BY <2>7, <2>9 DEF Worker, WorkerReply, WorkerLoses, WorkerCall, KernelStopped
  <2>10. CASE UNCHANGED vars
    BY <2>7, <2>10 DEF vars
  <2> QED
    BY <1>3, <2>1, <2>2, <2>3, <2>4, <2>6, <2>8, <2>9, <2>10 DEF Next, Sweep, Gone
<1>4. IndInv => TypeOK
  BY DEF IndInv
<1> QED
  BY <1>1, <1>2, <1>3, <1>4, Inductive, PTL DEF Spec, CallsSpec, Remote!Spec

(* What follows from RemoteCalls alone: no two calls wait under one key,   *)
(* so that an answer can end only the one that its key means, and none     *)
(* waits once nobody can end it.                                           *)
THEOREM AnswersHaveOneTaker == Spec => [](Remote!OnePerKey /\ Remote!NoneLeft)
<1> DEFINE Inv == Remote!OnePerKey /\ Remote!NoneLeft
<1>1. Remote!Init => Inv
  BY DEF Remote!Init, Remote!OnePerKey, Remote!NoneLeft, Remote!Waiting
<1>2. ASSUME Inv, [Remote!Next]_(Remote!vars) PROVE Inv'
  <2>1. ASSUME NEW c \in Requests, Remote!Begin(c) PROVE Inv'
    <3>1. /\ CallKey = [r \in Requests |-> CallKey[r]]
          /\ CallKey' = [CallKey EXCEPT ![c] = CallKey'[c]]
      BY <2>1 DEF Remote!Begin, CallKey
    <3>2. \A d \in Requests : d # c => CallKey'[d] = CallKey[d]
      BY <3>1
    <3>3. \A d \in Remote!Waiting' :
            d # c => d \in Remote!Waiting /\ CallKey[d] # CallKey'[c]
      BY <2>1 DEF Remote!Begin, Remote!Waiting
    <3>4. Remote!OnePerKey'
      <4> SUFFICES ASSUME NEW d \in Remote!Waiting', NEW e \in Remote!Waiting',
                          CallKey'[d] = CallKey'[e]
                   PROVE  d = e
        BY DEF Remote!OnePerKey
      <4>1. d \in Requests /\ e \in Requests
        BY DEF Remote!Waiting
      <4> QED
        BY <1>2, <3>2, <3>3, <4>1 DEF Remote!OnePerKey
    <3>5. ~(kernel' = "destroyed")
      BY <2>1 DEF Remote!Begin
    <3> QED
      BY <3>4, <3>5 DEF Remote!NoneLeft
  <2>2. ASSUME Remote!Waiting' \subseteq Remote!Waiting, CallKey' = CallKey,
               kernel' = "destroyed" => kernel = "destroyed" \/ Remote!Waiting' = {}
        PROVE  Inv'
    BY <1>2, <2>2 DEF Remote!OnePerKey, Remote!NoneLeft
  <2>3. ASSUME NEW S, NEW outcome \in Settled, Remote!Conclude(S, outcome)
        PROVE  Remote!Waiting' = Remote!Waiting \ S
    BY <2>3 DEF Remote!Conclude, Remote!Waiting, Settled
  <2>4. ASSUME NEW c \in Requests, Remote!Answer(c) \/ Remote!Fail(c) PROVE Inv'
    BY <2>2, <2>3, <2>4 DEF Remote!Answer, Remote!Fail, Settled
  <2>5. CASE Remote!Expire
    BY <2>2, <2>3, <2>5 DEF Remote!Expire, Settled
  <2>6. CASE Remote!Close
    <3>1. Remote!Waiting' = {}
      BY <2>3, <2>6 DEF Remote!Close, Settled
    <3> QED
      BY <2>2, <2>6, <3>1 DEF Remote!Close
  <2>7. CASE Remote!Tick \/ UNCHANGED Remote!vars
    BY <2>2, <2>7 DEF Remote!Tick, Remote!vars, Remote!Waiting
  <2> QED
    BY <1>2, <2>1, <2>4, <2>5, <2>6, <2>7 DEF Remote!Next
<1> QED
  BY <1>1, <1>2, Implements, PTL DEF CallsSpec, Remote!Spec
=============================================================================
