--------------------------- MODULE AsyncBusProofs ---------------------------
(***************************************************************************)
(* Theorems about AsyncBus, for all sets of calls, ids, messages and       *)
(* timeouts and for any number of steps.                                   *)
(***************************************************************************)
EXTENDS AsyncBus, TLAPS

USE DEF callVars, mapVars, futureVars, kernelVars, timeVars

-----------------------------------------------------------------------------
(* Type correctness                                                        *)

LEMMA InitTypeOK == Init => TypeOK
<1> SUFFICES ASSUME Init PROVE TypeOK
  OBVIOUS
<1>1. DOMAIN pending = {} /\ pending \in [DOMAIN pending -> Requests]
  BY DEF Init
<1>2. inbox \subseteq WorkerMessage /\ sampled \in Nat \cup {NoTime}
  BY DEF Init
<1> QED
  BY <1>1, <1>2 DEF Init, TypeOK

(* The two operators through which every settling step goes. *)
LEMMA SettleType ==
  ASSUME TypeOK, NEW S, NEW outcome \in Settled,
         NEW cause \in Requests \cup {NoOne}, Settle(S, outcome, cause)
  PROVE  /\ future' \in [Requests -> {"none", "unset"} \cup Settled]
         /\ by' \in [Requests -> Requests \cup {NoOne}]
BY DEF TypeOK, Settle

LEMMA EraseType ==
  ASSUME TypeOK, NEW K, Erase(K)
  PROVE  /\ DOMAIN pending' = DOMAIN pending \ K
         /\ pending' \in [DOMAIN pending' -> Requests]
         /\ \A k \in DOMAIN pending' : pending'[k] = pending[k]
BY DEF TypeOK, Erase, Restrict

LEMMA PrepareTypeOK ==
  ASSUME TypeOK, NEW r \in Requests, Prepare(r)
  PROVE  TypeOK'
<1>1. PICK m \in Messages :
        /\ text' = [text EXCEPT ![r] = m]
        /\ id' = [id EXCEPT ![r] = IF m.found # NoId THEN m.found ELSE nextId]
        /\ nextId' = IF m.found # NoId THEN nextId ELSE nextId + 1
        /\ \E w \in WireIds(m) : wire' = [wire EXCEPT ![r] = w]
  BY DEF Prepare, IdOf, NextIdAfter
<1>2. m \in Message /\ m.found \in Keys \cup {NoId} /\ m.id \in Keys \cup {NoId}
  BY ConstantsAssumption DEF Message
<1>3. nextId \in Keys /\ nextId + 1 \in Nat
  BY DEF TypeOK, Keys
<1>4. WireIds(m) \subseteq Keys \cup {NoId}
  BY <1>2, <1>3 DEF WireIds
<1>5. wire' \in [Requests -> Keys \cup {NoId}]
  BY <1>1, <1>4 DEF TypeOK
<1>6. /\ text' \in [Requests -> Message \cup {NoText}]
      /\ id' \in [Requests -> Keys \cup {NoId}]
      /\ nextId' \in Nat
  BY <1>1, <1>2, <1>3 DEF TypeOK
<1> QED
  BY <1>5, <1>6 DEF TypeOK, Prepare, Goto

LEMMA RegisterTypeOK ==
  ASSUME TypeOK, NEW r \in Requests, Register(r), id[r] \in Keys
  PROVE  TypeOK'
<1>1. deadline' \in [Requests -> Nat]
  BY ConstantsAssumption DEF TypeOK, Register
<1>2. /\ future' \in [Requests -> {"none", "unset"} \cup Settled]
      /\ by' \in [Requests -> Requests \cup {NoOne}]
  BY SettleType DEF Register, Settled
<1>3. /\ DOMAIN pending' \subseteq Keys
      /\ pending' \in [DOMAIN pending' -> Requests]
  BY DEF TypeOK, Register
<1> QED
  BY <1>1, <1>2, <1>3 DEF TypeOK, Register, Goto

LEMMA ResolveRejectedTypeOK ==
  ASSUME TypeOK, NEW r \in Requests, ResolveRejected(r)
  PROVE  TypeOK'
<1>1. /\ future' \in [Requests -> {"none", "unset"} \cup Settled]
      /\ by' \in [Requests -> Requests \cup {NoOne}]
  BY SettleType DEF ResolveRejected, Settled
<1>2. DOMAIN pending' \subseteq Keys /\ pending' \in [DOMAIN pending' -> Requests]
  BY EraseType DEF TypeOK, ResolveRejected
<1> QED
  BY <1>1, <1>2 DEF TypeOK, ResolveRejected, Goto

LEMMA HandleResponseTypeOK ==
  ASSUME TypeOK, NEW m \in inbox, HandleResponse(m)
  PROVE  TypeOK'
<1>1. m.to \in Requests \cup {NoOne}
  BY DEF TypeOK, WorkerMessage
<1>2. /\ future' \in [Requests -> {"none", "unset"} \cup Settled]
      /\ by' \in [Requests -> Requests \cup {NoOne}]
  BY <1>1, SettleType DEF HandleResponse, Settled
<1>3. DOMAIN pending' \subseteq Keys /\ pending' \in [DOMAIN pending' -> Requests]
  BY EraseType DEF TypeOK, HandleResponse
<1> QED
  BY <1>2, <1>3 DEF TypeOK, HandleResponse

LEMMA DestroyTypeOK ==
  ASSUME TypeOK, Destroy
  PROVE  TypeOK'
<1>1. /\ future' \in [Requests -> {"none", "unset"} \cup Settled]
      /\ by' \in [Requests -> Requests \cup {NoOne}]
  BY SettleType DEF Destroy, Settled
<1>2. DOMAIN pending' \subseteq Keys /\ pending' \in [DOMAIN pending' -> Requests]
  BY EraseType DEF TypeOK, Destroy
<1> QED
  BY <1>1, <1>2 DEF TypeOK, Destroy

LEMMA SweepTypeOK ==
  ASSUME TypeOK, Sweep
  PROVE  TypeOK'
<1>1. CASE ReadClock
  BY <1>1 DEF TypeOK, ReadClock
<1>2. CASE SweepExpired
  <2>1. /\ future' \in [Requests -> {"none", "unset"} \cup Settled]
        /\ by' \in [Requests -> Requests \cup {NoOne}]
    BY <1>2 DEF TypeOK, SweepExpired, Settled
  <2>2. DOMAIN pending' \subseteq Keys /\ pending' \in [DOMAIN pending' -> Requests]
    BY <1>2, EraseType DEF TypeOK, SweepExpired
  <2> QED
    BY <1>2, <2>1, <2>2 DEF TypeOK, SweepExpired
<1> QED
  BY <1>1, <1>2 DEF Sweep

LEMMA WorkerTypeOK ==
  ASSUME TypeOK, Worker
  PROVE  TypeOK'
<1>1. ASSUME NEW r \in Requests, WorkerReply(r) PROVE TypeOK'
  <2>1. \A k \in {wire[r]} \cup NestedIds : [key |-> k, to |-> r] \in WorkerMessage
    BY ConstantsAssumption DEF TypeOK, WorkerMessage
  <2> QED
    BY <1>1, <2>1 DEF TypeOK, WorkerReply
<1>2. ASSUME NEW r \in Requests, WorkerLoses(r) PROVE TypeOK'
  BY <1>2 DEF TypeOK, WorkerLoses
<1>3. ASSUME NEW k \in WorkerIds, WorkerCall(k) PROVE TypeOK'
  <2>1. [key |-> k, to |-> NoOne] \in WorkerMessage
    BY ConstantsAssumption DEF WorkerMessage
  <2> QED
    BY <1>3, <2>1 DEF TypeOK, WorkerCall
<1>4. CASE KernelStopped
  BY <1>4 DEF TypeOK, KernelStopped
<1> QED
  BY <1>1, <1>2, <1>3, <1>4 DEF Worker

LEMMA NextTypeOK ==
  ASSUME TypeOK, CallInv, [Next]_vars
  PROVE  TypeOK'
<1>1. ASSUME NEW r \in Requests, Call(r) PROVE TypeOK'
  <2>1. Register(r) => id[r] \in Keys
    BY DEF Register, Goto, CallInv
  <2>2. SendAccepted(r) \/ SendRejected(r) => TypeOK'
    BY DEF TypeOK, SendAccepted, SendRejected, Goto
  <2> QED
    BY <1>1, <2>1, <2>2, PrepareTypeOK, RegisterTypeOK, ResolveRejectedTypeOK
    DEF Call
<1>2. CASE Start
  BY <1>2 DEF TypeOK, Start
<1>3. CASE Stop
  BY <1>3 DEF TypeOK, Stop
<1>4. CASE PumpEnter
  BY <1>4 DEF TypeOK, PumpEnter
<1>5. CASE PumpReturn
  BY <1>5 DEF TypeOK, PumpReturn
<1>6. CASE Tick
  BY <1>6 DEF TypeOK, Tick
<1>7. CASE UNCHANGED vars
  BY <1>7 DEF TypeOK, vars
<1> QED
  BY <1>1, <1>2, <1>3, <1>4, <1>5, <1>6, <1>7, HandleResponseTypeOK,
     DestroyTypeOK, SweepTypeOK, WorkerTypeOK
  DEF Next, Gone

-----------------------------------------------------------------------------
(* Settling                                                                *)

(* The step leaves the future of call r, and its cause, as they are. *)
Keeps(r) == future'[r] = future[r] /\ by'[r] = by[r]

(* The step settles the future of r, whose promise is in pending_. *)
SettlesFiled(r) ==
  /\ \E k \in DOMAIN pending : pending[k] = r
  /\ future[r] = "unset"
  /\ future'[r] \in Settled
  /\ pc[r] \in {"sending", "rejected", "returned"}

LEMMA SettleFiledOnly ==
  ASSUME TypeOK, FiledIsUnset,
         NEW S \in SUBSET {pending[k] : k \in DOMAIN pending},
         NEW outcome \in Settled, NEW cause, Settle(S, outcome, cause),
         NEW r \in Requests
  PROVE  Keeps(r) \/ SettlesFiled(r)
BY DEF TypeOK, FiledIsUnset, Settle, Keeps, SettlesFiled

(* Whatever step is taken, only a filed and so unsettled promise is        *)
(* settled, and only Prepare makes a new future.                           *)
LEMMA StepSettlesFiledOnly ==
  ASSUME TypeOK, FiledIsUnset, [Next]_vars, NEW r \in Requests
  PROVE  Keeps(r) \/ SettlesFiled(r) \/ Prepare(r)
<1> DEFINE filed == {pending[k] : k \in DOMAIN pending}
<1>1. \A k : Filed(k) \in SUBSET filed
  BY DEF Filed
<1>2. ASSUME NEW q \in Requests, Call(q), ~Prepare(r)
      PROVE  Keeps(r) \/ SettlesFiled(r)
  <2>1. CASE Prepare(q)
    <3>1. q # r
      BY <1>2, <2>1
    <3>2. future' = [future EXCEPT ![q] = "unset"] /\ by' = by
      BY <2>1 DEF Prepare
    <3> QED
      BY <3>1, <3>2 DEF TypeOK, Keeps
  <2>2. CASE Register(q)
    <3>1. Settle(Filed(id[q]), "broken", q)
      BY <2>2 DEF Register
    <3> QED
      BY <1>1, <3>1, SettleFiledOnly DEF Settled
  <2>3. CASE SendAccepted(q) \/ SendRejected(q)
    BY <2>3 DEF SendAccepted, SendRejected, Keeps
  <2>4. CASE ResolveRejected(q)
    <3>1. Settle(Filed(id[q]), "error", q)
      BY <2>4 DEF ResolveRejected
    <3> QED
      BY <1>1, <3>1, SettleFiledOnly DEF Settled
  <2> QED
    BY <1>2, <2>1, <2>2, <2>3, <2>4 DEF Call
<1>3. ASSUME NEW m \in inbox, HandleResponse(m)
      PROVE  Keeps(r) \/ SettlesFiled(r)
  <2>1. PICK S \in SUBSET filed : Settle(S, "ok", m.to)
    BY <1>1, <1>3 DEF HandleResponse
  <2> QED
    BY <2>1, SettleFiledOnly DEF Settled
<1>4. CASE Destroy
  <2>1. Settle(filed, "broken", NoOne)
    BY <1>4 DEF Destroy
  <2> QED
    BY <2>1, SettleFiledOnly DEF Settled
<1>5. CASE Sweep
  BY <1>5 DEF Sweep, ReadClock, SweepExpired, ExpiredKeys, TypeOK, Settled,
              FiledIsUnset, Keeps, SettlesFiled
<1>6. CASE Start \/ Stop \/ PumpEnter \/ PumpReturn \/ Tick
  BY <1>6 DEF Start, Stop, PumpEnter, PumpReturn, Tick, Keeps
<1>7. CASE Worker
  BY <1>7 DEF Worker, WorkerReply, WorkerLoses, WorkerCall, KernelStopped, Keeps
<1>8. CASE UNCHANGED vars
  BY <1>8 DEF vars, Keeps
<1> QED
  BY <1>2, <1>3, <1>4, <1>5, <1>6, <1>7, <1>8 DEF Next, Gone

-----------------------------------------------------------------------------
(* The locals of the calls                                                 *)

(* The locals of a call are its own thread's: no other step writes them. *)
LEMMA LocalsAreOwn ==
  ASSUME TypeOK, [Next]_vars, NEW r \in Requests, ~Call(r)
  PROVE  /\ pc'[r] = pc[r] /\ text'[r] = text[r] /\ id'[r] = id[r]
         /\ wire'[r] = wire[r] /\ deadline'[r] = deadline[r]
<1>1. ASSUME NEW q \in Requests, Call(q), q # r
      PROVE  /\ pc'[r] = pc[r] /\ text'[r] = text[r] /\ id'[r] = id[r]
             /\ wire'[r] = wire[r] /\ deadline'[r] = deadline[r]
  BY <1>1 DEF TypeOK, Call, Prepare, Register, SendAccepted, SendRejected,
              ResolveRejected, Goto
<1>2. CASE UNCHANGED callVars
  BY <1>2
<1>3. (\E q \in Requests : Call(q)) \/ UNCHANGED callVars
  BY DEF Next, Start, Stop, PumpEnter, PumpReturn, HandleResponse, Destroy,
         Sweep, ReadClock, SweepExpired, Tick, Worker, WorkerReply,
         WorkerLoses, WorkerCall, KernelStopped, Gone, vars
<1> QED
  BY <1>1, <1>2, <1>3

(* What Prepare(r) gives to call r. *)
LEMMA PrepareEffect ==
  ASSUME TypeOK, NEW r \in Requests, Prepare(r)
  PROVE  /\ pc[r] = "idle" /\ pc'[r] = "prepared" /\ future'[r] = "unset"
         /\ text'[r] \in Message
         /\ id'[r] = IF text'[r].found # NoId THEN text'[r].found ELSE nextId
         /\ nextId' = IF text'[r].found # NoId THEN nextId ELSE nextId + 1
         /\ id'[r] \in Keys
         /\ wire'[r] \in WireIds(text'[r])
<1>1. PICK m \in Messages :
        /\ text' = [text EXCEPT ![r] = m]
        /\ id' = [id EXCEPT ![r] = IF m.found # NoId THEN m.found ELSE nextId]
        /\ nextId' = IF m.found # NoId THEN nextId ELSE nextId + 1
        /\ \E w \in WireIds(m) : wire' = [wire EXCEPT ![r] = w]
  BY DEF Prepare, IdOf, NextIdAfter
<1>2. m \in Message /\ m.found \in Keys \cup {NoId} /\ nextId \in Keys
  BY ConstantsAssumption DEF Message, TypeOK, Keys
<1> QED
  BY <1>1, <1>2 DEF TypeOK, Prepare, Goto

(* Once made, the text, id and wire id of a call stay. *)
LEMMA IdsStay ==
  ASSUME TypeOK, [Next]_vars, NEW r \in Requests, ~Prepare(r)
  PROVE  text'[r] = text[r] /\ id'[r] = id[r] /\ wire'[r] = wire[r]
<1>1. CASE Call(r)
  BY <1>1 DEF Call, Register, SendAccepted, SendRejected, ResolveRejected
<1> QED
  BY <1>1, LocalsAreOwn

(* A call that has begun stays begun. *)
LEMMA CallsAdvance ==
  ASSUME TypeOK, [Next]_vars, NEW r \in Requests, ~Prepare(r)
  PROVE  /\ pc[r] = "idle" <=> pc'[r] = "idle"
         /\ pc[r] = "returned" => pc'[r] = "returned"
         /\ pc'[r] = "prepared" => pc[r] = "prepared"
         /\ pc[r] \in {"sending", "rejected", "returned"} =>
              pc'[r] \in {"sending", "rejected", "returned"}
<1>1. CASE Call(r)
  BY <1>1 DEF TypeOK, Call, Register, SendAccepted, SendRejected,
              ResolveRejected, Goto
<1> QED
  BY <1>1, LocalsAreOwn

LEMMA NextCallInv ==
  ASSUME TypeOK, CallInv, FiledIsUnset, [Next]_vars
  PROVE  CallInv'
<1> SUFFICES ASSUME NEW r \in Requests
             PROVE  /\ pc'[r] = "idle" => id'[r] = NoId /\ wire'[r] = NoId
                                            /\ future'[r] = "none"
                    /\ pc'[r] = "prepared" => future'[r] = "unset"
                    /\ pc'[r] # "idle" => id'[r] \in Keys /\ text'[r] \in Message
                                            /\ future'[r] # "none"
                    /\ Silent(r)' => wire'[r] \in {id'[r], NoId}
  BY DEF CallInv
<1>1. CASE Prepare(r)
  <2>1. Silent(r)' => WireIds(text'[r]) \subseteq {id'[r], NoId}
    BY <1>1, PrepareEffect DEF Silent, WireIds
  <2> QED
    BY <1>1, <2>1, PrepareEffect
<1>2. CASE ~Prepare(r)
  <2>1. /\ text'[r] = text[r] /\ id'[r] = id[r] /\ wire'[r] = wire[r]
        /\ Silent(r)' <=> Silent(r)
    BY <1>2, IdsStay DEF Silent
  <2>2. /\ pc[r] = "idle" <=> pc'[r] = "idle"
        /\ pc'[r] = "prepared" => pc[r] = "prepared"
    BY <1>2, CallsAdvance
  <2>3. Keeps(r) \/ SettlesFiled(r)
    BY <1>2, StepSettlesFiledOnly
  <2> QED
    BY <2>1, <2>2, <2>3 DEF CallInv, Keeps, SettlesFiled, Settled
<1> QED
  BY <1>1, <1>2

LEMMA NextInjectedApart ==
  ASSUME TypeOK, CallInv, InjectedApart, [Next]_vars
  PROVE  InjectedApart'
<1>1. nextId' \in Nat /\ nextId <= nextId'
  <2>1. (\E q \in Requests : Prepare(q)) \/ nextId' = nextId
    BY DEF Next, Call, Register, SendAccepted, SendRejected,
           ResolveRejected, Start, Stop, PumpEnter, PumpReturn, HandleResponse,
           Destroy, Sweep, ReadClock, SweepExpired, Tick, Worker, WorkerReply,
           WorkerLoses, WorkerCall, KernelStopped, Gone, vars
  <2>2. ASSUME NEW q \in Requests, Prepare(q) PROVE nextId' \in {nextId, nextId + 1}
    BY <2>2, PrepareEffect
  <2> QED
    BY <2>1, <2>2 DEF TypeOK
<1>2. ASSUME NEW r \in Requests, Injected(r)', ~Prepare(r)
      PROVE  Injected(r) /\ id'[r] = id[r]
  <2>1. text'[r] = text[r] /\ id'[r] = id[r]
    BY <1>2, IdsStay
  <2>2. pc[r] = "idle" => pc'[r] = "idle"
    BY <1>2, CallsAdvance
  <2> QED
    BY <1>2, <2>1, <2>2 DEF Injected
<1>3. ASSUME NEW r \in Requests, Injected(r)', Prepare(r)
      PROVE  /\ id'[r] = nextId /\ nextId' = nextId + 1
             /\ \A q \in Requests : q # r => ~Prepare(q)
  BY <1>3, PrepareEffect DEF Injected, TypeOK, Prepare, Goto
<1>4. ASSUME NEW r \in Requests, Injected(r)'
      PROVE  id'[r] \in Nat /\ id'[r] < nextId'
  BY <1>1, <1>2, <1>3, <1>4 DEF InjectedApart, TypeOK
<1>5. ASSUME NEW r \in Requests, NEW q \in Requests,
             Injected(r)', Injected(q)', id'[r] = id'[q]
      PROVE  r = q
  <2>1. CASE Prepare(r)
    BY <1>2, <1>3, <1>5, <2>1 DEF InjectedApart, TypeOK
  <2>2. CASE Prepare(q)
    BY <1>2, <1>3, <1>5, <2>2 DEF InjectedApart, TypeOK
  <2>3. CASE ~Prepare(r) /\ ~Prepare(q)
    BY <1>2, <1>5, <2>3 DEF InjectedApart
  <2> QED
    BY <2>1, <2>2, <2>3
<1> QED
  BY <1>4, <1>5 DEF InjectedApart

-----------------------------------------------------------------------------
(* The workers and the clock                                               *)

LEMMA NextWorkerInv ==
  ASSUME TypeOK, CallInv, WorkerInv, [Next]_vars
  PROVE  WorkerInv'
<1>1. ASSUME NEW r \in Requests, pc[r] = "returned"
      PROVE  pc'[r] = "returned" /\ wire'[r] = wire[r]
  <2>1. ~Prepare(r)
    BY <1>1 DEF Prepare, Goto
  <2> QED
    BY <1>1, <2>1, CallsAdvance, IdsStay
<1>2. \/ inflight' \subseteq inflight
      \/ \E q \in Requests : /\ SendAccepted(q)
                              /\ inflight' = inflight \cup {q}
                              /\ pc'[q] = "returned"
  <2>1. CASE Worker
    BY <2>1 DEF Worker, WorkerReply, WorkerLoses, WorkerCall, KernelStopped
  <2>2. CASE \E q \in Requests : Call(q)
    <3>1. PICK q \in Requests : Call(q)
      BY <2>2
    <3>2. CASE SendAccepted(q)
      BY <3>2 DEF SendAccepted, Goto, TypeOK
    <3> QED
      BY <3>1, <3>2 DEF Call, Prepare, Register, SendRejected, ResolveRejected
  <2>3. CASE \E m \in inbox : HandleResponse(m)
    BY <2>3 DEF HandleResponse
  <2> QED
    BY <2>1, <2>2, <2>3
    DEF Next, Start, Stop, PumpEnter, PumpReturn, Destroy, Sweep, ReadClock,
        SweepExpired, Tick, Gone, vars
<1>3. ASSUME NEW m \in inbox'
      PROVE  /\ m.to = NoOne => m.key \in WorkerIds
             /\ m.to # NoOne => m.key \in {wire'[m.to]} \cup NestedIds
             /\ m.to # NoOne => pc'[m.to] = "returned"
  <2>1. \/ m \in inbox
        \/ \E r \in Requests : WorkerReply(r)
        \/ \E k \in WorkerIds : WorkerCall(k)
    <3>1. \/ inbox' \subseteq inbox
          \/ \E r \in Requests : WorkerReply(r)
          \/ \E k \in WorkerIds : WorkerCall(k)
      <4>1. CASE Worker
        BY <4>1 DEF Worker, WorkerLoses, KernelStopped
      <4>2. CASE \E r \in Requests : Call(r)
        BY <4>2 DEF Call, Prepare, Register, SendAccepted, SendRejected,
                    ResolveRejected
      <4>3. CASE \E n \in inbox : HandleResponse(n)
        BY <4>3 DEF HandleResponse
      <4> QED
        BY <4>1, <4>2, <4>3
        DEF Next, Start, Stop, PumpEnter, PumpReturn, Destroy, Sweep, ReadClock,
            SweepExpired, Tick, Gone, vars
    <3> QED
      BY <1>3, <3>1
  <2>2. CASE m \in inbox
    <3>1. m.to # NoOne => m.to \in Requests
      BY <2>2 DEF TypeOK, WorkerMessage
    <3> QED
      BY <1>1, <2>2, <3>1 DEF WorkerInv
  <2>3. ASSUME m \notin inbox, NEW r \in Requests, WorkerReply(r)
        PROVE  /\ m.to = r
               /\ m.key \in {wire'[r]} \cup NestedIds
               /\ pc'[r] = "returned"
    BY <1>1, <1>3, <2>3 DEF WorkerReply, WorkerInv
  <2>4. ASSUME m \notin inbox, NEW k \in WorkerIds, WorkerCall(k)
        PROVE  m.to = NoOne /\ m.key \in WorkerIds
    BY <1>3, <2>4 DEF WorkerCall
  <2> QED
    BY <2>1, <2>2, <2>3, <2>4, ConstantsAssumption
<1>4. ASSUME NEW r, r \in inflight' PROVE pc'[r] = "returned"
  BY <1>1, <1>2, <1>4 DEF WorkerInv, TypeOK
<1> QED
  BY <1>3, <1>4 DEF WorkerInv

LEMMA NextClockInv ==
  ASSUME TypeOK, ClockInv, [Next]_vars
  PROVE  ClockInv' /\ clock <= clock'
<1>1. CASE ReadClock
  BY <1>1 DEF TypeOK, ReadClock, ClockInv
<1>2. CASE SweepExpired
  BY <1>2 DEF TypeOK, SweepExpired, ClockInv
<1>3. CASE Tick
  BY <1>3, ConstantsAssumption DEF TypeOK, Tick, ClockInv
<1>4. ReadClock \/ SweepExpired \/ Tick \/ UNCHANGED timeVars
  BY DEF Next, Call, Prepare, Register, SendAccepted, SendRejected,
         ResolveRejected, Start, Stop, PumpEnter, PumpReturn, HandleResponse,
         Destroy, Sweep, Worker, WorkerReply, WorkerLoses, WorkerCall,
         KernelStopped, Gone, vars
<1> QED
  BY <1>1, <1>2, <1>3, <1>4 DEF TypeOK, ClockInv

-----------------------------------------------------------------------------
(* The pending_ map                                                        *)

(* Every step other than Register only removes entries, each one together  *)
(* with settling its promise, and settles no promise that it leaves.       *)
LEMMA EntriesLeaveSettled ==
  ASSUME TypeOK, FiledIsUnset, [Next]_vars,
         \A q \in Requests : ~Register(q)
  PROVE  /\ DOMAIN pending' \subseteq DOMAIN pending
         /\ \A k \in DOMAIN pending' :
              pending'[k] = pending[k] /\ future'[pending[k]] = "unset"
         /\ \A k \in DOMAIN pending \ DOMAIN pending' :
              future'[pending[k]] \in Settled
<1> DEFINE Goal ==
      /\ DOMAIN pending' \subseteq DOMAIN pending
      /\ \A k \in DOMAIN pending' :
           pending'[k] = pending[k] /\ future'[pending[k]] = "unset"
      /\ \A k \in DOMAIN pending \ DOMAIN pending' :
           future'[pending[k]] \in Settled
<1>1. ASSUME NEW j \in Keys, NEW outcome \in Settled, NEW cause,
             Settle(Filed(j), outcome, cause), Erase({j})
      PROVE  Goal
  <2>1. /\ DOMAIN pending' = DOMAIN pending \ {j}
        /\ \A k \in DOMAIN pending' : pending'[k] = pending[k]
    BY <1>1, EraseType
  <2>2. \A k \in DOMAIN pending : pending[k] \in Requests
    BY DEF TypeOK
  <2>3. \A k \in DOMAIN pending : k # j => pending[k] \notin Filed(j)
    BY <2>2 DEF FiledIsUnset, Filed
  <2>4. \A k \in DOMAIN pending : k = j => pending[k] \in Filed(j)
    BY <2>2 DEF Filed
  <2>5. \A k \in DOMAIN pending :
          future'[pending[k]] = IF k = j THEN outcome ELSE future[pending[k]]
    BY <1>1, <2>2, <2>3, <2>4 DEF Settle
  <2> QED
    BY <2>1, <2>5 DEF FiledIsUnset
<1>2. ASSUME pending' = pending,
             \A k \in DOMAIN pending : future'[pending[k]] = future[pending[k]]
      PROVE  Goal
  BY <1>2 DEF FiledIsUnset
<1>3. ASSUME NEW q \in Requests, Call(q) PROVE Goal
  <2>1. CASE Prepare(q)
    <3>1. \A k \in DOMAIN pending : pending[k] # q
      BY <2>1 DEF Prepare, Goto, FiledIsUnset
    <3>2. pending' = pending /\ \A r \in Requests : r # q => future'[r] = future[r]
      BY <2>1 DEF Prepare, TypeOK
    <3> QED
      BY <1>2, <3>1, <3>2 DEF TypeOK
  <2>2. CASE SendAccepted(q) \/ SendRejected(q)
    BY <1>2, <2>2 DEF SendAccepted, SendRejected
  <2>3. CASE ResolveRejected(q)
    <3>1. CASE id[q] \in Keys
      BY <1>1, <2>3, <3>1 DEF ResolveRejected, Settled
    <3>2. CASE id[q] \notin Keys
      <4>1. Filed(id[q]) = {} /\ pending' = pending
        BY <2>3, <3>2 DEF TypeOK, Filed, ResolveRejected, Erase, Restrict
      <4> QED
        BY <1>2, <2>3, <4>1 DEF ResolveRejected, Settle, TypeOK
    <3> QED
      BY <3>1, <3>2
  <2> QED
    BY <1>3, <2>1, <2>2, <2>3 DEF Call
<1>4. ASSUME NEW m \in inbox, HandleResponse(m) PROVE Goal
  <2>1. CASE m.key = NoId
    <3>1. pending' = pending /\ \A r \in Requests : future'[r] = future[r]
      BY <1>4, <2>1 DEF HandleResponse, Settle, Erase, Restrict, TypeOK
    <3> QED
      BY <1>2, <3>1 DEF TypeOK
  <2>2. CASE m.key # NoId
    <3>1. m.key \in Keys /\ {m.key} \ {NoId} = {m.key}
      BY <2>2 DEF TypeOK, WorkerMessage
    <3> QED
      BY <1>1, <1>4, <2>2, <3>1 DEF HandleResponse, Settled
  <2> QED
    BY <2>1, <2>2
<1>5. CASE Destroy
  <2>1. DOMAIN pending' = DOMAIN pending \ DOMAIN pending
    BY <1>5, EraseType DEF Destroy
  <2>2. \A k \in DOMAIN pending : future'[pending[k]] = "broken"
    BY <1>5 DEF Destroy, Settle, TypeOK
  <2> QED
    BY <2>1, <2>2 DEF Settled
<1>6. CASE SweepExpired
  <2>1. /\ DOMAIN pending' = DOMAIN pending \ ExpiredKeys
        /\ \A k \in DOMAIN pending' : pending'[k] = pending[k]
    BY <1>6, EraseType DEF SweepExpired
  <2>2. \A k \in DOMAIN pending :
          pending[k] \in {pending[j] : j \in ExpiredKeys} <=> k \in ExpiredKeys
    BY DEF FiledIsUnset, ExpiredKeys
  <2>3. \A k \in DOMAIN pending : pending[k] \in Requests
    BY DEF TypeOK
  <2>4. \A k \in DOMAIN pending :
          future'[pending[k]] = IF k \in ExpiredKeys THEN "timeout"
                                                    ELSE future[pending[k]]
    BY <1>6, <2>2, <2>3 DEF SweepExpired
  <2> QED
    BY <2>1, <2>4 DEF FiledIsUnset, Settled
<1>7. CASE UNCHANGED <<mapVars, futureVars>>
  BY <1>2, <1>7
<1>8. \/ \E q \in Requests : Call(q)
      \/ \E m \in inbox : HandleResponse(m)
      \/ Destroy \/ SweepExpired \/ UNCHANGED <<mapVars, futureVars>>
  BY DEF Next, Start, Stop, PumpEnter, PumpReturn, Sweep, ReadClock, Tick,
         Worker, WorkerReply, WorkerLoses, WorkerCall, KernelStopped, Gone, vars
<1> QED
  BY <1>3, <1>4, <1>5, <1>6, <1>7, <1>8

LEMMA NextFiledIsUnset ==
  ASSUME TypeOK, CallInv, FiledIsUnset, UnsetIsFiled, [Next]_vars
  PROVE  FiledIsUnset'
<1>1. CASE \E q \in Requests : Register(q)
  <2>1. PICK q \in Requests : Register(q)
    BY <1>1
  <2>2. /\ pc[q] = "prepared" /\ pc'[q] = "sending"
        /\ \A r \in Requests : r # q => pc'[r] = pc[r]
        /\ id' = id
    BY <2>1 DEF Register, Goto, TypeOK
  <2>3. \A k \in DOMAIN pending : pending[k] \in Requests /\ pending[k] # q
    BY <2>2 DEF FiledIsUnset, TypeOK
  <2>4. /\ DOMAIN pending' = DOMAIN pending \cup {id[q]}
        /\ pending'[id[q]] = q
        /\ \A k \in DOMAIN pending : k # id[q] => pending'[k] = pending[k]
    BY <2>1 DEF Register
  <2>5. Filed(id[q]) = {pending[k] : k \in DOMAIN pending \cap {id[q]}}
    BY <2>3 DEF Filed
  <2>6. future'[q] = "unset"
    BY <2>1, <2>2, <2>3, <2>5 DEF Register, Settle, CallInv
  <2>7. \A k \in DOMAIN pending : k # id[q] => future'[pending[k]] = "unset"
    BY <2>1, <2>3, <2>5 DEF Register, Settle, FiledIsUnset
  <2>8. id'[q] = id[q]
    BY <2>2
  <2> QED
    BY <2>2, <2>3, <2>4, <2>6, <2>7 DEF FiledIsUnset
<1>2. CASE \A q \in Requests : ~Register(q)
  <2>1. /\ DOMAIN pending' \subseteq DOMAIN pending
        /\ \A k \in DOMAIN pending' :
             pending'[k] = pending[k] /\ future'[pending[k]] = "unset"
    BY <1>2, EntriesLeaveSettled
  <2>2. ASSUME NEW k \in DOMAIN pending
        PROVE  /\ id'[pending[k]] = k
               /\ pc'[pending[k]] \in {"sending", "rejected", "returned"}
    <3>1. pending[k] \in Requests /\ ~Prepare(pending[k])
      BY DEF TypeOK, FiledIsUnset, Prepare, Goto
    <3> QED
      BY <3>1, IdsStay, CallsAdvance DEF FiledIsUnset
  <2> QED
    BY <2>1, <2>2 DEF FiledIsUnset
<1> QED
  BY <1>1, <1>2

LEMMA NextUnsetIsFiled ==
  ASSUME TypeOK, CallInv, FiledIsUnset, UnsetIsFiled, [Next]_vars
  PROVE  UnsetIsFiled'
<1> SUFFICES ASSUME NEW r \in Requests, future'[r] = "unset", pc'[r] # "prepared"
             PROVE  id'[r] \in DOMAIN pending' /\ pending'[id'[r]] = r
  BY DEF UnsetIsFiled
<1>1. ~Prepare(r)
  BY PrepareEffect
<1>2. future[r] = "unset" /\ id'[r] = id[r]
  BY <1>1, StepSettlesFiledOnly, IdsStay DEF Keeps, SettlesFiled, Settled
<1>3. CASE Register(r)
  BY <1>3 DEF Register
<1>4. CASE ~Register(r)
  <2>1. pc[r] # "prepared"
    <3>1. CASE Call(r)
      BY <1>1, <1>4, <3>1 DEF Call, SendAccepted, SendRejected, ResolveRejected, Goto
    <3> QED
      BY <3>1, LocalsAreOwn
  <2>2. id[r] \in DOMAIN pending /\ pending[id[r]] = r
    BY <1>2, <2>1 DEF UnsetIsFiled
  <2>3. ASSUME NEW q \in Requests, Register(q) PROVE id[q] # id[r]
    <3>1. id[q] = id[r] => r \in Filed(id[q])
      BY <2>2 DEF Filed
    <3>2. r \in Filed(id[q]) => future'[r] = "broken"
      BY <2>3 DEF Register, Settle
    <3> QED
      BY <3>1, <3>2
  <2>4. ASSUME NEW q \in Requests, Register(q)
        PROVE  id'[r] \in DOMAIN pending' /\ pending'[id'[r]] = r
    <3>1. pending' = [k \in DOMAIN pending \cup {id[q]} |->
                        IF k = id[q] THEN q ELSE pending[k]]
      BY <2>4 DEF Register
    <3>2. id[q] # id[r]
      BY <2>3, <2>4
    <3> QED
      BY <1>2, <2>2, <3>1, <3>2
  <2>5. CASE \A q \in Requests : ~Register(q)
    BY <1>2, <2>2, <2>5, EntriesLeaveSettled DEF Settled
  <2> QED
    BY <2>4, <2>5
<1> QED
  BY <1>3, <1>4

-----------------------------------------------------------------------------
(* Outcomes                                                                *)

(* Which step gives a future which outcome, and whose doing it is.         *)
LEMMA OutcomeSource ==
  ASSUME TypeOK, FiledIsUnset, [Next]_vars, NEW r \in Requests,
         future[r] = "unset", future'[r] \in Settled
  PROVE  \/ /\ future'[r] = "ok"
            /\ \E m \in inbox :
                 /\ m.key # NoId /\ r \in Filed(m.key) /\ by'[r] = m.to
         \/ /\ future'[r] = "error"
            /\ \E q \in Requests :
                 pc[q] = "rejected" /\ r \in Filed(id[q]) /\ by'[r] = q
         \/ /\ future'[r] = "broken"
            /\ \/ kernel' = "destroyed"
               \/ \E q \in Requests : pc[q] = "prepared" /\ r \in Filed(id[q])
         \/ /\ future'[r] = "timeout"
            /\ sampled # NoTime /\ sampled >= Instant(deadline[r]) /\ clock' = clock
<1> DEFINE Goal ==
      \/ /\ future'[r] = "ok"
         /\ \E m \in inbox :
              /\ m.key # NoId /\ r \in Filed(m.key) /\ by'[r] = m.to
      \/ /\ future'[r] = "error"
         /\ \E q \in Requests :
              pc[q] = "rejected" /\ r \in Filed(id[q]) /\ by'[r] = q
      \/ /\ future'[r] = "broken"
         /\ \/ kernel' = "destroyed"
            \/ \E q \in Requests : pc[q] = "prepared" /\ r \in Filed(id[q])
      \/ /\ future'[r] = "timeout"
         /\ sampled # NoTime /\ sampled >= Instant(deadline[r]) /\ clock' = clock
<1>1. ASSUME NEW S, NEW outcome, NEW cause, Settle(S, outcome, cause)
      PROVE  r \in S /\ future'[r] = outcome /\ by'[r] = cause
  BY <1>1 DEF Settle, Settled
<1>2. future' # future
  BY DEF Settled
<1>3. ASSUME NEW q \in Requests, Call(q) PROVE Goal
  <2>1. CASE Prepare(q)
    BY <2>1 DEF Prepare, Settled, TypeOK
  <2>2. CASE Register(q)
    BY <1>1, <2>2 DEF Register, Goto
  <2>3. CASE ResolveRejected(q)
    BY <1>1, <2>3 DEF ResolveRejected, Goto
  <2> QED
    BY <1>2, <1>3, <2>1, <2>2, <2>3 DEF Call, SendAccepted, SendRejected
<1>4. ASSUME NEW m \in inbox, HandleResponse(m) PROVE Goal
  BY <1>1, <1>4 DEF HandleResponse
<1>5. CASE Destroy
  BY <1>1, <1>5 DEF Destroy
<1>6. CASE SweepExpired
  BY <1>6 DEF SweepExpired, ExpiredKeys, Settled
<1>7. CASE Worker
  BY <1>2, <1>7 DEF Worker, WorkerReply, WorkerLoses, WorkerCall, KernelStopped
<1> QED
  BY <1>2, <1>3, <1>4, <1>5, <1>6, <1>7
  DEF Next, Start, Stop, PumpEnter, PumpReturn, Sweep, ReadClock, Tick, Gone, vars

(* Two calls with the same key, or one that a worker knows by the other's  *)
(* key, clash: next_id_ gave at most one of them its id.                   *)
LEMMA SameIdIsClash ==
  ASSUME TypeOK, CallInv, InjectedApart,
         NEW r \in Requests, NEW q \in Requests, q # r,
         pc[r] # "idle", pc[q] # "idle", id[r] \in {id[q], wire[q]}
  PROVE  Clash(r)
<1>1. CASE Silent(q) /\ Silent(r)
  <2>1. id[q] = id[r]
    BY <1>1, ConstantsAssumption DEF CallInv
  <2>2. Injected(q) /\ Injected(r)
    BY <1>1 DEF Silent, Injected
  <2> QED
    BY <2>1, <2>2 DEF InjectedApart
<1> QED
  BY <1>1 DEF Clash

(* Ids do not change, so neither does a clash of them go away. *)
LEMMA ClashStays ==
  ASSUME TypeOK, CallInv, [Next]_vars, NEW r \in Requests, pc[r] # "idle", Clash(r)
  PROVE  Clash(r)'
<1>1. PICK q \in Requests \ {r} :
        id[r] \in {id[q], wire[q]} /\ ~(Silent(q) /\ Silent(r))
  BY DEF Clash
<1>2. pc[q] # "idle"
  BY <1>1, ConstantsAssumption DEF CallInv
<1>3. ~Prepare(r) /\ ~Prepare(q)
  BY <1>2 DEF Prepare, Goto
<1>4. /\ text'[r] = text[r] /\ id'[r] = id[r]
      /\ text'[q] = text[q] /\ id'[q] = id[q] /\ wire'[q] = wire[q]
  BY <1>3, IdsStay
<1>5. (Silent(r)' <=> Silent(r)) /\ (Silent(q)' <=> Silent(q))
  BY <1>4 DEF Silent
<1> QED
  BY <1>1, <1>4, <1>5 DEF Clash

(* A deadline that the clock can hold is kept as it is. *)
LEMMA InstantInRange ==
  \A t \in Nat : Instant(t) \in Int /\ (t < Horizon => Instant(t) = t)
<1> SUFFICES ASSUME NEW t \in Nat
             PROVE  Instant(t) \in Int /\ (t < Horizon => Instant(t) = t)
  OBVIOUS
<1> DEFINE width == 2 * Horizon
           shifted == t + Horizon
<1>1. Horizon \in Nat /\ width \in Nat /\ width > 0 /\ shifted \in Nat
  BY ConstantsAssumption
<1>2. \A a, m \in Nat : a < m => a % m = a
  OBVIOUS
<1>3. \A a, m \in Nat : m > 0 => a % m \in Nat
  OBVIOUS
<1>4. Instant(t) = (shifted % width) - Horizon
  BY DEF Instant
<1>5. t < Horizon => shifted < width /\ shifted - Horizon = t
  BY <1>1
<1> HIDE DEF width, shifted
<1> QED
  BY <1>1, <1>2, <1>3, <1>4, <1>5

LEMMA NextOutcomeInv ==
  ASSUME IndInv, [Next]_vars
  PROVE  OutcomeInv'
<1> USE DEF IndInv
<1> SUFFICES ASSUME NEW r \in Requests, future'[r] \in Settled
             PROVE  /\ future'[r] = "ok" /\ by'[r] # r =>
                         id'[r] \in WorkerIds \cup NestedIds \/ Clash(r)'
                    /\ future'[r] = "error" /\ by'[r] # r => Clash(r)'
                    /\ future'[r] = "broken" => kernel' = "destroyed" \/ Clash(r)'
                    /\ future'[r] = "timeout" =>
                         deadline'[r] <= clock' \/ deadline'[r] >= Horizon
  BY DEF OutcomeInv, OwnReply, OwnFailure, KeptPromise, TimeoutNotEarly, Settled
<1>1. ~Prepare(r)
  BY PrepareEffect DEF Settled
<1>2. pc[r] # "idle" /\ id'[r] = id[r]
  BY <1>1, StepSettlesFiledOnly, IdsStay DEF CallInv, Keeps, SettlesFiled, Settled
<1>3. Clash(r) => Clash(r)'
  BY <1>2, ClashStays
<1>4. clock \in Nat /\ clock' \in Nat /\ clock <= clock'
  BY NextClockInv, NextTypeOK DEF TypeOK
<1>5. CASE Keeps(r)
  <2>1. kernel = "destroyed" => kernel' = "destroyed"
    BY DEF Next, Call, Prepare, Register, SendAccepted, SendRejected,
           ResolveRejected, Start, Stop, PumpEnter, PumpReturn, HandleResponse,
           Destroy, Sweep, ReadClock, SweepExpired, Tick, Worker, WorkerReply,
           WorkerLoses, WorkerCall, KernelStopped, Gone, vars
  <2>2. ~Register(r)
    BY <1>5 DEF Register, Goto, CallInv, Keeps, Settled
  <2>3. deadline'[r] = deadline[r]
    <3>1. CASE Call(r)
      BY <1>1, <2>2, <3>1 DEF Call, SendAccepted, SendRejected, ResolveRejected
    <3> QED
      BY <3>1, LocalsAreOwn
  <2>4. deadline[r] \in Nat /\ Horizon \in Nat
    BY ConstantsAssumption DEF TypeOK
  <2> QED
    BY <1>2, <1>3, <1>4, <1>5, <2>1, <2>3, <2>4
    DEF OutcomeInv, OwnReply, OwnFailure, KeptPromise, TimeoutNotEarly, Keeps
<1>6. CASE ~Keeps(r)
  <2>1. /\ future[r] = "unset"
        /\ pc[r] \in {"sending", "rejected", "returned"}
    BY <1>1, <1>6, StepSettlesFiledOnly DEF SettlesFiled
  <2>2. \A k : r \in Filed(k) => id[r] = k
    BY DEF Filed, FiledIsUnset
  <2>3. CASE future'[r] = "ok"
    <3>1. PICK m \in inbox : m.key # NoId /\ r \in Filed(m.key) /\ by'[r] = m.to
      BY <2>1, <2>3, OutcomeSource
    <3>2. CASE m.to = NoOne
      BY <1>2, <2>2, <2>3, <3>1, <3>2 DEF WorkerInv
    <3>3. CASE m.to # NoOne
      <4>1. m.to \in Requests
        BY <3>3 DEF TypeOK, WorkerMessage
      <4>2. m.key \in {wire[m.to]} \cup NestedIds /\ pc[m.to] = "returned"
        BY <3>3 DEF WorkerInv
      <4>3. CASE m.key = wire[m.to] /\ m.to # r
        BY <1>2, <1>3, <2>2, <2>3, <3>1, <4>1, <4>2, <4>3, SameIdIsClash
      <4> QED
        BY <1>2, <2>2, <2>3, <3>1, <4>2, <4>3
    <3> QED
      BY <3>2, <3>3
  <2>4. CASE future'[r] = "error"
    <3>1. PICK q \in Requests :
            pc[q] = "rejected" /\ r \in Filed(id[q]) /\ by'[r] = q
      BY <2>1, <2>4, OutcomeSource
    <3> QED
      BY <1>2, <1>3, <2>2, <2>4, <3>1, SameIdIsClash
  <2>5. CASE future'[r] = "broken"
    <3>1. CASE kernel' = "destroyed"
      BY <2>5, <3>1
    <3>2. CASE kernel' # "destroyed"
      <4>1. PICK q \in Requests : pc[q] = "prepared" /\ r \in Filed(id[q])
        BY <2>1, <2>5, <3>2, OutcomeSource
      <4>2. q # r
        BY <2>1, <4>1
      <4> QED
        BY <1>2, <1>3, <2>2, <2>5, <4>1, <4>2, SameIdIsClash
    <3> QED
      BY <3>1, <3>2
  <2>6. CASE future'[r] = "timeout"
    <3>1. sampled # NoTime /\ sampled >= Instant(deadline[r]) /\ clock' = clock
      BY <2>1, <2>6, OutcomeSource
    <3>2. deadline'[r] = deadline[r]
      <4>1. ~Register(r)
        BY <2>1 DEF Register, Goto
      <4>2. CASE Call(r)
        BY <1>1, <4>1, <4>2 DEF Call, SendAccepted, SendRejected, ResolveRejected
      <4> QED
        BY <4>2, LocalsAreOwn
    <3>3. deadline[r] \in Nat /\ Horizon \in Nat
      BY ConstantsAssumption DEF TypeOK
    <3> QED
      BY <1>4, <2>6, <3>1, <3>2, <3>3, InstantInRange DEF ClockInv, TypeOK
  <2> QED
    BY <2>3, <2>4, <2>5, <2>6 DEF Settled
<1> QED
  BY <1>5, <1>6

-----------------------------------------------------------------------------
(* The theorems                                                            *)

LEMMA InitIndInv == Init => IndInv
<1> SUFFICES ASSUME Init PROVE IndInv
  OBVIOUS
<1>1. \A r \in Requests :
        pc[r] = "idle" /\ text[r] = NoText /\ id[r] = NoId /\ wire[r] = NoId
          /\ future[r] = "none"
  BY DEF Init
<1>2. DOMAIN pending = {} /\ inflight = {} /\ inbox = {} /\ sampled = NoTime
  BY DEF Init
<1>3. CallInv /\ InjectedApart
  BY <1>1 DEF CallInv, InjectedApart, Injected, Silent
<1>4. WorkerInv /\ ClockInv /\ FiledIsUnset /\ UnsetIsFiled
  BY <1>1, <1>2 DEF WorkerInv, ClockInv, FiledIsUnset, UnsetIsFiled
<1>5. OutcomeInv
  BY <1>1 DEF OutcomeInv, OwnReply, OwnFailure, KeptPromise, TimeoutNotEarly
<1> QED
  BY <1>3, <1>4, <1>5, InitTypeOK DEF IndInv

LEMMA NextIndInv == IndInv /\ [Next]_vars => IndInv'
<1> SUFFICES ASSUME IndInv, [Next]_vars PROVE IndInv'
  OBVIOUS
<1>1. TypeOK' /\ CallInv' /\ InjectedApart' /\ WorkerInv' /\ ClockInv'
  BY NextTypeOK, NextCallInv, NextInjectedApart, NextWorkerInv, NextClockInv
  DEF IndInv
<1>2. FiledIsUnset' /\ UnsetIsFiled'
  BY NextFiledIsUnset, NextUnsetIsFiled DEF IndInv
<1> QED
  BY <1>1, <1>2, NextOutcomeInv DEF IndInv

(* The invariant that all the others follow from. *)
THEOREM Inductive == Spec => []IndInv
BY InitIndInv, NextIndInv, PTL DEF Spec

(* Every variable of AsyncBus always has its type. *)
THEOREM TypeCorrect == Spec => []TypeOK
<1>1. IndInv => TypeOK
  BY DEF IndInv
<1> QED
  BY <1>1, Inductive, PTL

(* Whatever the threads, the workers and the clock do, every promise in    *)
(* pending_ is unsettled, so no set_value() of async.hpp ever throws.      *)
THEOREM NoDoubleSettle == Spec => []FiledIsUnset
<1>1. IndInv => FiledIsUnset
  BY DEF IndInv
<1> QED
  BY <1>1, Inductive, PTL

(* No future is left behind with a promise that is not in pending_.        *)
THEOREM NoLostPromise == Spec => []UnsetIsFiled
<1>1. IndInv => UnsetIsFiled
  BY DEF IndInv
<1> QED
  BY <1>1, Inductive, PTL

(* A future gets another call's reply only where an id that a caller or a  *)
(* worker chose collides with its own.                                     *)
THEOREM RepliesAreOwn == Spec => []OwnReply
<1>1. IndInv => OwnReply
  BY DEF IndInv, OutcomeInv
<1> QED
  BY <1>1, Inductive, PTL

(* The entry that request_async() looks up again after a failed send is    *)
(* its own, unless callers chose ids that clash.                           *)
THEOREM FailuresAreOwn == Spec => []OwnFailure
<1>1. IndInv => OwnFailure
  BY DEF IndInv, OutcomeInv
<1> QED
  BY <1>1, Inductive, PTL

(* Before the destructor, no promise is destroyed unkept, unless callers   *)
(* chose ids that clash, so that one entry overwrote another.              *)
THEOREM PromisesAreKept == Spec => []KeptPromise
<1>1. IndInv => KeptPromise
  BY DEF IndInv, OutcomeInv
<1> QED
  BY <1>1, Inductive, PTL

(* The stale time that check_timeouts() compares with never makes a future *)
(* time out early: only a deadline that overflowed does.                   *)
THEOREM TimeoutsAreDue == Spec => []TimeoutNotEarly
<1>1. IndInv => TimeoutNotEarly
  BY DEF IndInv, OutcomeInv
<1> QED
  BY <1>1, Inductive, PTL

(* What a caller once reads from its future is what it always reads:       *)
(* handle_response(), check_timeouts(), the failed send and the destructor *)
(* settle only what they find in pending_.                                 *)
THEOREM OutcomesAreFinal == Spec => SettledIsFinal
<1>1. ASSUME IndInv, [Next]_vars, NEW r \in Requests, future[r] \in Settled
      PROVE  future'[r] = future[r] /\ by'[r] = by[r]
  <2>1. ~Prepare(r)
    BY <1>1 DEF Prepare, Goto, IndInv, CallInv, Settled
  <2>2. ~SettlesFiled(r)
    BY <1>1 DEF SettlesFiled, Settled
  <2> QED
    BY <1>1, <2>1, <2>2, StepSettlesFiledOnly DEF IndInv, Keeps
<1>2. IndInv /\ [Next]_vars =>
        [\A r \in Requests :
           future[r] \in Settled => future'[r] = future[r] /\ by'[r] = by[r]]_vars
  BY <1>1
<1> QED
  BY <1>2, Inductive, PTL DEF Spec, SettledIsFinal

(* request_async() never returns after a failed send with a future that    *)
(* still waits.                                                            *)
THEOREM FailureReported == Spec => FailureIsReported
<1>1. ASSUME IndInv, [Next]_vars, NEW r \in Requests,
             pc[r] = "rejected", pc'[r] = "returned"
      PROVE  future'[r] \in Settled
  <2>1. ~Prepare(r) /\ Call(r)
    BY <1>1, LocalsAreOwn DEF IndInv, Prepare, Goto
  <2>2. ResolveRejected(r)
    BY <1>1, <2>1 DEF Call, Register, SendAccepted, SendRejected, Goto
  <2>3. future[r] \in {"unset"} \cup Settled
    BY <1>1 DEF IndInv, TypeOK, CallInv
  <2>4. CASE future[r] = "unset"
    <3>1. r \in Filed(id[r])
      BY <1>1, <2>4 DEF IndInv, UnsetIsFiled, Filed
    <3> QED
      BY <2>2, <3>1 DEF ResolveRejected, Settle, Settled
  <2>5. CASE future[r] \in Settled
    BY <2>2, <2>5 DEF ResolveRejected, Settle, Settled
  <2> QED
    BY <2>3, <2>4, <2>5
<1>2. IndInv /\ [Next]_vars =>
        [\A r \in Requests :
           pc[r] = "rejected" /\ pc'[r] = "returned" => future'[r] \in Settled]_vars
  BY <1>1
<1> QED
  BY <1>2, Inductive, PTL DEF Spec, FailureIsReported

(* A caller that always leaves the id to the SDK, with workers that send   *)
(* no requests of their own and replies whose first "id" is the reply's,   *)
(* gets in every future the fate of its own request.                       *)
THEOREM SilentCallsCorrelate ==
  ASSUME \A m \in Messages : m.found = NoId /\ m.id = NoId,
         WorkerIds \subseteq {NoId}, NestedIds = {}
  PROVE  Spec => []Correlated
<1> DEFINE AllSilent == \A r \in Requests : pc[r] # "idle" => Silent(r)
<1>1. Init => AllSilent
  BY DEF Init
<1>2. IndInv /\ AllSilent /\ [Next]_vars => AllSilent'
  <2> SUFFICES ASSUME IndInv, AllSilent, [Next]_vars, NEW r \in Requests,
                      pc'[r] # "idle"
               PROVE  Silent(r)'
    OBVIOUS
  <2>1. CASE Prepare(r)
    <3>1. text'[r] \in Messages
      BY <2>1 DEF Prepare, IndInv, TypeOK
    <3> QED
      BY <3>1, ConstantsAssumption DEF Silent
  <2>2. CASE ~Prepare(r)
    BY <2>2, IdsStay, CallsAdvance DEF Silent, IndInv
  <2> QED
    BY <2>1, <2>2
<1>3. IndInv /\ AllSilent => Correlated
  <2> SUFFICES ASSUME IndInv, AllSilent, NEW r \in Requests,
                      future[r] \in {"ok", "error", "broken"}
               PROVE  /\ future[r] \in {"ok", "error"} => by[r] = r
                      /\ future[r] = "broken" => kernel = "destroyed"
    BY DEF Correlated
  <2>1. pc[r] # "idle" /\ Silent(r) /\ id[r] \in Keys
    BY DEF IndInv, CallInv
  <2>2. ~Clash(r)
    <3>1. \A q \in Requests : pc[q] = "idle" => id[r] \notin {id[q], wire[q]}
      BY <2>1, ConstantsAssumption DEF IndInv, CallInv
    <3> QED
      BY <2>1, <3>1 DEF Clash
  <2>3. id[r] \notin WorkerIds \cup NestedIds
    BY <2>1, ConstantsAssumption
  <2> QED
    BY <2>2, <2>3 DEF IndInv, OutcomeInv, OwnReply, OwnFailure, KeptPromise
<1> QED
  BY <1>1, <1>2, <1>3, Inductive, PTL DEF Spec

=============================================================================
