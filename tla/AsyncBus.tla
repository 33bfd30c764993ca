------------------------------ MODULE AsyncBus ------------------------------
(***************************************************************************)
(* The AsyncBus class of async.hpp: request_async() hands out a future and *)
(* files its promise in the pending_ map under the request's JSON-RPC id;  *)
(* a reply, a failed send, an expired deadline, an overwritten entry or    *)
(* the destructor settles it.                                              *)
(*                                                                         *)
(* Actors: the callers of request_async(), each on a thread of its own;    *)
(* the owner thread, which starts, pumps, stops and destroys the bus; a    *)
(* thread that calls check_timeouts(); the clock; and the kernel with its  *)
(* workers, which is not part of the sources and is modelled by what the   *)
(* class can observe of it.  A critical section of pending_mutex_ is one   *)
(* action, every other statement that touches shared state is another.     *)
(***************************************************************************)
EXTENDS Integers, Functions

CONSTANTS
  Requests,   \* calls of request_async(), each made at most once
  Names,      \* ids that are not decimal numbers
  Messages,   \* what callers pass: the shape of the JSON text, see Message
  WorkerIds,  \* id, or NoId, of the messages workers send unasked
  NestedIds,  \* ids that may precede a reply's own "id" in its text
  Timeouts,   \* values of the timeout argument
  MaxClock,   \* bound: the clock stops here
  Horizon,    \* the first instant steady_clock::time_point cannot hold
  NoId,       \* the empty string extract_id() returns
  NoText,     \* no text passed yet
  NoOne,      \* "by nobody in particular"
  NoTime      \* check_timeouts() has not read the clock

(***************************************************************************)
(* extract_id() returns the digits of a numeric id and the text of a       *)
(* string one, so 1 and "1" are the same key, here the number.             *)
(***************************************************************************)
Keys == Nat \cup Names

(***************************************************************************)
(* found:  what extract_id() returns for the text                          *)
(* id:     the id the worker reads in it, NoId when there is none          *)
(* object: the text contains a "{"                                         *)
(* The first two differ when an "id" member of a nested object comes first *)
(* and when extract_id() cannot read the id that is there.                 *)
(***************************************************************************)
Message == [found : Keys \cup {NoId}, id : Keys \cup {NoId}, object : BOOLEAN]

ASSUME ConstantsAssumption ==
  /\ NoId \notin Keys
  /\ NoOne \notin Requests
  /\ NoText \notin Message
  /\ NoTime \notin Nat
  /\ Messages \subseteq Message
  /\ WorkerIds \subseteq Keys \cup {NoId}
  /\ NestedIds \subseteq Keys
  /\ Timeouts \subseteq Nat
  /\ MaxClock \in Nat
  /\ Horizon \in Nat
  /\ MaxClock < Horizon

VARIABLES
  pc,        \* pc[r]: where call r is
  text,      \* text[r]: the message the caller passed
  id,        \* id[r]: request_async()'s local id, the key of its entry
  wire,      \* wire[r]: the id a worker reads in the text that is sent
  deadline,  \* deadline[r]: now() + timeout, see Instant
  pending,   \* pending_: key |-> the call whose promise is filed there
  nextId,    \* next_id_
  future,    \* future[r]: state of the future handed to the caller
  by,        \* history: the call whose reply, failure or entry settled it
  kernel,    \* state of the kernel handle, "none" when creation failed
  inflight,  \* calls whose message a worker holds and may answer
  inbox,     \* messages of workers that step() has yet to dispatch
  pumping,   \* the owner thread is inside pump()
  sampled,   \* the time check_timeouts() has read, before it locks
  clock      \* std::chrono::steady_clock

callVars   == <<pc, text, id, wire, deadline>>
mapVars    == <<pending, nextId>>
futureVars == <<future, by>>
kernelVars == <<kernel, inflight, inbox, pumping>>
timeVars   == <<sampled, clock>>
vars == <<callVars, mapVars, futureVars, kernelVars, timeVars>>

-----------------------------------------------------------------------------

Settled == {"ok", "error", "timeout", "broken"}

(* What step() dispatches: the key extract_id() finds in a worker's text   *)
(* and the call it answers, NoOne when the worker sent it unasked.         *)
WorkerMessage == [key : Keys \cup {NoId}, to : Requests \cup {NoOne}]

(* Wrong forms of a few definitions stand before them.  The runs put each   *)
(* in the place of its original to see the property meant for it fail.     *)
NoneFiled(k) == {}
EraseNothing(K) == pending' = pending

(* The call whose promise is filed under key k. *)
Filed(k) == {r \in Requests : k \in DOMAIN pending /\ pending[k] = r}

(* promise->set_value(), or the promise's destruction, for the calls in S. *)
Settle(S, outcome, cause) ==
  /\ future' = [r \in Requests |-> IF r \in S THEN outcome ELSE future[r]]
  /\ by' = [r \in Requests |-> IF r \in S THEN cause ELSE by[r]]

(* pending_.erase() *)
Erase(K) == pending' = Restrict(pending, DOMAIN pending \ K)

Goto(r, from, to) == pc[r] = from /\ pc' = [pc EXCEPT ![r] = to]

Init ==
  /\ pc = [r \in Requests |-> "idle"]
  /\ text = [r \in Requests |-> NoText]
  /\ id = [r \in Requests |-> NoId]
  /\ wire = [r \in Requests |-> NoId]
  /\ deadline = [r \in Requests |-> 0]
  /\ pending = [k \in {} |-> NoOne]
  /\ nextId = 1
  /\ future = [r \in Requests |-> "none"]
  /\ by = [r \in Requests |-> NoOne]
  /\ kernel \in {"none", "created"}
  /\ inflight = {}
  /\ inbox = {}
  /\ pumping = FALSE
  /\ sampled = NoTime
  /\ clock = 0

-----------------------------------------------------------------------------
(* request_async(), run by the thread of call r                            *)

(* extract_or_inject_id(): the key of message m, and next_id_ afterwards. *)
IdNotInjected(m) == m.found
IdOf(m) == IF m.found # NoId THEN m.found ELSE nextId

NextIdStuck(m) == nextId
NextIdAfter(m) == IF m.found # NoId THEN nextId ELSE nextId + 1

(***************************************************************************)
(* The ids a worker may read in message m once it has been through         *)
(* extract_or_inject_id(): its own, or the injected one.  A text with an   *)
(* id that extract_id() cannot read ends up with two, and the worker's     *)
(* parser picks one.                                                       *)
(***************************************************************************)
WireIds(m) ==
  IF m.found # NoId \/ ~m.object
  THEN {m.id}
  ELSE {nextId} \cup ({m.id} \ {NoId})

(* Make the promise and its future; extract the id or inject the next one. *)
Prepare(r) ==
  /\ kernel # "destroyed"
  /\ Goto(r, "idle", "prepared")
  /\ \E m \in Messages :
       /\ text' = [text EXCEPT ![r] = m]
       /\ id' = [id EXCEPT ![r] = IdOf(m)]
       /\ nextId' = NextIdAfter(m)
       /\ \E w \in WireIds(m) : wire' = [wire EXCEPT ![r] = w]
  /\ future' = [future EXCEPT ![r] = "unset"]
  /\ UNCHANGED <<deadline, pending, by, kernelVars, timeVars>>

(***************************************************************************)
(* What PendingRequest::deadline holds when now() + timeout is t: a signed *)
(* count of the clock's unit.  A timeout in milliseconds is multiplied to  *)
(* that unit and added to now(); both run past the largest value to the    *)
(* smallest, the product perhaps several times over.                       *)
(***************************************************************************)
Instant(t) == ((t + Horizon) % (2 * Horizon)) - Horizon

(* File the promise, under the lock.  operator[] hands out the entry that  *)
(* is already there, if any, and the assignment destroys its promise.      *)
Register(r) ==
  /\ Goto(r, "prepared", "sending")
  /\ \E t \in Timeouts :
       /\ Instant(clock + t) <= MaxClock
       /\ deadline' = [deadline EXCEPT ![r] = clock + t]
  /\ Settle(Filed(id[r]), "broken", r)
  /\ pending' = [k \in DOMAIN pending \cup {id[r]} |->
                   IF k = id[r] THEN r ELSE pending[k]]
  /\ UNCHANGED <<text, id, wire, nextId, kernelVars, timeVars>>

(* bus_.send() succeeds: the kernel has written the message to a worker. *)
SendAccepted(r) ==
  /\ kernel = "running"
  /\ Goto(r, "sending", "returned")
  /\ inflight' = inflight \cup {r}
  /\ UNCHANGED <<text, id, wire, deadline, mapVars, futureVars, kernel, inbox,
                 pumping, timeVars>>

(* bus_.send() fails: no handle, not running, no worker, queue full, ... *)
SendRejected(r) ==
  /\ Goto(r, "sending", "rejected")
  /\ UNCHANGED <<text, id, wire, deadline, mapVars, futureVars, kernelVars,
                 timeVars>>

ResolveNothing(r) ==
  /\ Goto(r, "rejected", "returned")
  /\ UNCHANGED <<text, id, wire, deadline, mapVars, futureVars, kernelVars,
                 timeVars>>

(* The lock is taken again and the entry, looked up anew, is resolved. *)
ResolveRejected(r) ==
  /\ Goto(r, "rejected", "returned")
  /\ Settle(Filed(id[r]), "error", r)
  /\ Erase({id[r]})
  /\ UNCHANGED <<text, id, wire, deadline, nextId, kernelVars, timeVars>>

-----------------------------------------------------------------------------
(* The owner thread                                                        *)

(* start(): the kernel is Running or, after a failure, Created as before   *)
(* or Stopped when it returns.                                             *)
Start ==
  /\ kernel = "created" /\ ~pumping
  /\ kernel' \in {"running", "created", "stopped"}
  /\ UNCHANGED <<callVars, mapVars, futureVars, inflight, inbox, pumping, timeVars>>

(* stop(): begins the drain and returns; it settles no future. *)
Stop ==
  /\ kernel = "running" /\ ~pumping
  /\ kernel' = "stopping"
  /\ UNCHANGED <<callVars, mapVars, futureVars, inflight, inbox, pumping, timeVars>>

PumpEnter ==
  /\ kernel \in {"running", "stopping"} /\ ~pumping
  /\ pumping' = TRUE
  /\ UNCHANGED <<callVars, mapVars, futureVars, kernel, inflight, inbox, timeVars>>

PumpReturn ==
  /\ pumping
  /\ pumping' = FALSE
  /\ UNCHANGED <<callVars, mapVars, futureVars, kernel, inflight, inbox, timeVars>>

(* handle_response(): step() dispatches one message to the handler, which  *)
(* resolves the entry under the key it finds in the text, if there is one. *)
HandleResponse(m) ==
  /\ pumping /\ kernel \in {"running", "stopping"}
  /\ m \in inbox
  /\ inbox' = inbox \ {m}
  /\ Settle(IF m.key = NoId THEN {} ELSE Filed(m.key), "ok", m.to)
  /\ Erase({m.key} \ {NoId})
  /\ UNCHANGED <<callVars, nextId, kernel, inflight, pumping, timeVars>>

(* ~AsyncBus(), when nobody is inside the object any more: the pending_    *)
(* map goes first and its promises with it, then the Bus and its kernel.   *)
Destroy ==
  /\ kernel # "destroyed" /\ ~pumping /\ sampled = NoTime
  /\ \A r \in Requests : pc[r] \in {"idle", "returned"}
  /\ Settle({pending[k] : k \in DOMAIN pending}, "broken", NoOne)
  /\ Erase(DOMAIN pending)
  /\ kernel' = "destroyed"
  /\ inflight' = {} /\ inbox' = {}
  /\ UNCHANGED <<callVars, nextId, pumping, timeVars>>

-----------------------------------------------------------------------------
(* check_timeouts(): the time is read before the lock is taken             *)

ReadClock ==
  /\ kernel # "destroyed" /\ sampled = NoTime
  /\ sampled' = clock
  /\ UNCHANGED <<callVars, mapVars, futureVars, kernelVars, clock>>

KeysNotYetExpired == {k \in DOMAIN pending : sampled <= Instant(deadline[pending[k]])}
ExpiredKeys == {k \in DOMAIN pending : sampled >= Instant(deadline[pending[k]])}

SweepExpired ==
  /\ sampled # NoTime
  /\ LET expired == {pending[k] : k \in ExpiredKeys} IN
       /\ future' = [r \in Requests |->
                       IF r \in expired THEN "timeout" ELSE future[r]]
       /\ by' = [r \in Requests |-> IF r \in expired THEN r ELSE by[r]]
  /\ Erase(ExpiredKeys)
  /\ sampled' = NoTime
  /\ UNCHANGED <<callVars, nextId, kernelVars, clock>>

-----------------------------------------------------------------------------
(* The environment: clock, kernel and workers                              *)

Tick ==
  /\ kernel # "destroyed" /\ clock < MaxClock
  /\ clock' = clock + 1
  /\ UNCHANGED <<callVars, mapVars, futureVars, kernelVars, sampled>>

(* A worker answers a message it holds; nothing keeps it from answering    *)
(* twice, and the kernel passes every answer on.                           *)
WorkerReply(r) ==
  /\ r \in inflight /\ wire[r] # NoId
  /\ \E k \in {wire[r]} \cup NestedIds :
       inbox' = inbox \cup {[key |-> k, to |-> r]}
  /\ inflight' \in {inflight, inflight \ {r}}
  /\ UNCHANGED <<callVars, mapVars, futureVars, kernel, pumping, timeVars>>

(* A worker sends a notification, or a request of its own. *)
WorkerCall(k) ==
  /\ kernel \in {"running", "stopping"}
  /\ inbox' = inbox \cup {[key |-> k, to |-> NoOne]}
  /\ UNCHANGED <<callVars, mapVars, futureVars, kernel, inflight, pumping, timeVars>>

(* A worker dies, or never answers. *)
WorkerLoses(r) ==
  /\ r \in inflight
  /\ inflight' = inflight \ {r}
  /\ UNCHANGED <<callVars, mapVars, futureVars, kernel, inbox, pumping, timeVars>>

(* step() finds all workers gone, or the drain timeout over, or meets a    *)
(* fatal error while the kernel is running.                                *)
KernelStopped ==
  /\ pumping /\ kernel \in {"running", "stopping"}
  /\ kernel' = "stopped"
  /\ inflight' = {} /\ inbox' = {}
  /\ UNCHANGED <<callVars, mapVars, futureVars, pumping, timeVars>>

-----------------------------------------------------------------------------

Call(r) ==
  \/ Prepare(r)
  \/ Register(r)
  \/ SendAccepted(r)
  \/ SendRejected(r)
  \/ ResolveRejected(r)

Sweep == ReadClock \/ SweepExpired

Worker ==
  \/ \E r \in Requests : WorkerReply(r) \/ WorkerLoses(r)
  \/ \E k \in WorkerIds : WorkerCall(k)
  \/ KernelStopped

(* The object is gone and nothing more can happen. *)
Gone == kernel = "destroyed" /\ UNCHANGED vars

Next ==
  \/ \E r \in Requests : Call(r)
  \/ Start
  \/ Stop
  \/ PumpEnter
  \/ PumpReturn
  \/ \E m \in inbox : HandleResponse(m)
  \/ Destroy
  \/ Sweep
  \/ Tick
  \/ Worker
  \/ Gone

Spec == Init /\ [][Next]_vars

(***************************************************************************)
(* Scheduling the callers of AsyncBus owe it: a thread inside              *)
(* request_async() goes on running, and somebody keeps calling             *)
(* check_timeouts() while the clock advances.  Nothing is asked of the     *)
(* workers, of the kernel or of the thread that pumps.                     *)
(***************************************************************************)
CallFairness ==
  /\ \A r \in Requests : WF_vars(Register(r))
  /\ \A r \in Requests : WF_vars(SendAccepted(r) \/ SendRejected(r))
  /\ \A r \in Requests : WF_vars(ResolveRejected(r))
  /\ WF_vars(Tick)

SweepFairness == WF_vars(ReadClock) /\ WF_vars(SweepExpired)

FairSpec == Spec /\ CallFairness /\ SweepFairness

-----------------------------------------------------------------------------
(* Properties                                                              *)

(* Every variable has its type; in particular pending_ maps ids to calls,  *)
(* and the empty id is never a key of it.                                  *)
TypeOK ==
  /\ pc \in [Requests ->
               {"idle", "prepared", "sending", "rejected", "returned"}]
  /\ text \in [Requests -> Message \cup {NoText}]
  /\ id \in [Requests -> Keys \cup {NoId}]
  /\ wire \in [Requests -> Keys \cup {NoId}]
  /\ deadline \in [Requests -> Nat]
  /\ DOMAIN pending \subseteq Keys
  /\ pending \in [DOMAIN pending -> Requests]
  /\ nextId \in Nat
  /\ future \in [Requests -> {"none", "unset"} \cup Settled]
  /\ by \in [Requests -> Requests \cup {NoOne}]
  /\ kernel \in {"none", "created", "running", "stopping", "stopped", "destroyed"}
  /\ inflight \subseteq Requests
  /\ inbox \subseteq WorkerMessage
  /\ pumping \in BOOLEAN
  /\ sampled \in Nat \cup {NoTime}
  /\ clock \in Nat

(* A promise in pending_ has not been settled, so the set_value() of       *)
(* whichever path finds it first cannot throw promise_already_satisfied,   *)
(* which handle_response() would let escape through the C callback.        *)
FiledIsUnset ==
  \A k \in DOMAIN pending :
    /\ id[pending[k]] = k
    /\ future[pending[k]] = "unset"
    /\ pc[pending[k]] \in {"sending", "rejected", "returned"}

(* An unsettled future is one whose promise is filed: no path, not even    *)
(* overwriting the entry, leaves a caller waiting for a promise that       *)
(* nothing can reach any more.                                             *)
UnsetIsFiled ==
  \A r \in Requests :
    future[r] = "unset" /\ pc[r] # "prepared" =>
      id[r] \in DOMAIN pending /\ pending[id[r]] = r

(* The caller left the id to the SDK. *)
Silent(r) == text[r] # NoText /\ text[r].found = NoId /\ text[r].id = NoId

(* Some other call goes by the id of r, and a caller chose it. *)
Clash(r) ==
  \E q \in Requests \ {r} :
    /\ id[r] \in {id[q], wire[q]}
    /\ ~(Silent(q) /\ Silent(r))

(* A future is fulfilled with the reply to its own request, unless ids     *)
(* that callers or workers chose get in the way.  In particular late,      *)
(* repeated and reordered replies do no harm to calls whose ids the SDK    *)
(* injected: next_id_ never gives two of them the same id.                 *)
OwnReply ==
  \A r \in Requests :
    future[r] = "ok" /\ by[r] # r =>
      id[r] \in WorkerIds \cup NestedIds \/ Clash(r)

(* A future reports a failed send only if it was its own call's, unless    *)
(* callers share an id: the entry is looked up again by id after send().   *)
OwnFailure ==
  \A r \in Requests : future[r] = "error" /\ by[r] # r => Clash(r)

(* A promise is broken only by the destructor or by a clash of ids. *)
KeptPromise ==
  \A r \in Requests :
    future[r] = "broken" => kernel = "destroyed" \/ Clash(r)

(* No future reports a timeout before its time is up, although             *)
(* check_timeouts() compares with a time read before it took the lock,     *)
(* unless now() + timeout was more than a time_point can hold.             *)
TimeoutNotEarly ==
  \A r \in Requests :
    future[r] = "timeout" => deadline[r] <= clock \/ deadline[r] >= Horizon

(* A settled future never changes: a reply after the timeout, a timeout    *)
(* after the reply, a second reply are all without effect.                 *)
SettledIsFinal ==
  [][\A r \in Requests :
       future[r] \in Settled => future'[r] = future[r] /\ by'[r] = by[r]]_vars

(* When request_async() returns after a failed send, its future is ready,  *)
(* as tests/test_async.cpp:82 expects, even if a reply, a sweep or another *)
(* call got to the entry between the send and the second lock.             *)
FailureIsReported ==
  [][\A r \in Requests :
       pc[r] = "rejected" /\ pc'[r] = "returned" => future'[r] \in Settled]_vars

(* What OwnReply, OwnFailure and KeptPromise come to when no caller and no *)
(* worker chooses an id: whatever settles a future comes from its own      *)
(* call, and only the destructor breaks a promise.                         *)
Correlated ==
  \A r \in Requests :
    /\ future[r] \in {"ok", "error"} => by[r] = r
    /\ future[r] = "broken" => kernel = "destroyed"

(* Every call that has filed its promise gets an outcome, whatever the     *)
(* workers do and even if the bus is stopped, provided check_timeouts() is *)
(* called again and again.                                                 *)
EventuallySettled ==
  \A r \in Requests : pc[r] = "sending" ~> future[r] \in Settled

(* While one thread pumps no other is inside send() of the same Bus, which *)
(* has no lock: docs/thread-safety.md:16 asks that of every user of a Bus, *)
(* and :74 recommends to pump on one thread and to request from many.      *)
OneThreadInBus == pumping => \A r \in Requests : pc[r] # "sending"

(* The scheduling that the example at async.hpp:54 shows: a loop that      *)
(* pumps, and that nobody calls check_timeouts() from.  A worker answers   *)
(* the message it holds or loses it.                                       *)
PumpFairness ==
  /\ \A r \in Requests : WF_vars(WorkerReply(r) \/ WorkerLoses(r))
  /\ WF_vars(PumpEnter)
  /\ WF_vars(PumpReturn)
  /\ SF_vars(\E m \in inbox : HandleResponse(m))

PumpOnlySpec == Spec /\ CallFairness /\ PumpFairness

-----------------------------------------------------------------------------
(* What AsyncBus implements                                                *)

(* A call waits, as RemoteCalls has it, from Register on. *)
Registered(r) == pc[r] \notin {"idle", "prepared"}

CallStatus ==
  [r \in Requests |-> IF ~Registered(r) THEN "unmade"
                      ELSE IF future[r] = "unset" THEN "waiting"
                      ELSE future[r]]

CallKey == [r \in Requests |-> IF Registered(r) THEN id[r] ELSE NoId]

CallDue == [r \in Requests |-> Instant(deadline[r])]

Remote == INSTANCE RemoteCalls WITH
  Calls <- Requests, NoKey <- NoId,
  status <- CallStatus, key <- CallKey, due <- CallDue,
  now <- clock, closed <- kernel = "destroyed"

(* Each step of AsyncBus does to the calls what one event of RemoteCalls   *)
(* does, and nothing else: a reply or a failed send settles one future,    *)
(* check_timeouts() those that are due and no others, an overwritten entry *)
(* one, and the destructor what is left.                                   *)
CallsSpec == Remote!Spec

-----------------------------------------------------------------------------
(* The inductive invariant that the safety properties follow from          *)

(* What a call's locals and its future look like at each step of it. *)
CallInv ==
  \A r \in Requests :
    /\ pc[r] = "idle" => id[r] = NoId /\ wire[r] = NoId /\ future[r] = "none"
    /\ pc[r] = "prepared" => future[r] = "unset"
    /\ pc[r] # "idle" => id[r] \in Keys /\ text[r] \in Message /\ future[r] # "none"
    /\ Silent(r) => wire[r] \in {id[r], NoId}

Injected(r) == pc[r] # "idle" /\ text[r].found = NoId

(* next_id_ is ahead of every id it has given, and gave each one once. *)
InjectedApart ==
  /\ \A r \in Requests : Injected(r) => id[r] \in Nat /\ id[r] < nextId
  /\ \A r, q \in Requests : Injected(r) /\ Injected(q) /\ id[r] = id[q] => r = q

(* Workers answer only what was sent to them, under its own id. *)
WorkerInv ==
  /\ \A r \in inflight : pc[r] = "returned"
  /\ \A m \in inbox :
       /\ m.to = NoOne => m.key \in WorkerIds
       /\ m.to # NoOne => m.key \in {wire[m.to]} \cup NestedIds
       /\ m.to # NoOne => pc[m.to] = "returned"

ClockInv == sampled # NoTime => sampled <= clock

OutcomeInv == OwnReply /\ OwnFailure /\ KeptPromise /\ TimeoutNotEarly

IndInv ==
  /\ TypeOK
  /\ CallInv
  /\ InjectedApart
  /\ WorkerInv
  /\ ClockInv
  /\ FiledIsUnset
  /\ UnsetIsFiled
  /\ OutcomeInv

=============================================================================
