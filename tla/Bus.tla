-------------------------------- MODULE Bus --------------------------------
(***************************************************************************)
(* The Bus class of bus.hpp and bus.cpp, and BusBuilder: who owns a kernel *)
(* handle while Bus objects are made, moved, assigned and destroyed, which *)
(* calls reach the kernel, and where its callbacks land.                   *)
(*                                                                         *)
(* A Bus is a unique_ptr to an Impl; the Impl holds the kernel handle and  *)
(* the callbacks, and its address is the user_data of the kernel.  A Bus   *)
(* belongs to one thread.  The interleaving is between the program and the *)
(* callbacks the kernel makes from inside the calls it is given.           *)
(*                                                                         *)
(* The six callback slots of Options work alike; one stands for them.      *)
(***************************************************************************)
EXTENDS Naturals

CONSTANTS
  Objects,    \* places of the program that may hold a Bus
  Impls,      \* addresses of Bus::Impl objects, each used at most once
  Kernels,    \* stdio_bus_t instances, each created at most once
  Callbacks,  \* functions a program may register
  Null,       \* nullptr, or an empty std::function
  Absent      \* no Bus lives in this place

(* Options: whether the kernel can make something of the configuration,    *)
(* and the callback.                                                       *)
Options == [config : BOOLEAN, callback : Callbacks \cup {Null}]

(* Kernel calls that may run callbacks. *)
Methods == {"start", "step", "stop", "send", "destroy"}

ASSUME ConstantsAssumption ==
  /\ Null \notin Impls \cup Kernels \cup Callbacks \cup Objects \cup Methods
  /\ Absent \notin Impls \cup {Null}

VARIABLES
  impl,       \* impl[o]: impl_ of the Bus in place o
  heap,       \* heap[i]: whether the Impl at i is "unused", "live", "deleted"
  handle,     \* handle[i]: Impl::handle
  callback,   \* callback[i]: Impl::options.on_message and the like
  builder,    \* BusBuilder::options_
  kernel,     \* kernel[k]: state of instance k
  userData,   \* userData[k]: where its trampolines look for the Impl
  call,       \* the kernel call in progress: a method, its Bus, the
              \* instance, and the callback it ran last
  wanted,     \* history: wanted[o]: the callback the program gave that Bus
  abandoned,  \* history: instances whose Impl was deleted by an assignment
  escaped     \* an exception has left a callback

busVars    == <<impl, heap, handle, callback, builder>>
kernelVars == <<kernel, userData>>
historyVars == <<wanted, abandoned>>
vars == <<busVars, kernelVars, call, historyVars, escaped>>

-----------------------------------------------------------------------------

NoCall == [method |-> Null, object |-> Null, instance |-> Null, ran |-> Null]

Alive(k) == kernel[k] \in {"created", "running", "stopping", "stopped"}

(* The program has control: no kernel call runs, nothing has gone wrong. *)
Free == call = NoCall /\ ~escaped

HoldsImpl(o) == impl[o] \in Impls

(* if (!impl_ || !impl_->handle) return ... Invalid *)
Initialized(o) == HoldsImpl(o) /\ handle[impl[o]] # Null

EmptyOptions == [config |-> FALSE, callback |-> Null]

Init ==
  /\ impl = [o \in Objects |-> Absent]
  /\ heap = [i \in Impls |-> "unused"]
  /\ handle = [i \in Impls |-> Null]
  /\ callback = [i \in Impls |-> Null]
  /\ builder = EmptyOptions
  /\ kernel = [k \in Kernels |-> "unused"]
  /\ userData = [k \in Kernels |-> Null]
  /\ call = NoCall
  /\ wanted = [o \in Objects |-> Null]
  /\ abandoned = {}
  /\ escaped = FALSE

-----------------------------------------------------------------------------
(* Construction, move and destruction                                      *)

(* Wrong forms of some definitions stand before them.  The runs put each   *)
(* in the place of its original to see the property meant for it fail.     *)
CreateKernelForCallback(i, options) ==
  \E k \in Kernels :
    /\ options.config /\ kernel[k] = "unused"
    /\ kernel' = [kernel EXCEPT ![k] = "created"]
    /\ userData' = [userData EXCEPT ![k] = options.callback]
    /\ handle' = [handle EXCEPT ![i] = k]

(* stdio_bus_create(): an instance that calls back to Impl i, or NULL. *)
CreateKernel(i, options) ==
  \/ \E k \in Kernels :
       /\ options.config /\ kernel[k] = "unused"
       /\ kernel' = [kernel EXCEPT ![k] = "created"]
       /\ userData' = [userData EXCEPT ![k] = i]
       /\ handle' = [handle EXCEPT ![i] = k]
  \/ /\ handle' = [handle EXCEPT ![i] = Null]
     /\ UNCHANGED kernelVars

(* Bus(Options): the Impl takes the options; its address goes to the kernel. *)
Make(o, options) ==
  /\ impl[o] = Absent
  /\ \E i \in Impls :
       /\ heap[i] = "unused"
       /\ heap' = [heap EXCEPT ![i] = "live"]
       /\ callback' = [callback EXCEPT ![i] = options.callback]
       /\ CreateKernel(i, options)
       /\ impl' = [impl EXCEPT ![o] = i]
  /\ wanted' = [wanted EXCEPT ![o] = options.callback]
  /\ UNCHANGED <<call, abandoned, escaped>>

Construct(o) ==
  /\ Free
  /\ \E options \in Options : Make(o, options)
  /\ UNCHANGED builder

(* config_path() and the like, and on_message() and the like *)
Configure ==
  /\ Free
  /\ \/ builder' = [builder EXCEPT !.config = TRUE]
     \/ \E c \in Callbacks \cup {Null} : builder' = [builder EXCEPT !.callback = c]
  /\ UNCHANGED <<impl, heap, handle, callback, kernelVars, call, historyVars, escaped>>

(* build() moves the options out: a second Bus is made from nothing. *)
Build(o) ==
  /\ Free
  /\ Make(o, builder)
  /\ builder' = EmptyOptions

(* The Impl that Bus o points to, if any, is deleted without a word to the *)
(* kernel: Impl has no destructor of its own.  Its callbacks go with it.   *)
DeleteImpl(o) ==
  /\ heap' = [i \in Impls |-> IF i = impl[o] THEN "deleted" ELSE heap[i]]
  /\ callback' = [i \in Impls |-> IF i = impl[o] THEN Null ELSE callback[i]]

SourceKept(o, p) == [impl EXCEPT ![o] = impl[p]]

(* std::move(other.impl_), from p to o *)
Moved(o, p) == [impl EXCEPT ![o] = impl[p], ![p] = Null]

CopyImpl(o, p) ==
  /\ Free
  /\ impl[o] = Absent /\ HoldsImpl(p)
  /\ \E i \in Impls :
       /\ heap[i] = "unused"
       /\ heap' = [heap EXCEPT ![i] = "live", ![impl[p]] = "deleted"]
       /\ handle' = [handle EXCEPT ![i] = handle[impl[p]], ![impl[p]] = Null]
       /\ callback' = [callback EXCEPT ![i] = callback[impl[p]]]
       /\ impl' = [impl EXCEPT ![o] = i, ![p] = Null]
  /\ wanted' = [wanted EXCEPT ![o] = wanted[p], ![p] = Null]
  /\ UNCHANGED <<builder, kernelVars, call, abandoned, escaped>>

(* Bus(Bus&&) *)
MoveConstruct(o, p) ==
  /\ Free
  /\ impl[o] = Absent /\ impl[p] # Absent
  /\ impl' = Moved(o, p)
  /\ wanted' = [wanted EXCEPT ![o] = wanted[p], ![p] = Null]
  /\ UNCHANGED <<heap, handle, callback, builder, kernelVars, call, abandoned,
                 escaped>>

(* operator=(Bus&&): the unique_ptr deletes the Impl that was there. *)
MoveAssign(o, p) ==
  /\ Free
  /\ o # p /\ impl[o] # Absent /\ impl[p] # Absent
  /\ impl' = Moved(o, p)
  /\ DeleteImpl(o)
  /\ wanted' = [wanted EXCEPT ![o] = wanted[p], ![p] = Null]
  /\ abandoned' = abandoned \cup {k \in Kernels : Initialized(o) /\ handle[impl[o]] = k}
  /\ UNCHANGED <<handle, builder, kernelVars, call, escaped>>

DestructForgetful(o) ==
  /\ Free
  /\ impl[o] # Absent
  /\ impl' = [impl EXCEPT ![o] = Absent]
  /\ DeleteImpl(o)
  /\ wanted' = [wanted EXCEPT ![o] = Null]
  /\ UNCHANGED <<handle, builder, kernelVars, call, abandoned, escaped>>

(* ~Bus() of a Bus without a kernel *)
DestructEmpty(o) ==
  /\ Free
  /\ impl[o] # Absent /\ ~Initialized(o)
  /\ impl' = [impl EXCEPT ![o] = Absent]
  /\ DeleteImpl(o)
  /\ wanted' = [wanted EXCEPT ![o] = Null]
  /\ UNCHANGED <<handle, builder, kernelVars, call, abandoned, escaped>>

-----------------------------------------------------------------------------
(* Calls into the kernel                                                   *)

(* What the kernel does with a call at once.  A start() that fails leaves  *)
(* the instance as it was or stops it, and stop() only begins the drain;   *)
(* out of place they are refused and change nothing.                       *)
Effect(method, state) ==
  CASE method = "start" /\ state = "created" -> {"running", "created", "stopped"}
    [] method = "stop" /\ state = "running" -> {"stopping"}
    [] OTHER -> {state}

Enter(o, method) ==
  LET k == handle[impl[o]] IN
    /\ call' = [method |-> method, object |-> o, instance |-> k, ran |-> Null]
    /\ \E s \in Effect(method, kernel[k]) : kernel' = [kernel EXCEPT ![k] = s]

(* start(), step(), stop(), send() *)
Invoke(o, method) ==
  /\ Free
  /\ Initialized(o)
  /\ Enter(o, method)
  /\ UNCHANGED <<busVars, userData, historyVars, escaped>>

DestroyAtOnce(o) ==
  /\ Free
  /\ Initialized(o)
  /\ Enter(o, "destroy")
  /\ UNCHANGED <<busVars, userData, historyVars, escaped>>

(* ~Bus(): stop(handle, 5) if the kernel runs, then destroy(handle) *)
Destruct(o) ==
  /\ Free
  /\ Initialized(o)
  /\ LET k == handle[impl[o]] IN
       /\ call' = [method |-> "destroy", object |-> o, instance |-> k, ran |-> Null]
       /\ kernel' = [kernel EXCEPT
                       ![k] = IF @ = "running" THEN "stopping" ELSE @]
  /\ UNCHANGED <<busVars, userData, historyVars, escaped>>

(* step() finds all workers gone, or the drain timeout over, or meets a    *)
(* fatal error while the instance is running.                              *)
Drained ==
  /\ call.method = "step" /\ kernel[call.instance] \in {"running", "stopping"}
  /\ kernel' = [kernel EXCEPT ![call.instance] = "stopped"]
  /\ UNCHANGED <<busVars, userData, call, historyVars, escaped>>

(* A trampoline: user_data is the Impl, whose callback runs if it is set. *)
Trampoline ==
  /\ call # NoCall
  /\ LET c == callback[userData[call.instance]] IN
       /\ c # Null
       /\ call' = [call EXCEPT !.ran = c]
  /\ UNCHANGED <<busVars, kernelVars, historyVars, escaped>>

(* The callback throws.  No trampoline catches: the exception leaves       *)
(* through the kernel's C frames, and what then happens is not defined.    *)
Throw ==
  /\ call # NoCall
  /\ callback[userData[call.instance]] # Null
  /\ escaped' = TRUE
  /\ call' = NoCall
  /\ UNCHANGED <<busVars, kernelVars, historyVars>>

Return ==
  /\ call.method \in Methods \ {"destroy"}
  /\ call' = NoCall
  /\ UNCHANGED <<busVars, kernelVars, historyVars, escaped>>

HandleKept ==
  /\ call.method = "destroy"
  /\ kernel' = [kernel EXCEPT ![call.instance] = "destroyed"]
  /\ call' = NoCall
  /\ UNCHANGED <<busVars, userData, historyVars, escaped>>

(* stdio_bus_destroy() returns; the Impl and the Bus go. *)
Destroyed ==
  /\ call.method = "destroy"
  /\ LET o == call.object IN
       /\ kernel' = [kernel EXCEPT ![call.instance] = "destroyed"]
       /\ handle' = [handle EXCEPT ![impl[o]] = Null]
       /\ DeleteImpl(o)
       /\ impl' = [impl EXCEPT ![o] = Absent]
       /\ wanted' = [wanted EXCEPT ![o] = Null]
  /\ call' = NoCall
  /\ UNCHANGED <<builder, userData, abandoned, escaped>>

SetCallbackOnce(o, c) ==
  /\ Free
  /\ HoldsImpl(o)
  /\ callback' = [callback EXCEPT ![impl[o]] = IF @ = Null THEN c ELSE @]
  /\ wanted' = [wanted EXCEPT ![o] = c]
  /\ UNCHANGED <<impl, heap, handle, builder, kernelVars, call, abandoned,
                 escaped>>

(* on_message() and its like, an empty function included: nothing happens  *)
(* to a Bus that was moved from.                                           *)
SetCallback(o, c) ==
  /\ Free
  /\ HoldsImpl(o)
  /\ callback' = [callback EXCEPT ![impl[o]] = c]
  /\ wanted' = [wanted EXCEPT ![o] = c]
  /\ UNCHANGED <<impl, heap, handle, builder, kernelVars, call, abandoned,
                 escaped>>

-----------------------------------------------------------------------------

KernelCall ==
  \/ Drained
  \/ Trampoline
  \/ Throw
  \/ Return
  \/ Destroyed

Undefined == escaped /\ UNCHANGED vars

Next ==
  \/ \E o \in Objects :
       \/ Construct(o)
       \/ Build(o)
       \/ \E p \in Objects : MoveConstruct(o, p) \/ MoveAssign(o, p)
       \/ Destruct(o)
       \/ DestructEmpty(o)
       \/ \E m \in Methods \ {"destroy"} : Invoke(o, m)
       \/ \E c \in Callbacks \cup {Null} : SetCallback(o, c)
  \/ Configure
  \/ KernelCall
  \/ Undefined

Spec == Init /\ [][Next]_vars

(* No Bus with a kernel outlives its scope for ever, wherever the kernel   *)
(* has been moved to, and kernel calls return.                             *)
ScopesEnd ==
  /\ \A o \in Objects : SF_vars(Destruct(o))
  /\ WF_vars(Return \/ Destroyed)

FairSpec == Spec /\ ScopesEnd

-----------------------------------------------------------------------------
(* Properties                                                              *)

(* Every variable has its type. *)
TypeOK ==
  /\ impl \in [Objects -> Impls \cup {Null, Absent}]
  /\ heap \in [Impls -> {"unused", "live", "deleted"}]
  /\ handle \in [Impls -> Kernels \cup {Null}]
  /\ callback \in [Impls -> Callbacks \cup {Null}]
  /\ builder \in Options
  /\ kernel \in [Kernels -> {"unused", "created", "running", "stopping",
                             "stopped", "destroyed"}]
  /\ userData \in [Kernels -> Impls \cup {Null}]
  /\ call \in [method : Methods, object : Objects, instance : Kernels,
               ran : Callbacks \cup {Null}] \cup {NoCall}
  /\ wanted \in [Objects -> Callbacks \cup {Null}]
  /\ abandoned \subseteq Kernels
  /\ escaped \in BOOLEAN

(* Through any sequence of moves and assignments, an Impl that lives       *)
(* belongs to exactly one Bus, and no Bus points to one that does not.     *)
SoleOwner ==
  /\ \A o \in Objects : HoldsImpl(o) => heap[impl[o]] = "live"
  /\ \A o, p \in Objects : HoldsImpl(o) /\ impl[o] = impl[p] => o = p
  /\ \A i \in Impls : heap[i] = "live" => \E o \in Objects : impl[o] = i

(* The kernel instance of a live Impl lives too and calls back to that     *)
(* Impl, although the Bus it was made in may be gone or moved from.        *)
HandleIsOwn ==
  \A i \in Impls :
    heap[i] = "live" /\ handle[i] # Null =>
      Alive(handle[i]) /\ userData[handle[i]] = i

(* Every instance that lives is the handle of a live Impl, so that some    *)
(* destructor will destroy it, unless an assignment deleted that Impl.     *)
NoneForgotten ==
  \A k \in Kernels :
    Alive(k) /\ k \notin abandoned =>
      userData[k] \in Impls /\ heap[userData[k]] = "live" /\ handle[userData[k]] = k

(* While a kernel call runs, even the destructor's, the trampolines find   *)
(* the live Impl of the Bus that made the call.                            *)
CallLandsAtHome ==
  call # NoCall =>
    /\ HoldsImpl(call.object)
    /\ handle[impl[call.object]] = call.instance
    /\ Alive(call.instance)
    /\ userData[call.instance] = impl[call.object]
    /\ heap[userData[call.instance]] = "live"

(* A callback that runs is the one the program last gave to the Bus whose  *)
(* call runs it, or to the Bus or builder that one was moved from.         *)
RightCallback == call.ran # Null => call.ran = wanted[call.object]

(* No instance is destroyed while it runs: it has been told to stop. *)
StoppedFirst ==
  [][\A k \in Kernels : kernel[k] = "running" => kernel'[k] # "destroyed"]_vars

(* The program holds instance k: some Bus would destroy it. *)
Held(k) == \E o \in Objects : HoldsImpl(o) /\ handle[impl[o]] = k

Status(k) ==
  IF Alive(k) THEN IF Held(k) THEN "held" ELSE "lost"
  ELSE IF kernel[k] = "unused" THEN "unmade" ELSE "released"

KernelStatus == [k \in Kernels |-> Status(k)]

Ownership == INSTANCE KernelOwnership WITH
  None <- Null,
  status <- KernelStatus,
  busy <- call.instance

(* Bus keeps the promise of KernelOwnership. *)
OwnershipSpec == Ownership!Spec

(* No instance lives for ever: it is destroyed in the end, unless an       *)
(* assignment abandoned it or, against what the documents promise          *)
(* (ExceptionsCaught), an exception left a callback.                       *)
Released ==
  \A k \in Kernels : []<>(~Alive(k) \/ k \in abandoned \/ escaped)

(* RAII as architecture.md:96 and bus.hpp:31 have it: there is always a    *)
(* Bus whose destructor will destroy the instance and end its workers.     *)
KernelsHeld == \A k \in Kernels : Alive(k) => Held(k)

(* An exception of a callback stays in the SDK: "Caught and logged, do not *)
(* propagate", docs/02-core-concepts/02-callbacks-contract.md:26.  Nothing *)
(* then keeps start(), step(), stop(), send() or the destructor from       *)
(* ending as they should.                                                  *)
ExceptionsCaught == ~escaped

-----------------------------------------------------------------------------
(* The inductive invariant that the safety properties follow from          *)

WiringInv == SoleOwner /\ HandleIsOwn /\ NoneForgotten

(* Callbacks travel with the Bus. *)
WantedInv == \A o \in Objects : HoldsImpl(o) => callback[impl[o]] = wanted[o]

(* The destructor has stopped what it destroys. *)
DestroyInv == call.method = "destroy" => kernel[call.instance] # "running"

IndInv ==
  /\ TypeOK
  /\ WiringInv
  /\ CallLandsAtHome
  /\ WantedInv
  /\ RightCallback
  /\ DestroyInv
=============================================================================
