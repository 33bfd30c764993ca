----------------------------- MODULE BusProofs -----------------------------
(***************************************************************************)
(* Theorems about Bus, for any number of Bus objects, moves and kernel     *)
(* instances.                                                              *)
(***************************************************************************)
EXTENDS Bus, TLAPS

USE DEF busVars, kernelVars, historyVars

-----------------------------------------------------------------------------
(* Type correctness                                                        *)

LEMMA CallType ==
  ASSUME TypeOK, call # NoCall
  PROVE  /\ call.method \in Methods /\ call.object \in Objects
         /\ call.instance \in Kernels /\ call.ran \in Callbacks \cup {Null}
BY DEF TypeOK

LEMMA MethodMeansCall ==
  ASSUME TypeOK, call.method \in Methods
  PROVE  call # NoCall
BY ConstantsAssumption DEF NoCall

LEMMA NoCallRan == NoCall.ran = Null /\ NoCall.instance = Null /\ NoCall.method = Null
BY DEF NoCall

LEMMA EffectType ==
  ASSUME NEW m \in Methods, NEW s \in Effect(m, "created") \cup Effect(m, "running")
           \cup Effect(m, "stopping") \cup Effect(m, "stopped")
  PROVE  s \in {"created", "running", "stopping", "stopped"}
BY DEF Effect, Methods

LEMMA MakeTypeOK ==
  ASSUME TypeOK, NEW o \in Objects, NEW options \in Options, Make(o, options),
         builder' \in Options
  PROVE  TypeOK'
<1>1. PICK i \in Impls :
        /\ heap' = [heap EXCEPT ![i] = "live"]
        /\ callback' = [callback EXCEPT ![i] = options.callback]
        /\ CreateKernel(i, options)
        /\ impl' = [impl EXCEPT ![o] = i]
  BY DEF Make
<1>2. options.callback \in Callbacks \cup {Null}
  BY DEF Options
<1>3. /\ kernel' \in [Kernels -> {"unused", "created", "running", "stopping",
                                 "stopped", "destroyed"}]
      /\ userData' \in [Kernels -> Impls \cup {Null}]
      /\ handle' \in [Impls -> Kernels \cup {Null}]
  BY <1>1 DEF TypeOK, CreateKernel
<1> QED
  BY <1>1, <1>2, <1>3 DEF TypeOK, Make

LEMMA NextTypeOK ==
  ASSUME TypeOK, WiringInv, CallLandsAtHome, [Next]_vars
  PROVE  TypeOK'
<1>1. ASSUME NEW o \in Objects, Construct(o) PROVE TypeOK'
  <2>1. builder' \in Options
    BY <1>1 DEF Construct, TypeOK
  <2> QED
    BY <1>1, <2>1, MakeTypeOK DEF Construct
<1>2. ASSUME NEW o \in Objects, Build(o) PROVE TypeOK'
  <2>1. builder \in Options /\ builder' \in Options
    BY <1>2 DEF Build, EmptyOptions, Options, TypeOK
  <2> QED
    BY <1>2, <2>1, MakeTypeOK DEF Build
<1>3. ASSUME NEW o \in Objects, NEW p \in Objects, MoveConstruct(o, p) PROVE TypeOK'
  BY <1>3 DEF TypeOK, MoveConstruct, Moved
<1>4. ASSUME NEW o \in Objects, NEW p \in Objects, MoveAssign(o, p) PROVE TypeOK'
  BY <1>4 DEF TypeOK, MoveAssign, Moved, DeleteImpl
<1>5. ASSUME NEW o \in Objects, DestructEmpty(o) PROVE TypeOK'
  BY <1>5 DEF TypeOK, DestructEmpty, DeleteImpl
<1>6. ASSUME NEW o \in Objects, Destruct(o) PROVE TypeOK'
  <2>1. handle[impl[o]] \in Kernels
    BY <1>6 DEF TypeOK, Destruct, Initialized, HoldsImpl
  <2>2. call' \in [method : Methods, object : Objects, instance : Kernels,
                   ran : Callbacks \cup {Null}]
    BY <1>6, <2>1 DEF Destruct, Methods
  <2> QED
    BY <1>6, <2>1, <2>2 DEF TypeOK, Destruct
<1>7. ASSUME NEW o \in Objects, NEW m \in Methods, Invoke(o, m) PROVE TypeOK'
  <2>1. handle[impl[o]] \in Kernels /\ Alive(handle[impl[o]])
    BY <1>7 DEF TypeOK, Invoke, Initialized, HoldsImpl, WiringInv, SoleOwner, HandleIsOwn
  <2>2. call' \in [method : Methods, object : Objects, instance : Kernels,
                   ran : Callbacks \cup {Null}]
    BY <1>7, <2>1 DEF Invoke, Enter
  <2>3. \A s \in Effect(m, kernel[handle[impl[o]]]) :
          s \in {"created", "running", "stopping", "stopped"}
    BY <2>1, EffectType DEF Alive
  <2> QED
    BY <1>7, <2>1, <2>2, <2>3 DEF TypeOK, Invoke, Enter
<1>8. ASSUME NEW o \in Objects, NEW c \in Callbacks \cup {Null}, SetCallback(o, c)
      PROVE  TypeOK'
  BY <1>8 DEF TypeOK, SetCallback, HoldsImpl
<1>9. CASE Configure
  BY <1>9 DEF TypeOK, Configure, Options
<1>10. CASE KernelCall
  <2>1. CASE Drained
    BY <2>1 DEF TypeOK, Drained
  <2>2. CASE Trampoline
    <3>1. userData[call.instance] \in Impls
      BY <2>2, CallType DEF Trampoline, CallLandsAtHome, HoldsImpl
    <3>2. callback[userData[call.instance]] \in Callbacks \cup {Null}
      BY <3>1 DEF TypeOK
    <3> QED
      BY <2>2, <3>2, CallType DEF TypeOK, Trampoline
  <2>3. CASE Throw
    BY <2>3 DEF TypeOK, Throw
  <2>4. CASE Return
    BY <2>4 DEF TypeOK, Return
  <2>5. CASE Destroyed
    BY <2>5 DEF TypeOK, Destroyed, DeleteImpl
  <2> QED
    BY <1>10, <2>1, <2>2, <2>3, <2>4, <2>5 DEF KernelCall
<1>11. CASE UNCHANGED vars
  BY <1>11 DEF TypeOK, vars
<1> QED
  BY <1>1, <1>2, <1>3, <1>4, <1>5, <1>6, <1>7, <1>8, <1>9, <1>10, <1>11
  DEF Next, Undefined

-----------------------------------------------------------------------------
(* Who owns what                                                           *)

(* A step that rewires nothing and neither makes nor destroys an instance. *)
LEMMA WiringStays ==
  ASSUME WiringInv, UNCHANGED <<impl, heap, handle, userData, abandoned>>,
         \A k \in Kernels : Alive(k)' <=> Alive(k),
         TypeOK
  PROVE  WiringInv'
<1>1. \A i \in Impls : handle[i] # Null => handle[i] \in Kernels
  BY DEF TypeOK
<1>2. SoleOwner'
  BY DEF WiringInv, SoleOwner, HoldsImpl
<1>3. HandleIsOwn'
  BY <1>1 DEF WiringInv, HandleIsOwn
<1>4. NoneForgotten'
  BY DEF WiringInv, NoneForgotten
<1> QED
  BY <1>2, <1>3, <1>4 DEF WiringInv

(* The Bus that is made owns a new Impl, wired to a new instance or none.  *)
LEMMA MakeWiring ==
  ASSUME TypeOK, WiringInv, NEW o \in Objects, NEW options, Make(o, options)
  PROVE  WiringInv'
<1>1. PICK i \in Impls :
        /\ heap[i] = "unused"
        /\ heap' = [heap EXCEPT ![i] = "live"]
        /\ CreateKernel(i, options)
        /\ impl' = [impl EXCEPT ![o] = i]
  BY DEF Make
<1>2. impl[o] = Absent /\ abandoned' = abandoned
  BY DEF Make
<1>3. SoleOwner'
  BY <1>1, <1>2, ConstantsAssumption DEF WiringInv, SoleOwner, HoldsImpl, TypeOK
<1>4. /\ \A j \in Impls : j # i => handle'[j] = handle[j] /\ heap'[j] = heap[j]
      /\ heap'[i] = "live"
  BY <1>1 DEF CreateKernel, TypeOK
<1>5. CASE handle' = [handle EXCEPT ![i] = Null] /\ UNCHANGED kernelVars
  <2>1. \A k \in Kernels : Alive(k)' <=> Alive(k)
    BY <1>5 DEF Alive
  <2>2. handle'[i] = Null
    BY <1>5 DEF TypeOK
  <2> QED
    BY <1>1, <1>2, <1>3, <1>4, <1>5, <2>1, <2>2
    DEF WiringInv, HandleIsOwn, NoneForgotten, TypeOK
<1>6. CASE ~(handle' = [handle EXCEPT ![i] = Null] /\ UNCHANGED kernelVars)
  <2>1. PICK k \in Kernels :
          /\ kernel[k] = "unused"
          /\ kernel' = [kernel EXCEPT ![k] = "created"]
          /\ userData' = [userData EXCEPT ![k] = i]
          /\ handle' = [handle EXCEPT ![i] = k]
    BY <1>1, <1>6 DEF CreateKernel
  <2>2. /\ \A n \in Kernels : n # k => /\ Alive(n)' <=> Alive(n)
                                      /\ userData'[n] = userData[n]
        /\ Alive(k)' /\ ~Alive(k) /\ userData'[k] = i /\ handle'[i] = k
    BY <2>1 DEF Alive, TypeOK
  <2>3. HandleIsOwn'
    BY <1>4, <2>2 DEF WiringInv, HandleIsOwn, TypeOK
  <2>4. NoneForgotten'
    BY <1>1, <1>2, <1>4, <2>2 DEF WiringInv, NoneForgotten
  <2> QED
    BY <1>3, <2>3, <2>4 DEF WiringInv
<1> QED
  BY <1>5, <1>6

LEMMA MoveConstructWiring ==
  ASSUME TypeOK, WiringInv, NEW o \in Objects, NEW p \in Objects, MoveConstruct(o, p)
  PROVE  WiringInv'
<1>1. /\ impl[o] = Absent /\ o # p
      /\ impl' = [impl EXCEPT ![o] = impl[p], ![p] = Null]
      /\ UNCHANGED <<heap, handle, kernelVars, abandoned>>
  BY DEF MoveConstruct, Moved
<1>2. SoleOwner'
  BY <1>1, ConstantsAssumption DEF WiringInv, SoleOwner, HoldsImpl, TypeOK
<1>3. HandleIsOwn' /\ NoneForgotten'
  BY <1>1 DEF WiringInv, HandleIsOwn, NoneForgotten, Alive
<1> QED
  BY <1>2, <1>3 DEF WiringInv

(* The instance of the Impl that the assignment deletes is abandoned. *)
LEMMA MoveAssignWiring ==
  ASSUME TypeOK, WiringInv, NEW o \in Objects, NEW p \in Objects, MoveAssign(o, p)
  PROVE  WiringInv'
<1>1. /\ impl[o] # Absent /\ o # p
      /\ impl' = [impl EXCEPT ![o] = impl[p], ![p] = Null]
      /\ heap' = [i \in Impls |-> IF i = impl[o] THEN "deleted" ELSE heap[i]]
      /\ UNCHANGED <<handle, kernelVars>>
  BY DEF MoveAssign, Moved, DeleteImpl
<1>2. SoleOwner'
  BY <1>1, ConstantsAssumption DEF WiringInv, SoleOwner, HoldsImpl, TypeOK
<1>3. HandleIsOwn'
  BY <1>1 DEF WiringInv, HandleIsOwn, Alive, TypeOK
<1>4. ASSUME NEW k \in Kernels, Alive(k)', k \notin abandoned'
      PROVE  /\ userData'[k] \in Impls /\ heap'[userData'[k]] = "live"
             /\ handle'[userData'[k]] = k
  <2>1. Alive(k) /\ k \notin abandoned
    BY <1>1, <1>4 DEF MoveAssign, Alive
  <2>2. userData[k] \in Impls /\ heap[userData[k]] = "live" /\ handle[userData[k]] = k
    BY <2>1 DEF WiringInv, NoneForgotten
  <2>3. userData[k] # impl[o]
    BY <1>4, <2>2, ConstantsAssumption DEF MoveAssign, Initialized, HoldsImpl
  <2> QED
    BY <1>1, <2>2, <2>3
<1>5. NoneForgotten'
  BY <1>4 DEF NoneForgotten
<1> QED
  BY <1>2, <1>3, <1>5 DEF WiringInv

LEMMA DestructEmptyWiring ==
  ASSUME TypeOK, WiringInv, NEW o \in Objects, DestructEmpty(o)
  PROVE  WiringInv'
<1>1. /\ impl' = [impl EXCEPT ![o] = Absent]
      /\ heap' = [i \in Impls |-> IF i = impl[o] THEN "deleted" ELSE heap[i]]
      /\ UNCHANGED <<handle, kernelVars, abandoned>>
      /\ impl[o] \in Impls => handle[impl[o]] = Null
  BY DEF DestructEmpty, DeleteImpl, Initialized, HoldsImpl
<1>2. SoleOwner'
  BY <1>1, ConstantsAssumption DEF WiringInv, SoleOwner, HoldsImpl, TypeOK
<1>3. HandleIsOwn'
  BY <1>1 DEF WiringInv, HandleIsOwn, Alive, TypeOK
<1>4. NoneForgotten'
  BY <1>1, ConstantsAssumption DEF WiringInv, NoneForgotten, Alive, TypeOK
<1> QED
  BY <1>2, <1>3, <1>4 DEF WiringInv

(* The instance and the Impl that was its home go together. *)
LEMMA DestroyedWiring ==
  ASSUME TypeOK, WiringInv, CallLandsAtHome, Destroyed
  PROVE  WiringInv'
<1> DEFINE o == call.object
           k == call.instance
<1>1. call # NoCall
  BY MethodMeansCall DEF Destroyed, Methods
<1>2. /\ o \in Objects /\ k \in Kernels /\ impl[o] \in Impls
      /\ handle[impl[o]] = k /\ userData[k] = impl[o] /\ Alive(k)
  BY <1>1, CallType DEF CallLandsAtHome, HoldsImpl
<1>3. /\ kernel' = [kernel EXCEPT ![k] = "destroyed"]
      /\ handle' = [handle EXCEPT ![impl[o]] = Null]
      /\ heap' = [i \in Impls |-> IF i = impl[o] THEN "deleted" ELSE heap[i]]
      /\ impl' = [impl EXCEPT ![o] = Absent]
      /\ UNCHANGED <<userData, abandoned>>
  BY DEF Destroyed, DeleteImpl
<1>4. SoleOwner'
  BY <1>2, <1>3, ConstantsAssumption DEF WiringInv, SoleOwner, HoldsImpl, TypeOK
<1>5. \A n \in Kernels : Alive(n)' <=> Alive(n) /\ n # k
  BY <1>2, <1>3 DEF Alive, TypeOK
<1>6. HandleIsOwn'
  BY <1>2, <1>3, <1>5 DEF WiringInv, HandleIsOwn, TypeOK
<1>7. NoneForgotten'
  BY <1>2, <1>3, <1>5 DEF WiringInv, NoneForgotten, TypeOK
<1> QED
  BY <1>4, <1>6, <1>7 DEF WiringInv

(* Starting, stopping and draining keep an instance alive. *)
LEMMA KernelMoves ==
  ASSUME TypeOK, WiringInv, CallLandsAtHome,
         \/ \E o \in Objects : Destruct(o)
         \/ \E o \in Objects, m \in Methods : Invoke(o, m)
         \/ Drained
  PROVE  \A k \in Kernels : Alive(k)' <=> Alive(k)
<1>1. ASSUME NEW o \in Objects, NEW m \in Methods, Invoke(o, m)
      PROVE  \A k \in Kernels : Alive(k)' <=> Alive(k)
  <2>1. handle[impl[o]] \in Kernels /\ Alive(handle[impl[o]])
    BY <1>1 DEF TypeOK, Invoke, Initialized, HoldsImpl, WiringInv, SoleOwner, HandleIsOwn
  <2>2. PICK s \in Effect(m, kernel[handle[impl[o]]]) :
          kernel' = [kernel EXCEPT ![handle[impl[o]]] = s]
    BY <1>1 DEF Invoke, Enter
  <2>3. s \in {"created", "running", "stopping", "stopped"}
    BY <2>1, <2>2, EffectType DEF Alive
  <2> QED
    BY <2>1, <2>2, <2>3 DEF Alive, TypeOK
<1>2. ASSUME NEW o \in Objects, Destruct(o)
      PROVE  \A k \in Kernels : Alive(k)' <=> Alive(k)
  BY <1>2 DEF Destruct, Alive, TypeOK
<1>3. CASE Drained
  BY <1>3 DEF Drained, Alive, TypeOK
<1> QED
  BY <1>1, <1>2, <1>3

LEMMA NextWiring ==
  ASSUME TypeOK, WiringInv, CallLandsAtHome, [Next]_vars
  PROVE  WiringInv'
<1>1. ASSUME NEW o \in Objects, Construct(o) \/ Build(o) PROVE WiringInv'
  BY <1>1, MakeWiring DEF Construct, Build
<1>2. ASSUME NEW o \in Objects, NEW p \in Objects,
             MoveConstruct(o, p) \/ MoveAssign(o, p)
      PROVE  WiringInv'
  BY <1>2, MoveConstructWiring, MoveAssignWiring
<1>3. ASSUME NEW o \in Objects, DestructEmpty(o) PROVE WiringInv'
  BY <1>3, DestructEmptyWiring
<1>4. ASSUME NEW o \in Objects, Destruct(o) PROVE WiringInv'
  BY <1>4, KernelMoves, WiringStays DEF Destruct
<1>5. ASSUME NEW o \in Objects, NEW m \in Methods, Invoke(o, m) PROVE WiringInv'
  BY <1>5, KernelMoves, WiringStays DEF Invoke
<1>6. CASE Drained
  BY <1>6, KernelMoves, WiringStays DEF Drained
<1>7. CASE UNCHANGED <<impl, heap, handle, kernelVars, abandoned>>
  BY <1>7, WiringStays DEF Alive
<1>8. CASE Destroyed
  BY <1>8, DestroyedWiring
<1> QED
  BY <1>1, <1>2, <1>3, <1>4, <1>5, <1>6, <1>7, <1>8
  DEF Next, SetCallback, Configure, KernelCall, Trampoline, Throw, Return,
      Undefined, vars

-----------------------------------------------------------------------------
(* Calls and callbacks                                                     *)

(* A call begins with a Bus that has an instance, and so with a wired one. *)
LEMMA BegunAtHome ==
  ASSUME TypeOK, WiringInv, NEW o \in Objects, Initialized(o)
  PROVE  /\ impl[o] \in Impls /\ handle[impl[o]] \in Kernels
         /\ Alive(handle[impl[o]]) /\ userData[handle[impl[o]]] = impl[o]
         /\ heap[impl[o]] = "live"
BY DEF TypeOK, Initialized, HoldsImpl, WiringInv, SoleOwner, HandleIsOwn

LEMMA NextCallLandsAtHome ==
  ASSUME TypeOK, WiringInv, CallLandsAtHome, [Next]_vars
  PROVE  CallLandsAtHome'
<1>1. ASSUME NEW o \in Objects,
             \/ Destruct(o)
             \/ \E m \in Methods : Invoke(o, m)
      PROVE  CallLandsAtHome'
  <2>1. /\ Initialized(o) /\ UNCHANGED <<busVars, userData>>
        /\ call'.object = o /\ call'.instance = handle[impl[o]]
    BY <1>1 DEF Destruct, Invoke, Enter
  <2>2. \A k \in Kernels : Alive(k)' <=> Alive(k)
    BY <1>1, KernelMoves
  <2> QED
    BY <2>1, <2>2, BegunAtHome DEF CallLandsAtHome, HoldsImpl
<1>2. CASE Drained
  <2>1. UNCHANGED <<busVars, userData, call>>
    BY <1>2 DEF Drained
  <2>2. \A k \in Kernels : Alive(k)' <=> Alive(k)
    BY <1>2, KernelMoves
  <2> QED
    BY <2>1, <2>2, CallType DEF CallLandsAtHome, HoldsImpl
<1>3. CASE Trampoline
  <2>1. /\ UNCHANGED <<busVars, kernelVars>> /\ call # NoCall
        /\ call'.object = call.object /\ call'.instance = call.instance
    BY <1>3, CallType DEF Trampoline, TypeOK
  <2> QED
    BY <2>1 DEF CallLandsAtHome, HoldsImpl, Alive
<1>4. CASE call' = NoCall
  BY <1>4 DEF CallLandsAtHome
<1>5. CASE UNCHANGED vars
  BY <1>5 DEF CallLandsAtHome, HoldsImpl, Alive, vars
<1> QED
  BY <1>1, <1>2, <1>3, <1>4, <1>5
  DEF Next, Construct, Build, Make, MoveConstruct, MoveAssign, DestructEmpty,
      SetCallback, Configure, Free, KernelCall, Throw, Return, Destroyed, Undefined

LEMMA NextWanted ==
  ASSUME TypeOK, WiringInv, CallLandsAtHome, WantedInv, [Next]_vars
  PROVE  WantedInv'
<1>1. ASSUME NEW o \in Objects, NEW options, Make(o, options) PROVE WantedInv'
  <2>1. PICK i \in Impls :
          /\ heap[i] = "unused"
          /\ callback' = [callback EXCEPT ![i] = options.callback]
          /\ impl' = [impl EXCEPT ![o] = i]
    BY <1>1 DEF Make
  <2>2. \A p \in Objects : impl[p] # i
    BY <2>1 DEF WiringInv, SoleOwner, HoldsImpl
  <2>3. wanted' = [wanted EXCEPT ![o] = options.callback]
    BY <1>1 DEF Make
  <2> QED
    BY <2>1, <2>2, <2>3 DEF WantedInv, HoldsImpl, TypeOK
<1>2. ASSUME NEW o \in Objects, NEW p \in Objects, MoveConstruct(o, p)
      PROVE  WantedInv'
  BY <1>2, ConstantsAssumption
  DEF MoveConstruct, Moved, WantedInv, HoldsImpl, TypeOK
<1>3. \A o, q \in Objects : HoldsImpl(q) /\ q # o => impl[q] # impl[o]
  BY DEF WiringInv, SoleOwner, HoldsImpl
<1>4. ASSUME NEW o \in Objects, NEW p \in Objects, MoveAssign(o, p)
      PROVE  WantedInv'
  BY <1>3, <1>4, ConstantsAssumption
  DEF MoveAssign, DeleteImpl, Moved, WantedInv, HoldsImpl, TypeOK
<1>5. ASSUME NEW o \in Objects, DestructEmpty(o) PROVE WantedInv'
  BY <1>3, <1>5, ConstantsAssumption
  DEF DestructEmpty, DeleteImpl, WantedInv, HoldsImpl, TypeOK
<1>6. ASSUME NEW o \in Objects, NEW c \in Callbacks \cup {Null}, SetCallback(o, c)
      PROVE  WantedInv'
  BY <1>6 DEF SetCallback, WantedInv, HoldsImpl, TypeOK, WiringInv, SoleOwner
<1>7. CASE Destroyed
  <2>1. call.object \in Objects
    BY <1>7, MethodMeansCall, CallType DEF Destroyed, Methods
  <2> QED
    BY <1>3, <1>7, <2>1, ConstantsAssumption
    DEF Destroyed, DeleteImpl, WantedInv, HoldsImpl, TypeOK
<1>8. CASE UNCHANGED <<impl, callback, wanted>>
  BY <1>8 DEF WantedInv, HoldsImpl
<1> QED
  BY <1>1, <1>2, <1>4, <1>5, <1>6, <1>7, <1>8
  DEF Next, Construct, Build, Configure, Destruct, Invoke, KernelCall, Drained,
      Trampoline, Throw, Return, Undefined, vars

LEMMA NextRightCallback ==
  ASSUME TypeOK, CallLandsAtHome, WantedInv, RightCallback, [Next]_vars
  PROVE  RightCallback'
<1>1. CASE Trampoline
  <2>1. /\ call # NoCall /\ wanted' = wanted
        /\ call' = [call EXCEPT !.ran = callback[userData[call.instance]]]
    BY <1>1 DEF Trampoline
  <2>2. call'.ran = callback[userData[call.instance]] /\ call'.object = call.object
    BY <2>1, CallType DEF TypeOK
  <2>3. call.object \in Objects /\ callback[userData[call.instance]] = wanted[call.object]
    BY <2>1, CallType DEF CallLandsAtHome, WantedInv
  <2> QED
    BY <2>1, <2>2, <2>3 DEF RightCallback
<1>2. CASE call' = NoCall
  BY <1>2, NoCallRan DEF RightCallback
<1>3. CASE \E o \in Objects : Destruct(o) \/ \E m \in Methods : Invoke(o, m)
  BY <1>3 DEF Destruct, Invoke, Enter, RightCallback
<1>4. CASE UNCHANGED <<call, wanted>>
  BY <1>4 DEF RightCallback
<1> QED
  BY <1>1, <1>2, <1>3, <1>4
  DEF Next, Construct, Build, Make, MoveConstruct, MoveAssign, DestructEmpty,
      SetCallback, Configure, Free, KernelCall, Drained, Throw, Return,
      Destroyed, Undefined, vars

LEMMA NextDestroyInv ==
  ASSUME TypeOK, WiringInv, CallLandsAtHome, DestroyInv, [Next]_vars
  PROVE  DestroyInv'
<1>1. ASSUME NEW o \in Objects, Destruct(o) PROVE DestroyInv'
  BY <1>1, BegunAtHome DEF Destruct, DestroyInv, TypeOK
<1>2. ASSUME NEW o \in Objects, NEW m \in Methods \ {"destroy"}, Invoke(o, m)
      PROVE  DestroyInv'
  BY <1>2 DEF Invoke, Enter, DestroyInv
<1>3. CASE Drained
  BY <1>3 DEF Drained, DestroyInv
<1>4. CASE Trampoline
  BY <1>4, CallType DEF Trampoline, DestroyInv, TypeOK
<1>5. CASE call' = NoCall
  BY <1>5, NoCallRan, ConstantsAssumption DEF DestroyInv, Methods
<1>6. CASE UNCHANGED vars
  BY <1>6 DEF DestroyInv, vars
<1> QED
  BY <1>1, <1>2, <1>3, <1>4, <1>5, <1>6
  DEF Next, Construct, Build, Make, MoveConstruct, MoveAssign, DestructEmpty,
      SetCallback, Configure, Free, KernelCall, Throw, Return, Destroyed, Undefined

-----------------------------------------------------------------------------
(* The theorems                                                            *)

LEMMA InitIndInv == Init => IndInv
<1> SUFFICES ASSUME Init PROVE IndInv
  OBVIOUS
<1>1. TypeOK
  BY DEF Init, TypeOK, Options, EmptyOptions
<1>2. WiringInv
  BY ConstantsAssumption
  DEF Init, WiringInv, SoleOwner, HandleIsOwn, NoneForgotten, HoldsImpl, Alive
<1>3. CallLandsAtHome /\ RightCallback /\ DestroyInv
  BY NoCallRan, ConstantsAssumption
  DEF Init, CallLandsAtHome, RightCallback, DestroyInv, Methods
<1>4. WantedInv
  BY ConstantsAssumption DEF Init, WantedInv, HoldsImpl
<1> QED
  BY <1>1, <1>2, <1>3, <1>4 DEF IndInv

(* The invariant that all the others follow from. *)
THEOREM Inductive == Spec => []IndInv
<1>1. IndInv /\ [Next]_vars => IndInv'
  BY NextTypeOK, NextWiring, NextCallLandsAtHome, NextWanted, NextRightCallback,
     NextDestroyInv
  DEF IndInv
<1> QED
  BY <1>1, InitIndInv, PTL DEF Spec

(* Every variable of Bus always has its type. *)
THEOREM TypeCorrect == Spec => []TypeOK
<1>1. IndInv => TypeOK
  BY DEF IndInv
<1> QED
  BY <1>1, Inductive, PTL

(* However Bus objects are moved and assigned, each live Impl has one      *)
(* owner.                                                                  *)
THEOREM OwnersAreSole == Spec => []SoleOwner
<1>1. IndInv => SoleOwner
  BY DEF IndInv, WiringInv
<1> QED
  BY <1>1, Inductive, PTL

(* The instance of an Impl calls back to that Impl, wherever it has gone.  *)
THEOREM HandlesAreOwn == Spec => []HandleIsOwn
<1>1. IndInv => HandleIsOwn
  BY DEF IndInv, WiringInv
<1> QED
  BY <1>1, Inductive, PTL

(* Every instance has a home, unless an assignment has abandoned it.       *)
THEOREM InstancesHaveHomes == Spec => []NoneForgotten
<1>1. IndInv => NoneForgotten
  BY DEF IndInv, WiringInv
<1> QED
  BY <1>1, Inductive, PTL

(* From whichever call the kernel runs a callback, it finds the live Impl  *)
(* of the Bus that made the call.                                          *)
THEOREM CallbacksLand == Spec => []CallLandsAtHome
<1>1. IndInv => CallLandsAtHome
  BY DEF IndInv
<1> QED
  BY <1>1, Inductive, PTL

(* There it runs the callback that the program wants of that Bus.          *)
THEOREM CallbacksAreRight == Spec => []RightCallback
<1>1. IndInv => RightCallback
  BY DEF IndInv
<1> QED
  BY <1>1, Inductive, PTL

(* As long as no assignment is made to a Bus that has an instance, every   *)
(* instance that lives is held by a Bus whose destructor will destroy it.  *)
THEOREM OnlyAssignmentLeaks == Spec => [](abandoned = {} => KernelsHeld)
<1>1. IndInv /\ abandoned = {} => KernelsHeld
  BY DEF IndInv, WiringInv, NoneForgotten, SoleOwner, KernelsHeld, Held, HoldsImpl
<1> QED
  BY <1>1, Inductive, PTL

(* No instance is destroyed while it runs. *)
THEOREM DestroyedAfterStop == Spec => StoppedFirst
<1>1. ASSUME IndInv, [Next]_vars, NEW k \in Kernels, kernel[k] = "running",
             kernel'[k] = "destroyed"
      PROVE  FALSE
  <2>1. CASE Destroyed
    <3>1. TypeOK /\ call.method = "destroy" /\ call # NoCall
      BY <1>1, <2>1, MethodMeansCall DEF Destroyed, Methods, IndInv
    <3>2. k = call.instance
      BY <1>1, <2>1, <3>1, CallType DEF Destroyed, TypeOK
    <3> QED
      BY <1>1, <2>1, <3>2 DEF IndInv, DestroyInv, Destroyed
  <2>2. CASE \E o \in Objects, options \in Options : Make(o, options)
    BY <1>1, <2>2 DEF Make, CreateKernel, IndInv, TypeOK
  <2>3. CASE \/ \E o \in Objects : Destruct(o)
             \/ \E o \in Objects, m \in Methods : Invoke(o, m)
             \/ Drained
    BY <1>1, <2>3, KernelMoves DEF IndInv, Alive
  <2>4. builder \in Options
    BY <1>1 DEF IndInv, TypeOK
  <2>5. CASE kernel' = kernel
    BY <1>1, <2>5
  <2> QED
    BY <1>1, <2>1, <2>2, <2>3, <2>4, <2>5
    DEF Next, Construct, Build, MoveConstruct, MoveAssign, DestructEmpty,
        SetCallback, Configure, KernelCall, Trampoline, Throw, Return, Undefined, vars
<1>2. IndInv /\ [Next]_vars =>
        [\A k \in Kernels : kernel[k] = "running" => kernel'[k] # "destroyed"]_vars
  BY <1>1
<1> QED
  BY <1>2, Inductive, PTL DEF Spec, StoppedFirst
=============================================================================
