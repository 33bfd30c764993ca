--------------------------- MODULE BusRefinement ---------------------------
(***************************************************************************)
(* Bus implements KernelOwnership, for any number of Bus objects, moves    *)
(* and kernel instances.                                                   *)
(***************************************************************************)
EXTENDS BusProofs

USE DEF busVars, kernelVars, historyVars

(* An instance is held exactly if it lives in a live Impl. *)
Wires(k) ==
  /\ Alive(k) /\ userData[k] \in Impls
  /\ heap[userData[k]] = "live" /\ handle[userData[k]] = k

HeldInv == \A k \in Kernels : Held(k) <=> Wires(k)

LEMMA HeldIsWired == IndInv => HeldInv
<1> SUFFICES ASSUME IndInv, NEW k \in Kernels PROVE Held(k) <=> Wires(k)
  BY DEF HeldInv
<1>1. Held(k) => Wires(k)
  BY ConstantsAssumption
  DEF IndInv, Held, Wires, HoldsImpl, WiringInv, SoleOwner, HandleIsOwn
<1>2. Wires(k) => Held(k)
  BY DEF IndInv, Held, Wires, HoldsImpl, WiringInv, SoleOwner
<1> QED
  BY <1>1, <1>2

-----------------------------------------------------------------------------
(* How a step changes the status of the instances                          *)

(* Only instances that live change, and they live on. *)
LivesStay == \A k \in Kernels : kernel'[k] = kernel[k] \/ (Alive(k) /\ Alive(k)')

WiresStay == \A k \in Kernels : Alive(k) => (Wires(k)' <=> Wires(k))

LEMMA StatusStays ==
  ASSUME HeldInv, HeldInv', LivesStay, WiresStay
  PROVE  KernelStatus' = KernelStatus
<1>1. ASSUME NEW k \in Kernels PROVE Status(k)' = Status(k)
  <2>1. Alive(k)' <=> Alive(k)
    BY DEF Alive, LivesStay
  <2>2. Alive(k) => (Held(k)' <=> Held(k))
    BY DEF HeldInv, WiresStay
  <2>3. ~Alive(k) => kernel'[k] = kernel[k]
    BY DEF LivesStay
  <2> QED
    BY <2>1, <2>2, <2>3 DEF Status
<1> QED
  BY <1>1 DEF KernelStatus

LEMMA StatusFramed ==
  ASSUME HeldInv, HeldInv', UNCHANGED <<heap, handle, userData>>, LivesStay
  PROVE  KernelStatus' = KernelStatus
<1>1. WiresStay
  BY DEF Wires, WiresStay, LivesStay, Alive
<1> QED
  BY <1>1, StatusStays

(* One instance changes its status. *)
LEMMA StatusBecomes ==
  ASSUME NEW n \in Kernels, NEW to, Status(n)' = to,
         \A k \in Kernels \ {n} : Status(k)' = Status(k)
  PROVE  KernelStatus' = [KernelStatus EXCEPT ![n] = to]
BY DEF KernelStatus

-----------------------------------------------------------------------------
(* One lemma for each kind of step                                         *)

LEMMA MakeImplements ==
  ASSUME IndInv, HeldInv, HeldInv', NEW o \in Objects, NEW options,
         Make(o, options), Free
  PROVE  [Ownership!Next]_(Ownership!vars)
<1>1. PICK i \in Impls :
        /\ heap[i] = "unused"
        /\ heap' = [heap EXCEPT ![i] = "live"]
        /\ CreateKernel(i, options)
  BY DEF Make
<1>2. call' = call /\ call.instance = Null
  BY NoCallRan DEF Make, Free
<1>3. TypeOK /\ WiringInv
  BY DEF IndInv
<1>4. ASSUME NEW k \in Kernels, Wires(k) PROVE userData[k] # i
  BY <1>1, <1>4 DEF Wires
<1>5. CASE handle' = [handle EXCEPT ![i] = Null] /\ UNCHANGED kernelVars
  <2>1. ASSUME NEW k \in Kernels, Alive(k) PROVE Wires(k)' <=> Wires(k)
    <3>1. Wires(k)' => Wires(k)
      BY <1>1, <1>3, <1>5, ConstantsAssumption DEF Wires, TypeOK, Alive
    <3>2. Wires(k) => Wires(k)'
      BY <1>1, <1>3, <1>4, <1>5 DEF Wires, TypeOK, Alive
    <3> QED
      BY <3>1, <3>2
  <2>2. KernelStatus' = KernelStatus
    BY <1>5, <2>1, StatusStays DEF LivesStay, WiresStay
  <2> QED
    BY <1>2, <2>2 DEF Ownership!vars
<1>6. ASSUME NEW n \in Kernels,
             kernel[n] = "unused",
             kernel' = [kernel EXCEPT ![n] = "created"],
             userData' = [userData EXCEPT ![n] = i],
             handle' = [handle EXCEPT ![i] = n]
      PROVE  Ownership!Acquire(n)
  <2>1. ASSUME NEW k \in Kernels \ {n} PROVE Status(k)' = Status(k)
    <3>1. kernel'[k] = kernel[k] /\ userData'[k] = userData[k]
      BY <1>3, <1>6 DEF TypeOK
    <3>2. Wires(k)' => Wires(k)
      BY <1>1, <1>3, <1>6, <3>1 DEF Wires, TypeOK, Alive
    <3>3. Wires(k) => Wires(k)'
      BY <1>1, <1>3, <1>4, <1>6, <3>1 DEF Wires, TypeOK, Alive
    <3>4. (Held(k)' <=> Held(k)) /\ (Alive(k)' <=> Alive(k))
      BY <3>1, <3>2, <3>3 DEF HeldInv, Alive
    <3> QED
      BY <3>1, <3>4 DEF Status
  <2>2. Status(n) = "unmade"
    BY <1>6 DEF Status, Alive
  <2>3. Wires(n)'
    BY <1>1, <1>3, <1>6 DEF Wires, TypeOK, Alive
  <2>4. Status(n)' = "held"
    BY <2>3 DEF Status, HeldInv, Wires
  <2>5. KernelStatus' = [KernelStatus EXCEPT ![n] = "held"]
    BY <2>1, <2>4, StatusBecomes
  <2>6. KernelStatus[n] = "unmade"
    BY <2>2 DEF KernelStatus
  <2> QED
    BY <1>2, <2>5, <2>6 DEF Ownership!Acquire, Ownership!Become
<1> QED
  BY <1>1, <1>5, <1>6 DEF CreateKernel, Ownership!Next

LEMMA MoveAssignImplements ==
  ASSUME IndInv, HeldInv, HeldInv', NEW o \in Objects, NEW p \in Objects,
         MoveAssign(o, p)
  PROVE  [Ownership!Next]_(Ownership!vars)
<1>1. /\ UNCHANGED <<handle, kernelVars, call>> /\ call.instance = Null
      /\ heap' = [i \in Impls |-> IF i = impl[o] THEN "deleted" ELSE heap[i]]
  BY NoCallRan DEF MoveAssign, Free, DeleteImpl
<1>2. TypeOK /\ WiringInv
  BY DEF IndInv
<1>3. \A k \in Kernels : Alive(k)' <=> Alive(k)
  BY <1>1 DEF Alive
<1>4. \A k \in Kernels :
        Wires(k)' <=> Wires(k) /\ userData[k] # impl[o]
  BY <1>1, <1>3 DEF Wires
<1>5. CASE \E n \in Kernels : Wires(n) /\ userData[n] = impl[o]
  <2>1. PICK n \in Kernels : Wires(n) /\ userData[n] = impl[o]
    BY <1>5
  <2>2. ASSUME NEW k \in Kernels \ {n} PROVE Status(k)' = Status(k)
    <3>1. Wires(k) => userData[k] # impl[o]
      BY <2>1 DEF Wires
    <3>2. Held(k)' <=> Held(k)
      BY <1>4, <3>1 DEF HeldInv
    <3> QED
      BY <1>1, <1>3, <3>2 DEF Status
  <2>3. Status(n) = "held" /\ Status(n)' = "lost"
    BY <1>3, <1>4, <2>1 DEF Status, HeldInv, Wires
  <2>4. KernelStatus' = [KernelStatus EXCEPT ![n] = "lost"]
    BY <2>2, <2>3, StatusBecomes
  <2>5. KernelStatus[n] = "held"
    BY <2>3 DEF KernelStatus
  <2>6. Ownership!Lose(n)
    BY <1>1, <2>4, <2>5 DEF Ownership!Lose, Ownership!Become
  <2> QED
    BY <2>6 DEF Ownership!Next
<1>6. CASE \A k \in Kernels : Wires(k) => userData[k] # impl[o]
  <2>1. KernelStatus' = KernelStatus
    BY <1>1, <1>4, <1>6, StatusStays DEF LivesStay, WiresStay
  <2> QED
    BY <1>1, <2>1 DEF Ownership!vars
<1> QED
  BY <1>5, <1>6

LEMMA DestructEmptyImplements ==
  ASSUME IndInv, HeldInv, HeldInv', NEW o \in Objects, DestructEmpty(o)
  PROVE  UNCHANGED Ownership!vars
<1>1. /\ UNCHANGED <<handle, kernelVars, call>>
      /\ heap' = [i \in Impls |-> IF i = impl[o] THEN "deleted" ELSE heap[i]]
      /\ ~Initialized(o)
  BY DEF DestructEmpty, DeleteImpl
<1>2. ASSUME NEW k \in Kernels PROVE Wires(k)' <=> Wires(k)
  <2>1. Wires(k) => userData[k] # impl[o]
    BY <1>1, ConstantsAssumption DEF Wires, Initialized, HoldsImpl
  <2> QED
    BY <1>1, <2>1 DEF Wires, Alive
<1>3. KernelStatus' = KernelStatus
  BY <1>1, <1>2, StatusStays DEF LivesStay, WiresStay
<1> QED
  BY <1>1, <1>3 DEF Ownership!vars

LEMMA CallImplements ==
  ASSUME IndInv, HeldInv, HeldInv', NEW o \in Objects,
         Destruct(o) \/ \E m \in Methods : Invoke(o, m)
  PROVE  [Ownership!Next]_(Ownership!vars)
<1>1. TypeOK /\ WiringInv /\ Initialized(o)
  BY DEF IndInv, Destruct, Invoke
<1>2. PICK k \in Kernels : k = handle[impl[o]]
  BY <1>1 DEF Initialized, HoldsImpl, TypeOK
<1>3. /\ call.instance = Null /\ call'.instance = k
      /\ UNCHANGED <<heap, handle, userData>>
  BY <1>2, NoCallRan DEF Destruct, Invoke, Enter, Free
<1>4. Held(k) /\ Alive(k)
  BY <1>1, <1>2, BegunAtHome DEF Held, Initialized
<1>5. \A j \in Kernels : Alive(j)' <=> Alive(j)
  BY KernelMoves DEF IndInv
<1>6. \A j \in Kernels \ {k} : kernel'[j] = kernel[j]
  BY <1>1, <1>2 DEF Destruct, Invoke, Enter, TypeOK
<1>7. KernelStatus' = KernelStatus
  BY <1>3, <1>4, <1>5, <1>6, StatusFramed DEF LivesStay
<1>8. KernelStatus[k] = "held"
  BY <1>4 DEF KernelStatus, Status
<1> QED
  BY <1>3, <1>7, <1>8 DEF Ownership!Use, Ownership!Next

LEMMA DestroyedImplements ==
  ASSUME IndInv, HeldInv, HeldInv', Destroyed
  PROVE  [Ownership!Next]_(Ownership!vars)
<1>1. TypeOK /\ WiringInv /\ CallLandsAtHome /\ call # NoCall
  BY MethodMeansCall DEF IndInv, Destroyed, Methods
<1>2. PICK n \in Kernels : n = call.instance
  BY <1>1, CallType
<1>3. PICK i \in Impls : i = impl[call.object]
  BY <1>1 DEF CallLandsAtHome, HoldsImpl
<1>4. Wires(n) /\ userData[n] = i /\ handle[i] = n
  BY <1>1, <1>2, <1>3 DEF CallLandsAtHome, Wires
<1>5. /\ kernel' = [kernel EXCEPT ![n] = "destroyed"]
      /\ handle' = [handle EXCEPT ![i] = Null]
      /\ heap' = [heap EXCEPT ![i] = "deleted"]
      /\ userData' = userData /\ call' = NoCall
  BY <1>1, <1>2, <1>3 DEF Destroyed, DeleteImpl, TypeOK
<1>6. ASSUME NEW k \in Kernels \ {n} PROVE Status(k)' = Status(k)
  <2>1. kernel'[k] = kernel[k]
    BY <1>1, <1>5 DEF TypeOK
  <2>2. Wires(k) => userData[k] # i
    BY <1>4 DEF Wires
  <2>3. userData[k] # i => (Wires(k)' <=> Wires(k))
    BY <1>1, <1>5, <2>1 DEF Wires, Alive, TypeOK
  <2>4. userData[k] = i => ~Wires(k)'
    BY <1>1, <1>3, <1>5 DEF Wires, TypeOK
  <2>5. (Held(k)' <=> Held(k)) /\ (Alive(k)' <=> Alive(k))
    BY <2>1, <2>2, <2>3, <2>4 DEF HeldInv, Alive
  <2> QED
    BY <2>1, <2>5 DEF Status
<1>7. Status(n) = "held"
  BY <1>4 DEF Status, HeldInv, Wires
<1>8. Status(n)' = "released"
  BY <1>1, <1>5 DEF Status, Alive, TypeOK
<1>9. KernelStatus' = [KernelStatus EXCEPT ![n] = "released"]
  BY <1>6, <1>8, StatusBecomes
<1>10. KernelStatus[n] = "held"
  BY <1>7 DEF KernelStatus
<1>11. Ownership!Release(n)
  BY <1>2, <1>5, <1>9, <1>10, NoCallRan DEF Ownership!Release, Ownership!Become
<1> QED
  BY <1>11 DEF Ownership!Next

LEMMA DrainedImplements ==
  ASSUME IndInv, HeldInv, HeldInv', Drained
  PROVE  UNCHANGED Ownership!vars
<1>1. LivesStay
  BY DEF IndInv, Drained, LivesStay, Alive, TypeOK
<1>2. KernelStatus' = KernelStatus
  BY <1>1, StatusFramed DEF Drained
<1> QED
  BY <1>2 DEF Drained, Ownership!vars

(* Steps that touch nothing but the callbacks and the call. *)
LEMMA OtherStepsImplement ==
  ASSUME IndInv, HeldInv, HeldInv', UNCHANGED <<heap, handle, kernelVars>>,
         \/ UNCHANGED call
         \/ Trampoline
         \/ Throw
         \/ Return
  PROVE  [Ownership!Next]_(Ownership!vars)
<1>1. KernelStatus' = KernelStatus
  BY StatusFramed DEF LivesStay
<1>2. TypeOK
  BY DEF IndInv
<1>3. CASE UNCHANGED call
  BY <1>1, <1>3 DEF Ownership!vars
<1>4. CASE Trampoline
  <2>1. (call.instance)' = call.instance
    BY <1>2, <1>4, CallType DEF Trampoline
  <2> QED
    BY <1>1, <2>1 DEF Ownership!vars
<1>5. CASE Throw \/ Return
  <2>1. call # NoCall /\ call' = NoCall
    BY <1>2, <1>5, MethodMeansCall DEF Throw, Return
  <2>2. call.instance # Null /\ (call.instance)' = Null
    BY <1>2, <2>1, CallType, NoCallRan, ConstantsAssumption
  <2> QED
    BY <1>1, <2>2 DEF Ownership!Finish, Ownership!Next
<1> QED
  BY <1>3, <1>4, <1>5

-----------------------------------------------------------------------------

(* Bus keeps the promise of KernelOwnership: an instance is used by one    *)
(* call at a time and only while a Bus holds it, and it is released once,  *)
(* by the call that destroys it.                                           *)
THEOREM Implements == Spec => OwnershipSpec
<1>1. Init => Ownership!Init
  <2> SUFFICES ASSUME Init PROVE Ownership!Init
    OBVIOUS
  <2>1. \A k \in Kernels : Status(k) = "unmade"
    BY DEF Init, Status, Alive
  <2>2. call.instance = Null
    BY NoCallRan DEF Init
  <2> QED
    BY <2>1, <2>2 DEF Ownership!Init, KernelStatus
<1>2. ASSUME IndInv, HeldInv, HeldInv', [Next]_vars
      PROVE  [Ownership!Next]_(Ownership!vars)
  <2>1. ASSUME NEW o \in Objects, Construct(o) \/ Build(o)
        PROVE  [Ownership!Next]_(Ownership!vars)
    BY <1>2, <2>1, MakeImplements DEF Construct, Build
  <2>2. ASSUME NEW o \in Objects, NEW p \in Objects, MoveAssign(o, p)
        PROVE  [Ownership!Next]_(Ownership!vars)
    BY <1>2, <2>2, MoveAssignImplements
  <2>3. ASSUME NEW o \in Objects, DestructEmpty(o)
        PROVE  [Ownership!Next]_(Ownership!vars)
    BY <1>2, <2>3, DestructEmptyImplements
  <2>4. ASSUME NEW o \in Objects,
               Destruct(o) \/ \E m \in Methods : Invoke(o, m)
        PROVE  [Ownership!Next]_(Ownership!vars)
    BY <1>2, <2>4, CallImplements
  <2>5. CASE Drained
    BY <1>2, <2>5, DrainedImplements
  <2>6. CASE Destroyed
    BY <1>2, <2>6, DestroyedImplements
  <2>7. CASE Trampoline \/ Throw \/ Return
    BY <1>2, <2>7, OtherStepsImplement DEF Trampoline, Throw, Return
  <2>8. CASE UNCHANGED <<heap, handle, kernelVars, call>>
    BY <1>2, <2>8, OtherStepsImplement
  <2>9. ASSUME NEW o \in Objects, NEW p \in Objects, MoveConstruct(o, p)
        PROVE  [Ownership!Next]_(Ownership!vars)
    BY <2>8, <2>9 DEF MoveConstruct
  <2>10. CASE Configure \/ Undefined \/ UNCHANGED vars
    BY <2>8, <2>10 DEF Configure, Undefined, vars
  <2>11. ASSUME NEW o \in Objects, NEW c \in Callbacks \cup {Null}, SetCallback(o, c)
         PROVE  [Ownership!Next]_(Ownership!vars)
    BY <2>8, <2>11 DEF SetCallback
  <2> QED
    BY <1>2, <2>1, <2>2, <2>3, <2>4, <2>5, <2>6, <2>7, <2>9, <2>10, <2>11
    DEF Next, KernelCall
<1> QED
  BY <1>1, <1>2, HeldIsWired, Inductive, PTL DEF Spec, OwnershipSpec, Ownership!Spec
=============================================================================
