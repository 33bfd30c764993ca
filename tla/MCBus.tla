------------------------------- MODULE MCBus -------------------------------
(* Instances of Bus small enough for TLC. *)
EXTENDS Bus, TLC

CONSTANTS o1, o2, o3, i1, i2, k1, k2, c1, c2

Symmetry ==
  Permutations(Objects) \cup Permutations(Impls) \cup Permutations(Kernels)
    \cup Permutations(Callbacks)

(* Addresses are taken in a fixed order.  Which one comes first makes no   *)
(* difference, and unlike a symmetry set this is sound for liveness: every *)
(* behaviour has a renaming that keeps to the order.                       *)
AddressesInOrder ==
  /\ heap[i1] = "unused" => heap[i2] = "unused"
  /\ kernel[k1] = "unused" => kernel[k2] = "unused"
=============================================================================
