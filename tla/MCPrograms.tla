----------------------------- MODULE MCPrograms -----------------------------
(* The programs with values for TLC. *)
EXTENDS Programs

(* The codes of both headers, and ints that are neither's. *)
SomeReturns == {KernelCode[c] : c \in DOMAIN KernelCode} \cup {-7, 1}

(* Eight counters that all differ. *)
SomeCounts ==
  {[messages_in |-> 1, messages_out |-> 2, bytes_in |-> 3, bytes_out |-> 4,
    worker_restarts |-> 5, routing_errors |-> 6, client_connects |-> 7,
    client_disconnects |-> 8]}
=============================================================================
