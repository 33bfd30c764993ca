------------------------------- MODULE Values -------------------------------
(***************************************************************************)
(* The values that cross between a program, the Bus and the kernel: states *)
(* and listener modes, which are cast from one enumeration to the other,   *)
(* statistics, which are copied position by position, and the numbers that *)
(* are cut to the width of an int or of a port.                            *)
(***************************************************************************)
EXTENDS Integers, Sequences

CONSTANT IntMax   \* the largest int

ASSUME IntAssumption == IntMax \in Nat

(* enum class State, and stdio_bus_state_t *)
State == [Created |-> 0, Starting |-> 1, Running |-> 2, Stopping |-> 3, Stopped |-> 4]

KernelState ==
  [CREATED |-> 0, STARTING |-> 1, RUNNING |-> 2, STOPPING |-> 3, STOPPED |-> 4]

(* enum class ListenMode, and stdio_bus_listen_mode_t *)
ListenMode == [None |-> 0, Tcp |-> 1, Unix |-> 2]

KernelListen == [NONE |-> 0, TCP |-> 1, UNIX |-> 2]

(* The members of Stats, in the order of their declaration. *)
StatsMembers ==
  <<"messages_in", "messages_out", "bytes_in", "bytes_out", "worker_restarts",
    "routing_errors", "client_connects", "client_disconnects">>

(* Wrong forms of Listed and to_port, which runs put in their places. *)
ListedOutFirst ==
  <<"messages_out", "messages_in", "bytes_in", "bytes_out", "worker_restarts",
    "routing_errors", "client_connects", "client_disconnects">>

to_port_unchecked(n) == n

(* The largest uint16_t *)
MaxPort == 65535

(* The members of stdio_bus_stats_t, in the order to_stats() lists them. *)
Listed ==
  <<"messages_in", "messages_out", "bytes_in", "bytes_out", "worker_restarts",
    "routing_errors", "client_connects", "client_disconnects">>

(* ffi::to_stats(): the i-th member takes the i-th value listed. *)
to_stats(s) ==
  [f \in {StatsMembers[i] : i \in 1..8} |->
     LET i == CHOOSE j \in 1..8 : StatsMembers[j] = f IN s[Listed[i]]]

(* static_cast<int>(count) of a count of milliseconds or seconds *)
to_int(count) == ((count + IntMax + 1) % (2 * (IntMax + 1))) - (IntMax + 1)

(* static_cast<uint16_t>(n) *)
to_port(n) == n % (MaxPort + 1)
=============================================================================
