---------------------------- MODULE MCAsyncBus ----------------------------
(* Instances of AsyncBus small enough for TLC. *)
EXTENDS AsyncBus, TLC

CONSTANTS r1, r2, a

(* The caller leaves the id out. *)
silent == [found |-> NoId, id |-> NoId, object |-> TRUE]

(* The caller's own id k, read alike by extract_id() and by the worker. *)
own(k) == [found |-> k, id |-> k, object |-> TRUE]

(* An "id" member k of a nested object comes before the id n. *)
nested(k, n) == [found |-> k, id |-> n, object |-> TRUE]

(* An id extract_id() cannot read, so that another one is injected. *)
unreadable(k) == [found |-> NoId, id |-> k, object |-> TRUE]

(* Not a JSON object: the id has nowhere to go. *)
noObject == [found |-> NoId, id |-> NoId, object |-> FALSE]

ClashingMessages == {silent, own(1), nested(a, 1), unreadable(1), noObject}
SilentMessages == {silent}

NoIdOnly == {NoId}
Symmetry == Permutations(Requests)
=============================================================================
