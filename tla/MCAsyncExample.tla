--------------------------- MODULE MCAsyncExample ---------------------------
(* The program with three requests, for TLC. *)
EXTENDS AsyncExample

RequestTexts == {RequestText(i) : i \in Requests}
NoIdOnly == {NoId}
=============================================================================
