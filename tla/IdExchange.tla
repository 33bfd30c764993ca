---------------------------- MODULE IdExchange ----------------------------
(***************************************************************************)
(* One id on its way: request_async() takes it from the caller's text or   *)
(* puts one in, a worker parses what was sent and answers under the id it  *)
(* reads, and handle_response() looks for the id in the answer.            *)
(***************************************************************************)
EXTENDS JsonIds

CONSTANTS
  Requests,  \* texts that callers pass
  Replies,   \* texts that workers may answer with
  Fresh      \* values of next_id_, as std::to_string() writes them

(* Callers pass objects: a "{" comes before everything else. *)
ASSUME TextsAssumption ==
  /\ Requests \subseteq Seq(Token)
  /\ Replies \subseteq Seq(Token)
  /\ Fresh \subseteq Chars \ {NoId}
  /\ \A t \in Requests :
       /\ Braces(t) # {}
       /\ \A i \in IdTexts(t) : First(Braces(t)) < i

VARIABLES
  phase,    \* "idle", "sent", "answered"
  request,  \* the caller's text
  sent,     \* that text after extract_or_inject_id()
  key,      \* the id that function returns, under which the promise is filed
  reply,    \* the worker's text
  answer    \* the id handle_response() looks up

vars == <<phase, request, sent, key, reply, answer>>

Init ==
  /\ phase = "idle"
  /\ request = <<>> /\ sent = <<>> /\ reply = <<>>
  /\ key = NoId /\ answer = NoId

(* extract_or_inject_id() *)
Request(t, k) ==
  /\ phase = "idle"
  /\ phase' = "sent"
  /\ request' = t
  /\ IF Extract(t) # NoId
     THEN key' = Extract(t) /\ sent' = t
     ELSE key' = k /\ sent' = Inject(t, k)
  /\ UNCHANGED <<reply, answer>>

(* A worker whose parser takes the text answers under an id it reads in    *)
(* it; handle_response() has the answer's text.                            *)
Answer(t) ==
  /\ phase = "sent"
  /\ Separated(sent)
  /\ \E v \in ReadIds(sent) : ReadIds(t) = {v}
  /\ phase' = "answered"
  /\ reply' = t
  /\ answer' = Extract(t)
  /\ UNCHANGED <<request, sent, key>>

(* The exchange is over, answered or not. *)
Finish ==
  /\ phase # "idle"
  /\ phase' = "idle"
  /\ request' = <<>> /\ sent' = <<>> /\ reply' = <<>>
  /\ key' = NoId /\ answer' = NoId

Next ==
  \/ \E t \in Requests, k \in Fresh : Request(t, k)
  \/ \E t \in Replies : Answer(t)
  \/ Finish

Spec == Init /\ [][Next]_vars

-----------------------------------------------------------------------------
(* Properties                                                              *)

TypeOK ==
  /\ phase \in {"idle", "sent", "answered"}
  /\ request \in Seq(Token) /\ sent \in Seq(Token) /\ reply \in Seq(Token)
  /\ key \in Chars /\ answer \in Chars

(* An id the caller spells plainly comes back as the key its promise was   *)
(* filed under, from any worker that spells its answer plainly.            *)
RoundTrip ==
  phase = "answered" /\ Plain(request) /\ Plain(reply) => answer = key

(* So does an id the SDK has put in a text that had none, which a worker   *)
(* reads as the number it is.                                              *)
InjectedRoundTrip ==
  phase # "idle" /\ Mute(request) =>
    /\ ReadIds(sent) = {[type |-> "number", chars |-> key]}
    /\ phase = "answered" /\ Plain(reply) => answer = key

(* The text that is sent has the key that was filed, also when the id of   *)
(* the caller's text could not be read: sending it again keeps the key.    *)
KeyIsInText ==
  phase # "idle" => Extract(sent) = key

(* The ids that a worker may read in what is sent are the ones the caller  *)
(* wrote and, if extract_id() found none, the injected one: the injection  *)
(* neither hides an id of the text nor makes one of what was none.         *)
InjectionAddsOne ==
  phase # "idle" =>
    ReadIds(sent) =
      ReadIds(request)
        \cup (IF Extract(request) = NoId
              THEN {[type |-> "number", chars |-> key]} ELSE {})

(* What is sent is JSON if the caller's text was, except when an id goes   *)
(* into an object without members, whose brace then follows a comma.       *)
SentIsSeparated ==
  phase # "idle" =>
    (Separated(sent) <=>
       Separated(request) /\ ~(Extract(request) = NoId /\ NoMembers(request)))

(* "Match responses by request id", says                                   *)
(* docs/07-use-cases/01-complete-capabilities.md:21: a request with one id *)
(* that is a plain number or string gets the answer that bears the id.     *)
AnswerMatches ==
  phase = "answered"
    /\ (\E i \in IdMembers(request) :
          IdMembers(request) = {i} /\ Kept(MemberToken(request, i)))
    /\ Plain(reply)
  => answer = key
=============================================================================
