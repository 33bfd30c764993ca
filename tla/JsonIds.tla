------------------------------ MODULE JsonIds ------------------------------
(***************************************************************************)
(* extract_id() and extract_or_inject_id() of async.hpp, and the id that a *)
(* JSON parser reads in the same text.                                     *)
(*                                                                         *)
(* A text is a sequence of tokens.  extract_id() works on characters: it   *)
(* looks for the four characters "id", quotes included, then for a colon,  *)
(* skips blanks, and keeps what follows up to a quote or as long as there  *)
(* are digits and minus signs.  A token records what becomes of that:      *)
(*   value: what a JSON parser makes of the token                          *)
(*   scan:  the characters extract_id() keeps if it gets to the token      *)
(* The two differ for 1.5, whose scan is 1, for strings with escapes, and  *)
(* for null, of which nothing is kept.                                     *)
(*                                                                         *)
(* Left out: strings that hold a colon, or an escaped quote before the     *)
(* letters id; line ends, which are the framing of messages.               *)
(***************************************************************************)
EXTENDS Integers, Sequences, FiniteSets

CONSTANT Chars  \* what the characters of a string, a number or a scan may be

NoId == ""

ASSUME CharsAssumption == {NoId, "id"} \subseteq Chars

Brace == "{"
Opening == {Brace, "["}
Closing == {"}", "]"}
Scalars == {"string", "number", "literal"}
Kinds == Opening \cup Closing \cup Scalars \cup {":", ",", "blank"}

Value == [type : Kinds, chars : Chars]

Token == [kind : Kinds, value : Value, scan : Chars]

scalar(type, chars, scan) ==
  [kind |-> type, value |-> [type |-> type, chars |-> chars], scan |-> scan]

(* A string without escapes, an integer, and a token without a value. *)
str(chars) == scalar("string", chars, chars)
int(chars) == scalar("number", chars, chars)
mark(kind) == scalar(kind, NoId, NoId)

First(S) == CHOOSE i \in S : \A j \in S : i <= j

-----------------------------------------------------------------------------
(* What the code does                                                      *)

(* json.find("\"id\"") looks for this, wherever in the text it is. *)
IdTexts(text) == {i \in DOMAIN text : text[i].kind = "string" /\ text[i].scan = "id"}

Colons(text, i) == {j \in DOMAIN text : j > i /\ text[j].kind = ":"}

(* while (json[pos] is a blank) pos++ *)
Solids(text, i) == {j \in DOMAIN text : j > i /\ text[j].kind # "blank"}

(* Wrong forms of some definitions stand before them.  The runs put each   *)
(* in the place of its original to see the property meant for it fail.     *)
ExtractNumber(text) ==
  LET scans == {i \in DOMAIN text : text[i].kind = "number"}
  IN IF scans = {} THEN NoId ELSE text[First(scans)].scan

(* extract_id() *)
Extract(text) ==
  LET colons == Colons(text, First(IdTexts(text)))
      starts == Solids(text, First(colons))
  IN IF IdTexts(text) = {} \/ colons = {} \/ starts = {}
     THEN NoId
     ELSE text[First(starts)].scan

Braces(text) == {i \in DOMAIN text : text[i].kind = Brace}

InjectInnermost(text, k) ==
  LET pos == CHOOSE i \in Braces(text) : \A j \in Braces(text) : j <= i IN
    SubSeq(text, 1, pos)
      \o <<str("id"), mark(":"), int(k), mark(",")>>
      \o SubSeq(text, pos + 1, Len(text))

InjectLast(text, k) ==
  SubSeq(text, 1, Len(text) - 1)
    \o <<str("id"), mark(":"), int(k), mark(",")>>
    \o SubSeq(text, Len(text), Len(text))

(* json.insert(pos + 1, "\"id\":" + id + ",") *)
Inject(text, k) ==
  IF Braces(text) = {} THEN text
  ELSE LET pos == First(Braces(text)) IN
         SubSeq(text, 1, pos)
           \o <<str("id"), mark(":"), int(k), mark(",")>>
           \o SubSeq(text, pos + 1, Len(text))

-----------------------------------------------------------------------------
(* What a JSON parser reads                                                *)

Depth(text, i) ==
  Cardinality({j \in 1..(i - 1) : text[j].kind \in Opening})
    - Cardinality({j \in 1..(i - 1) : text[j].kind \in Closing})

NextSolid(text, i) == First(Solids(text, i))

(* The names "id" of members of the outermost object. *)
IdMembers(text) ==
  {i \in DOMAIN text :
     /\ text[i].value = [type |-> "string", chars |-> "id"]
     /\ Depth(text, i) = 1
     /\ Solids(text, i) # {} /\ text[NextSolid(text, i)].kind = ":"
     /\ Solids(text, NextSolid(text, i)) # {}}

MemberToken(text, i) == text[NextSolid(text, NextSolid(text, i))]

(* The ids a parser may come up with; which one of two is up to it. *)
ReadIds(text) ==
  {MemberToken(text, i).value :
     i \in {j \in IdMembers(text) : MemberToken(text, j).kind \in Scalars}}

(* No comma stands where a member or an element is missing after it. *)
Separated(text) ==
  \A i \in DOMAIN text :
    text[i].kind = "," =>
      Solids(text, i) # {} /\ text[NextSolid(text, i)].kind \notin Closing

(* The first object of the text has no members. *)
NoMembers(text) ==
  LET brace == First(Braces(text)) IN
    Solids(text, brace) = {} \/ text[NextSolid(text, brace)].kind \in Closing

(* extract_id() keeps the whole of the token. *)
Kept(t) ==
  t.kind \in {"string", "number"} /\ t.scan = t.value.chars /\ t.scan # NoId

(* The text leaves nothing to chance: the first "id" in it is the name of  *)
(* its only id member, and the id is kept.                                 *)
Plain(text) ==
  \E i \in IdMembers(text) :
    /\ IdMembers(text) = {i}
    /\ i \in IdTexts(text) /\ \A j \in IdTexts(text) : i <= j
    /\ Kept(MemberToken(text, i))

(* The text says nothing of an id. *)
Mute(text) == IdTexts(text) = {} /\ IdMembers(text) = {}
=============================================================================
