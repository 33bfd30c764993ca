-------------------------- MODULE IdExchangeProofs --------------------------
(***************************************************************************)
(* Theorems about IdExchange, for texts of any length and any number of    *)
(* members.                                                                *)
(***************************************************************************)
EXTENDS IdExchange, SequenceTheorems, FiniteSetTheorems, TLAPS

-----------------------------------------------------------------------------
(* Searching                                                               *)

(* First() finds the least member of a set of indices that has one. *)
LEMMA FirstIs ==
  ASSUME NEW S \in SUBSET Nat, NEW i \in S, \A j \in S : i <= j
  PROVE  First(S) = i
<1>1. \A k \in S : (\A j \in S : k <= j) => k = i
  OBVIOUS
<1> QED
  BY <1>1 DEF First

(* Every set of indices that is not empty has one. *)
LEMMA FirstExists ==
  ASSUME NEW S \in SUBSET Nat, S # {}
  PROVE  First(S) \in S /\ \A j \in S : First(S) <= j
<1>1. \E i \in S : \A j \in S : ~ (<<j, i>> \in OpToRel(<, Nat))
  BY NatLessThanWellFounded, WFMin
<1>2. \A i, j \in Nat : ~ (<<j, i>> \in OpToRel(<, Nat)) => i <= j
  BY DEF OpToRel
<1>3. \E i \in S : \A j \in S : i <= j
  BY <1>1, <1>2
<1> QED
  BY <1>3 DEF First

LEMMA SolidsExist ==
  ASSUME NEW text \in Seq(Token), NEW i \in Int, Solids(text, i) # {}
  PROVE  /\ NextSolid(text, i) \in Solids(text, i)
         /\ \A j \in Solids(text, i) : NextSolid(text, i) <= j
<1>1. Solids(text, i) \in SUBSET Nat
  BY DEF Solids
<1> QED
  BY <1>1, FirstExists DEF NextSolid

-----------------------------------------------------------------------------
(* Sequences put together                                                  *)

LEMMA FourTokens ==
  ASSUME NEW S, NEW a \in S, NEW b \in S, NEW c \in S, NEW d \in S
  PROVE <<a, b, c, d>> \in Seq(S) /\ Len(<<a, b, c, d>>) = 4
  OBVIOUS

(* Where the members of a concatenation come from. *)
LEMMA JoinedTwo ==
  ASSUME NEW S, NEW s \in Seq(S), NEW t \in Seq(S)
  PROVE  /\ s \o t \in Seq(S) /\ Len(s \o t) = Len(s) + Len(t)
         /\ \A i \in 1..Len(s) : (s \o t)[i] = s[i]
         /\ \A i \in 1..Len(t) : (s \o t)[Len(s) + i] = t[i]
<1>1. /\ s \o t \in Seq(S) /\ Len(s \o t) = Len(s) + Len(t)
      /\ \A i \in 1..(Len(s)+Len(t)) : (s \o t)[i] = IF i <= Len(s) THEN s[i] ELSE t[i - Len(s)]
  BY ConcatProperties
<1>2. Len(s) \in Nat /\ Len(t) \in Nat
  OBVIOUS
<1>3. ASSUME NEW i \in 1..Len(t) PROVE (s \o t)[Len(s) + i] = t[i]
   <2> DEFINE j == Len(s) + i
   <2>1. j \in 1..(Len(s)+Len(t)) /\ ~ (j <= Len(s)) /\ j - Len(s) = i
     BY <1>2
   <2>2. (s \o t)[j] = t[j - Len(s)]
     BY <1>1, <2>1
   <2> QED BY <2>1, <2>2
<1> QED
  BY <1>1, <1>2, <1>3

LEMMA JoinedThree ==
  ASSUME NEW S, NEW s \in Seq(S), NEW t \in Seq(S), NEW u \in Seq(S)
  PROVE  /\ s \o t \o u \in Seq(S) /\ Len(s \o t \o u) = Len(s) + Len(t) + Len(u)
         /\ \A i \in 1..Len(s) : (s \o t \o u)[i] = s[i]
         /\ \A i \in 1..Len(t) : (s \o t \o u)[Len(s) + i] = t[i]
         /\ \A i \in 1..Len(u) : (s \o t \o u)[Len(s) + Len(t) + i] = u[i]
<1> DEFINE h == s \o t
           r == h \o u
<1>1. /\ h \in Seq(S) /\ Len(h) = Len(s) + Len(t)
      /\ \A i \in 1..Len(s) : h[i] = s[i]
      /\ \A i \in 1..Len(t) : h[Len(s) + i] = t[i]
  BY JoinedTwo
<1> HIDE DEF h
<1>2. /\ r \in Seq(S) /\ Len(r) = Len(h) + Len(u)
      /\ \A i \in 1..Len(h) : r[i] = h[i]
      /\ \A i \in 1..Len(u) : r[Len(h) + i] = u[i]
  <2>1. h \in Seq(S)
    BY <1>1
  <2>2. r = h \o u
    OBVIOUS
  <2> HIDE DEF r
  <2>3. /\ h \o u \in Seq(S) /\ Len(h \o u) = Len(h) + Len(u)
        /\ \A i \in 1..Len(h) : (h \o u)[i] = h[i]
        /\ \A i \in 1..Len(u) : (h \o u)[Len(h) + i] = u[i]
    BY <2>1, JoinedTwo
  <2> QED
    BY <2>2, <2>3
<1> HIDE DEF r
<1>3. Len(s) \in Nat /\ Len(t) \in Nat /\ Len(u) \in Nat
  OBVIOUS
<1>4. \A i \in 1..Len(s) : r[i] = s[i]
  BY <1>1, <1>2, <1>3
<1>5. \A i \in 1..Len(t) : r[Len(s) + i] = t[i]
  BY <1>1, <1>2, <1>3
<1>6. Len(r) = Len(s) + Len(t) + Len(u) /\ r \in Seq(S)
  BY <1>1, <1>2, <1>3
<1>7. \A i \in 1..Len(u) : r[Len(s) + Len(t) + i] = u[i]
  BY <1>1, <1>2
<1> QED
  BY <1>4, <1>5, <1>6, <1>7 DEF h, r

-----------------------------------------------------------------------------
(* Extraction                                                              *)

(* extract_id() gets to the token after the colon after the first "id", if *)
(* that "id" is the name of a member.                                      *)
LEMMA ExtractMember ==
  ASSUME NEW text \in Seq(Token), NEW i \in IdMembers(text),
         i \in IdTexts(text), \A j \in IdTexts(text) : i <= j
  PROVE  Extract(text) = MemberToken(text, i).scan
<1> DEFINE c == NextSolid(text, i)
<1>1. /\ i \in Nat /\ Solids(text, i) # {} /\ text[c].kind = ":"
      /\ Solids(text, c) # {}
  BY DEF IdMembers
<1>2. First(IdTexts(text)) = i
  BY FirstIs DEF IdTexts
<1>3. c \in Solids(text, i) /\ \A j \in Solids(text, i) : c <= j
  BY <1>1, SolidsExist
<1>4. First(Colons(text, i)) = c
  <2>1. Colons(text, i) \in SUBSET Nat /\ c \in Colons(text, i)
    BY <1>1, <1>3 DEF Colons, Solids
  <2>2. \A j \in Colons(text, i) : c <= j
    BY <1>3 DEF Colons, Solids
  <2> QED
    BY <2>1, <2>2, FirstIs
<1>5. IdTexts(text) # {} /\ Colons(text, i) # {}
  BY <1>1, <1>3 DEF Colons, Solids
<1> HIDE DEF c
<1>6. Extract(text) = text[First(Solids(text, c))].scan
  BY <1>1, <1>2, <1>4, <1>5 DEF Extract
<1> QED
  BY <1>6 DEF MemberToken, NextSolid, c

(* A plain text has one id, and extract_id() returns its characters. *)
LEMMA PlainExtract ==
  ASSUME NEW text \in Seq(Token), Plain(text)
  PROVE  /\ Extract(text) # NoId
         /\ \A v \in ReadIds(text) : v.chars = Extract(text)
<1>1. PICK i \in IdMembers(text) :
        /\ IdMembers(text) = {i}
        /\ i \in IdTexts(text) /\ \A j \in IdTexts(text) : i <= j
        /\ Kept(MemberToken(text, i))
  BY DEF Plain
<1>2. Extract(text) = MemberToken(text, i).scan
  BY <1>1, ExtractMember
<1>3. \A v \in ReadIds(text) : v = MemberToken(text, i).value
  BY <1>1 DEF ReadIds
<1> QED
  BY <1>1, <1>2, <1>3 DEF Kept

(* What extract_id() returns, it has read in the text. *)
LEMMA ExtractIsChars ==
  ASSUME NEW text \in Seq(Token)
  PROVE  Extract(text) \in Chars
<1> DEFINE colon == First(Colons(text, First(IdTexts(text))))
<1>1. NoId \in Chars
  BY CharsAssumption
<1>2. ASSUME Solids(text, colon) # {}
      PROVE  text[First(Solids(text, colon))].scan \in Chars
  <2>1. \A i \in Solids(text, colon) : i \in 1..Len(text)
    BY DEF Solids
  <2>2. First(Solids(text, colon)) \in Solids(text, colon)
    BY <1>2, <2>1, FirstExists
  <2>3. text[First(Solids(text, colon))] \in Token
    BY <2>1, <2>2
  <2> QED
    BY <2>3 DEF Token
<1> QED
  BY <1>1, <1>2 DEF Extract

-----------------------------------------------------------------------------
(* Injection                                                               *)

LEMMA TokensAre ==
  ASSUME NEW k \in Chars
  PROVE  /\ str("id") \in Token /\ mark(":") \in Token
         /\ int(k) \in Token /\ mark(",") \in Token
         /\ str("id").kind = "string" /\ str("id").scan = "id"
         /\ mark(":").kind = ":" /\ int(k).kind = "number" /\ int(k).scan = k
<1>1. NoId \in Chars /\ "id" \in Chars
  BY CharsAssumption
<1>2. \A kind \in Kinds, c, s \in Chars : scalar(kind, c, s) \in Token
  BY DEF scalar, Token, Value
<1>3. {"string", "number", ":", ","} \subseteq Kinds
  BY DEF Kinds, Scalars
<1>4. /\ str("id") = scalar("string", "id", "id") /\ mark(":") = scalar(":", NoId, NoId)
      /\ int(k) = scalar("number", k, k) /\ mark(",") = scalar(",", NoId, NoId)
  BY DEF str, mark, int
<1>5. /\ str("id") \in Token /\ mark(":") \in Token /\ int(k) \in Token
      /\ mark(",") \in Token
  <2>1. "string" \in Kinds /\ "number" \in Kinds /\ ":" \in Kinds /\ "," \in Kinds
    BY <1>3, Zenon
  <2>2. str("id") \in Token
    BY <1>1, <1>2, <1>4, <2>1, Zenon
  <2>3. mark(":") \in Token
    BY <1>1, <1>2, <1>4, <2>1, Zenon
  <2>4. int(k) \in Token
    BY <1>2, <1>4, <2>1, Zenon
  <2>5. mark(",") \in Token
    BY <1>1, <1>2, <1>4, <2>1, Zenon
  <2> QED
    BY <2>2, <2>3, <2>4, <2>5
<1>6. /\ str("id").kind = "string" /\ str("id").scan = "id"
      /\ mark(":").kind = ":" /\ int(k).kind = "number" /\ int(k).scan = k
  BY DEF str, mark, int, scalar
<1> QED
  BY <1>5, <1>6

LEMMA FirstBrace ==
  ASSUME NEW text \in Seq(Token), Braces(text) # {}
  PROVE  First(Braces(text)) \in 1..Len(text)
<1>1. \A i \in Braces(text) : i \in 1..Len(text)
  BY DEF Braces
<1>2. First(Braces(text)) \in Braces(text)
  BY <1>1, FirstExists
<1> QED
  BY <1>1, <1>2

(* Four tokens come after the first brace; what is before stays. *)
LEMMA InjectShape ==
  ASSUME NEW text \in Seq(Token), NEW k \in Chars, Braces(text) # {}
  PROVE  LET pos == First(Braces(text))
             new == Inject(text, k)
         IN  /\ new \in Seq(Token) /\ pos \in 1..Len(text) /\ Len(new) = Len(text) + 4
             /\ \A i \in 1..pos : new[i] = text[i]
             /\ new[pos + 1] = str("id") /\ new[pos + 2] = mark(":")
             /\ new[pos + 3] = int(k) /\ new[pos + 4] = mark(",")
             /\ \A i \in (pos + 1)..Len(text) : new[i + 4] = text[i]
<1> DEFINE pos == First(Braces(text))
           new == Inject(text, k)
           before == SubSeq(text, 1, pos)
           put == <<str("id"), mark(":"), int(k), mark(",")>>
           after == SubSeq(text, pos + 1, Len(text))
           Glue(s, t, u) == s \o t \o u
<1>1. pos \in 1..Len(text)
  BY FirstBrace
<1>2. /\ put \in Seq(Token) /\ Len(put) = 4
      /\ put[1] = str("id") /\ put[2] = mark(":") /\ put[3] = int(k)
      /\ put[4] = mark(",")
  BY TokensAre, FourTokens
<1>3. \A i \in 1..Len(text) : text[i] \in Token
  OBVIOUS
<1>4. /\ before \in Seq(Token) /\ Len(before) = pos
      /\ \A i \in 1..pos : before[i] = text[i]
  <2>1. \A i \in 1..pos : text[i] \in Token
    BY <1>1, <1>3
  <2>2. /\ before \in Seq(Token) /\ Len(before) = IF 1 <= pos THEN pos - 1 + 1 ELSE 0
        /\ \A i \in 1..(pos - 1 + 1) : before[i] = text[1 + i - 1]
    BY <1>1, <2>1, SubSeqProperties
  <2> QED
    BY <1>1, <2>2
<1>5. /\ after \in Seq(Token) /\ Len(after) = Len(text) - pos
      /\ \A i \in 1..(Len(text) - pos) : after[i] = text[pos + i]
  <2>1. \A i \in (pos + 1)..Len(text) : text[i] \in Token
    BY <1>1, <1>3
  <2>2. /\ after \in Seq(Token)
        /\ Len(after) = IF pos + 1 <= Len(text) THEN Len(text) - (pos + 1) + 1 ELSE 0
        /\ \A i \in 1..(Len(text) - (pos + 1) + 1) : after[i] = text[pos + 1 + i - 1]
    BY <1>1, <2>1, SubSeqProperties
  <2> QED
    BY <1>1, <2>2
<1>6. new = Glue(before, put, after)
  BY DEF Inject
<1>7. \A s, t, u \in Seq(Token) :
      /\ Glue(s, t, u) \in Seq(Token)
      /\ Len(Glue(s, t, u)) = Len(s) + Len(t) + Len(u)
      /\ \A i \in 1..Len(s) : Glue(s, t, u)[i] = s[i]
      /\ \A i \in 1..Len(t) : Glue(s, t, u)[Len(s) + i] = t[i]
      /\ \A i \in 1..Len(u) : Glue(s, t, u)[Len(s) + Len(t) + i] = u[i]
  BY JoinedThree
<1> HIDE DEF pos, new, before, put, after, Glue
<1>8. /\ new \in Seq(Token) /\ Len(new) = Len(before) + Len(put) + Len(after)
      /\ \A i \in 1..Len(before) : new[i] = before[i]
      /\ \A i \in 1..Len(put) : new[Len(before) + i] = put[i]
      /\ \A i \in 1..Len(after) : new[Len(before) + Len(put) + i] = after[i]
  <2>1. before \in Seq(Token) /\ put \in Seq(Token) /\ after \in Seq(Token)
    BY <1>2, <1>4, <1>5
  <2>2. /\ Glue(before, put, after) \in Seq(Token)
        /\ Len(Glue(before, put, after)) = Len(before) + Len(put) + Len(after)
        /\ \A i \in 1..Len(before) : Glue(before, put, after)[i] = before[i]
        /\ \A i \in 1..Len(put) : Glue(before, put, after)[Len(before) + i] = put[i]
        /\ \A i \in 1..Len(after) :
             Glue(before, put, after)[Len(before) + Len(put) + i] = after[i]
    BY <1>7, <2>1, ZenonT(40)
  <2> QED
    BY <1>6, <2>2
<1>9. Len(new) = Len(text) + 4
  <2>1. Len(new) = pos + 4 + (Len(text) - pos)
    BY <1>2, <1>4, <1>5, <1>8
  <2> QED
    BY <1>1, <2>1
<1>10. \A i \in 1..pos : new[i] = text[i]
  BY <1>4, <1>8
<1>11. \A i \in 1..4 : new[pos + i] = put[i]
  BY <1>2, <1>4, <1>8
<1>12. /\ new[pos + 1] = put[1] /\ new[pos + 2] = put[2] /\ new[pos + 3] = put[3]
       /\ new[pos + 4] = put[4]
  BY <1>11
<1>13. ASSUME NEW i \in (pos + 1)..Len(text) PROVE new[i + 4] = text[i]
  <2>1. i - pos \in 1..(Len(text) - pos) /\ pos + 4 + (i - pos) = i + 4
    BY <1>1
  <2>2. after[i - pos] = text[pos + (i - pos)] /\ pos + (i - pos) = i
    BY <1>1, <1>5, <2>1
  <2>3. Len(before) = pos /\ Len(put) = 4 /\ Len(after) = Len(text) - pos
    BY <1>2, <1>4, <1>5
  <2>4. new[pos + 4 + (i - pos)] = after[i - pos]
    BY <1>8, <2>1, <2>3
  <2> QED
    BY <2>1, <2>2, <2>4
<1> QED
  BY <1>1, <1>2, <1>8, <1>9, <1>10, <1>12, <1>13 DEF pos, new

(* What extract_or_inject_id() puts in, extract_id() finds again, provided *)
(* the first brace comes before anything that looks like an id.            *)
LEMMA InjectExtract ==
  ASSUME NEW text \in Seq(Token), NEW k \in Chars,
         Braces(text) # {}, \A i \in IdTexts(text) : First(Braces(text)) < i
  PROVE  Extract(Inject(text, k)) = k
<1> DEFINE pos == First(Braces(text))
           new == Inject(text, k)
<1>1. /\ new \in Seq(Token) /\ pos \in 1..Len(text) /\ Len(new) = Len(text) + 4
      /\ \A i \in 1..pos : new[i] = text[i]
      /\ new[pos + 1] = str("id") /\ new[pos + 2] = mark(":")
      /\ new[pos + 3] = int(k)
  BY InjectShape
<1>2. \A i \in IdTexts(text) : pos < i
  OBVIOUS
<1> HIDE DEF pos, new
<1>3. /\ str("id").kind = "string" /\ str("id").scan = "id"
      /\ mark(":").kind = ":" /\ int(k).kind = "number" /\ int(k).scan = k
  BY TokensAre
<1>4. First(IdTexts(new)) = pos + 1 /\ IdTexts(new) # {}
  <2>1. IdTexts(new) \in SUBSET Nat /\ pos + 1 \in IdTexts(new)
    BY <1>1, <1>3 DEF IdTexts
  <2>2. ASSUME NEW j \in IdTexts(new), j < pos + 1 PROVE FALSE
    <3>1. j \in 1..pos /\ text[j].kind = "string" /\ text[j].scan = "id"
      BY <1>1, <2>2 DEF IdTexts
    <3>2. j \in IdTexts(text)
      BY <1>1, <3>1 DEF IdTexts
    <3> QED
      BY <1>1, <1>2, <3>1, <3>2
  <2>3. \A j \in IdTexts(new) : pos + 1 <= j
    BY <1>1, <2>1, <2>2
  <2> QED
    BY <2>1, <2>3, FirstIs
<1>5. First(Colons(new, pos + 1)) = pos + 2 /\ Colons(new, pos + 1) # {}
  <2>1. Colons(new, pos + 1) \in SUBSET Nat /\ pos + 2 \in Colons(new, pos + 1)
    BY <1>1, <1>3 DEF Colons
  <2>2. \A j \in Colons(new, pos + 1) : pos + 2 <= j
    BY <1>1 DEF Colons
  <2> QED
    BY <2>1, <2>2, FirstIs
<1>6. First(Solids(new, pos + 2)) = pos + 3 /\ Solids(new, pos + 2) # {}
  <2>1. Solids(new, pos + 2) \in SUBSET Nat /\ pos + 3 \in Solids(new, pos + 2)
    BY <1>1, <1>3 DEF Solids
  <2>2. \A j \in Solids(new, pos + 2) : pos + 3 <= j
    BY <1>1 DEF Solids
  <2> QED
    BY <2>1, <2>2, FirstIs
<1>7. Extract(new) = new[pos + 3].scan
  BY <1>4, <1>5, <1>6 DEF Extract
<1> QED
  BY <1>1, <1>3, <1>7 DEF new

-----------------------------------------------------------------------------
(* What a parser reads after an injection                                  *)

LEMMA KindsApart ==
  /\ Brace \in Opening /\ Brace \notin Closing
  /\ \A kind \in {"string", "number", ":", ","} : kind \notin Opening \cup Closing
<1>1. Brace \in Opening
  BY DEF Opening
<1>2. Brace \notin Closing
  BY Zenon DEF Closing, Brace
<1>3. /\ "string" \notin Opening \cup Closing
      /\ "number" \notin Opening \cup Closing
      /\ ":" \notin Opening \cup Closing
      /\ "," \notin Opening \cup Closing
  BY Zenon DEF Opening, Closing, Brace
<1> QED
  BY <1>1, <1>2, <1>3, Zenon

(* Two sets of indices that differ by a gap of four have as many members. *)
LEMMA GapKeepsCount ==
  ASSUME NEW n \in Nat, NEW P \in SUBSET (1..n), NEW Q \in SUBSET Nat,
         1 \in P <=> 1 \in Q,
         \A j \in Nat : j >= 2 => (j \in P <=> j + 4 \in Q),
         \A j \in Q : j = 1 \/ j >= 6
  PROVE  Cardinality(Q) = Cardinality(P)
<1> DEFINE f == [j \in P |-> IF j = 1 THEN 1 ELSE j + 4]
<1>1. IsFiniteSet(P)
  <2>1. 1 \in Int /\ n \in Int
    OBVIOUS
  <2>2. IsFiniteSet(1..n)
    BY <2>1, FS_Interval
  <2> QED
    BY <2>2, FS_Subset
<1>2. f \in [P -> Q]
  OBVIOUS
<1>3. \A i, j \in P : f[i] = f[j] => i = j
  OBVIOUS
<1>4. ASSUME NEW q \in Q PROVE \E j \in P : f[j] = q
  <2>1. CASE q = 1
    BY <2>1
  <2>2. CASE q >= 6
    <3>1. q - 4 \in Nat /\ q - 4 >= 2 /\ (q - 4) + 4 = q
      BY <2>2
    <3>2. q - 4 \in P
      BY <3>1
    <3> QED
      BY <3>1, <3>2
  <2> QED
    BY <2>1, <2>2
<1>5. f \in Bijection(P, Q)
  <2> HIDE DEF f
  <2> QED
    BY <1>2, <1>3, <1>4 DEF Bijection, Injection, Surjection, IsInjective
<1>6. ExistsBijection(P, Q)
  BY <1>5 DEF ExistsBijection
<1> QED
  BY <1>1, <1>6, FS_Bijection

LEMMA InjectedKinds ==
  ASSUME NEW k \in Chars
  PROVE  \A t \in {str("id"), mark(":"), int(k), mark(",")} :
           t.kind \notin Opening \cup Closing
<1>1. \A kind, c, s : scalar(kind, c, s).kind = kind
  BY DEF scalar
<1>2. /\ str("id").kind = "string" /\ mark(":").kind = ":"
      /\ int(k).kind = "number" /\ mark(",").kind = ","
  BY <1>1 DEF str, mark, int
<1> QED
  BY <1>2, KindsApart

(* InjectShape for a text that begins with a brace. *)
LEMMA InjectAtOne ==
  ASSUME NEW text \in Seq(Token), NEW k \in Chars, 1 \in Braces(text)
  PROVE  LET new == Inject(text, k) IN
           /\ new \in Seq(Token) /\ Len(new) = Len(text) + 4 /\ Len(text) >= 1
           /\ new[1] = text[1] /\ new[2] = str("id") /\ new[3] = mark(":")
           /\ new[4] = int(k) /\ new[5] = mark(",")
           /\ \A j \in 2..Len(text) : new[j + 4] = text[j]
<1> DEFINE new == Inject(text, k)
           pos == First(Braces(text))
<1>1. pos = 1
  <2>1. Braces(text) \in SUBSET Nat /\ \A j \in Braces(text) : 1 <= j
    BY DEF Braces
  <2> QED
    BY <2>1, FirstIs
<1>2. /\ new \in Seq(Token) /\ pos \in 1..Len(text) /\ Len(new) = Len(text) + 4
      /\ \A i \in 1..pos : new[i] = text[i]
      /\ new[pos + 1] = str("id") /\ new[pos + 2] = mark(":")
      /\ new[pos + 3] = int(k) /\ new[pos + 4] = mark(",")
      /\ \A i \in (pos + 1)..Len(text) : new[i + 4] = text[i]
  <2>1. Braces(text) # {}
    OBVIOUS
  <2> QED
    BY <2>1, InjectShape
<1> HIDE DEF new, pos
<1>3. Len(text) >= 1
  <2>1. pos \in 1..Len(text)
    BY <1>2
  <2>2. Len(text) \in Nat
    OBVIOUS
  <2> QED
    BY <1>1, <2>1, <2>2
<1>4. /\ pos + 1 = 2 /\ pos + 2 = 3 /\ pos + 3 = 4 /\ pos + 4 = 5
      /\ 1 \in 1..pos
  BY <1>1
<1>5. /\ new[1] = text[1] /\ new[2] = str("id") /\ new[3] = mark(":")
      /\ new[4] = int(k) /\ new[5] = mark(",")
      /\ \A j \in 2..Len(text) : new[j + 4] = text[j]
  BY <1>2, <1>4, Zenon
<1> QED
  BY <1>2, <1>3, <1>5, Zenon DEF new

(* The injected member leaves the depth of everything behind it alone. *)
LEMMA InjectDepth ==
  ASSUME NEW text \in Seq(Token), NEW k \in Chars, 1 \in Braces(text),
         NEW i \in 2..Len(text)
  PROVE  Depth(Inject(text, k), i + 4) = Depth(text, i)
<1> DEFINE new == Inject(text, k)
           Of(kinds) == {j \in 1..(i - 1) : text[j].kind \in kinds}
           NewOf(kinds) == {j \in 1..(i + 4 - 1) : new[j].kind \in kinds}
<1>1. /\ new[1] = text[1] /\ new[2] = str("id") /\ new[3] = mark(":")
      /\ new[4] = int(k) /\ new[5] = mark(",")
      /\ \A j \in 2..Len(text) : new[j + 4] = text[j]
  BY InjectAtOne
<1> HIDE DEF new
<1>2. ASSUME NEW kinds, kinds \in {Opening, Closing}
      PROVE  Cardinality(NewOf(kinds)) = Cardinality(Of(kinds))
  <2>1. \A j \in {2, 3, 4, 5} : new[j].kind \notin kinds
    BY <1>1, <1>2, InjectedKinds
  <2>2. Of(kinds) \in SUBSET (1..i) /\ NewOf(kinds) \in SUBSET Nat /\ i \in Nat
    OBVIOUS
  <2>3. 1 \in Of(kinds) <=> 1 \in NewOf(kinds)
    <3>1. 1 \in 1..(i - 1) /\ 1 \in 1..(i + 4 - 1)
      OBVIOUS
    <3> QED
      BY <1>1, <3>1
  <2>4. \A j \in Nat : j >= 2 => (j \in Of(kinds) <=> j + 4 \in NewOf(kinds))
    <3> SUFFICES ASSUME NEW j \in Nat, j >= 2
                 PROVE  j \in Of(kinds) <=> j + 4 \in NewOf(kinds)
      OBVIOUS
    <3>1. j \in 1..(i - 1) => new[j + 4] = text[j]
      <4>1. j \in 1..(i - 1) => j \in 2..Len(text)
        OBVIOUS
      <4> QED
        BY <1>1, <4>1
    <3>2. j \in 1..(i - 1) <=> j + 4 \in 1..(i + 4 - 1)
      OBVIOUS
    <3> QED
      BY <3>1, <3>2
  <2>5. \A j \in NewOf(kinds) : j = 1 \/ j >= 6
    BY <2>1
  <2> HIDE DEF Of, NewOf
  <2> QED
    BY <2>2, <2>3, <2>4, <2>5, GapKeepsCount
<1>3. /\ Cardinality(NewOf(Opening)) = Cardinality(Of(Opening))
      /\ Cardinality(NewOf(Closing)) = Cardinality(Of(Closing))
  BY <1>2
<1>4. /\ Depth(text, i) = Cardinality(Of(Opening)) - Cardinality(Of(Closing))
      /\ Depth(new, i + 4) = Cardinality(NewOf(Opening)) - Cardinality(NewOf(Closing))
  BY DEF Depth
<1> HIDE DEF Of, NewOf
<1> QED
  BY <1>3, <1>4, Zenon DEF new

(* What stands behind the injected member is found four places on. *)
LEMMA InjectSolids ==
  ASSUME NEW text \in Seq(Token), NEW k \in Chars, 1 \in Braces(text),
         NEW i \in 1..Len(text)
  PROVE  /\ Solids(Inject(text, k), i + 4) = {j + 4 : j \in Solids(text, i)}
         /\ Solids(text, i) # {} =>
              NextSolid(Inject(text, k), i + 4) = NextSolid(text, i) + 4
<1> DEFINE new == Inject(text, k)
<1>1. /\ new \in Seq(Token) /\ Len(new) = Len(text) + 4
      /\ \A j \in 2..Len(text) : new[j + 4] = text[j]
  BY InjectAtOne
<1> HIDE DEF new
<1>2. Solids(new, i + 4) = {j + 4 : j \in Solids(text, i)}
  <2>1. ASSUME NEW j \in Solids(new, i + 4) PROVE \E l \in Solids(text, i) : j = l + 4
    <3>1. /\ j - 4 \in 2..Len(text) /\ j = (j - 4) + 4 /\ j - 4 > i
          /\ new[j].kind # "blank"
      BY <1>1, <2>1 DEF Solids
    <3>2. text[j - 4] = new[j]
      BY <1>1, <3>1
    <3>3. j - 4 \in Solids(text, i)
      BY <3>1, <3>2 DEF Solids
    <3> QED
      BY <3>1, <3>3
  <2>2. ASSUME NEW j \in Solids(text, i) PROVE j + 4 \in Solids(new, i + 4)
    BY <1>1, <2>2 DEF Solids
  <2> QED
    BY <2>1, <2>2
<1>3. ASSUME Solids(text, i) # {}
      PROVE  NextSolid(new, i + 4) = NextSolid(text, i) + 4
  <2> DEFINE next == NextSolid(text, i)
  <2>1. next \in Solids(text, i) /\ \A j \in Solids(text, i) : next <= j
    BY <1>3, SolidsExist
  <2> HIDE DEF next
  <2>2. Solids(text, i) \subseteq Nat /\ Solids(new, i + 4) \subseteq Nat
    BY <1>1 DEF Solids
  <2>3. next + 4 \in Solids(new, i + 4) /\ \A j \in Solids(new, i + 4) : next + 4 <= j
    BY <1>2, <2>1, <2>2
  <2>4. First(Solids(new, i + 4)) = next + 4
    BY <2>2, <2>3, FirstIs
  <2> QED
    BY <2>4 DEF NextSolid, next
<1> QED
  BY <1>2, <1>3 DEF new

(* An injected member is a member of the outermost object. *)
LEMMA InjectedIsMember ==
  ASSUME NEW text \in Seq(Token), NEW k \in Chars, 1 \in Braces(text)
  PROVE  /\ 2 \in IdMembers(Inject(text, k))
         /\ MemberToken(Inject(text, k), 2) = int(k)
<1> DEFINE new == Inject(text, k)
<1>1. /\ new \in Seq(Token) /\ Len(new) = Len(text) + 4 /\ Len(text) >= 1
      /\ new[1] = text[1] /\ new[2] = str("id") /\ new[3] = mark(":")
      /\ new[4] = int(k)
  BY InjectAtOne
<1> HIDE DEF new
<1>2. DOMAIN new = 1..Len(new) /\ {2, 3, 4} \subseteq DOMAIN new
  BY <1>1
<1>3. Depth(new, 2) = 1
  <2>1. new[1].kind = Brace
    BY <1>1 DEF Braces
  <2>2. new[1].kind \in Opening /\ new[1].kind \notin Closing
    BY <2>1, KindsApart
  <2>3. \A j : j \in 1..(2 - 1) <=> j = 1
    OBVIOUS
  <2>4. /\ {j \in 1..(2 - 1) : new[j].kind \in Opening} = {1}
        /\ {j \in 1..(2 - 1) : new[j].kind \in Closing} = {}
    BY <2>2, <2>3, Zenon
  <2>5. Depth(new, 2) = Cardinality({1}) - Cardinality({})
    BY <2>4, Zenon DEF Depth
  <2>6. Cardinality({1}) = 1 /\ Cardinality({}) = 0
    BY FS_Singleton, FS_EmptySet, Zenon
  <2> QED
    BY <2>5, <2>6
<1>4. /\ new[3].kind = ":" /\ new[4].kind = "number"
      /\ new[2].value = [type |-> "string", chars |-> "id"]
  BY <1>1 DEF str, mark, int, scalar
<1>5. Solids(new, 2) # {} /\ NextSolid(new, 2) = 3
  <2>1. Solids(new, 2) \in SUBSET Nat /\ 3 \in Solids(new, 2)
    BY <1>2, <1>4 DEF Solids
  <2>2. \A j \in Solids(new, 2) : 3 <= j
    BY <1>2 DEF Solids
  <2> QED
    BY <2>1, <2>2, FirstIs DEF NextSolid
<1>6. Solids(new, 3) # {} /\ NextSolid(new, 3) = 4
  <2>1. Solids(new, 3) \in SUBSET Nat /\ 4 \in Solids(new, 3)
    BY <1>2, <1>4 DEF Solids
  <2>2. \A j \in Solids(new, 3) : 4 <= j
    BY <1>2 DEF Solids
  <2> QED
    BY <2>1, <2>2, FirstIs DEF NextSolid
<1> QED
  BY <1>1, <1>2, <1>3, <1>4, <1>5, <1>6 DEF IdMembers, MemberToken, new

(* Every other member that is an id was one before, four places earlier. *)
LEMMA InjectMakesOneId ==
  ASSUME NEW text \in Seq(Token), NEW k \in Chars, 1 \in Braces(text),
         NEW i \in IdMembers(Inject(text, k)), i # 2
  PROVE  i - 4 \in IdMembers(text) /\ i = (i - 4) + 4
<1> DEFINE new == Inject(text, k)
<1>1. /\ new \in Seq(Token) /\ Len(new) = Len(text) + 4
      /\ new[3] = mark(":") /\ new[4] = int(k) /\ new[5] = mark(",")
      /\ \A j \in 2..Len(text) : new[j + 4] = text[j]
  BY InjectAtOne
<1> HIDE DEF new
<1>2. /\ i \in 1..Len(new) /\ Depth(new, i) = 1
      /\ new[i].value = [type |-> "string", chars |-> "id"]
      /\ Solids(new, i) # {} /\ new[NextSolid(new, i)].kind = ":"
      /\ Solids(new, NextSolid(new, i)) # {}
  <2>1. i \in IdMembers(new)
    BY DEF new
  <2>2. new \in Seq(Token)
    BY <1>1, Zenon
  <2>3. DOMAIN new = 1..Len(new)
    BY <2>2
  <2> QED
    BY <2>1, <2>3, Zenon DEF IdMembers
<1>3. i \in 1..(Len(text) + 4) /\ Len(text) \in Nat
  <2>1. i \in 1..Len(new) /\ Len(new) = Len(text) + 4
    BY <1>1, <1>2, Zenon
  <2> QED
    BY <2>1
<1>4. i # 1
  <2>1. {j \in 1..(1 - 1) : new[j].kind \in Opening} = {}
    OBVIOUS
  <2>2. {j \in 1..(1 - 1) : new[j].kind \in Closing} = {}
    OBVIOUS
  <2>3. Depth(new, 1) = Cardinality({}) - Cardinality({})
    BY <2>1, <2>2, Zenon DEF Depth
  <2>4. Cardinality({}) = 0
    BY FS_EmptySet, Zenon
  <2> QED
    BY <1>2, <2>3, <2>4
<1>5. i \notin {3, 4, 5}
  <2>1. \A kind, c, s : scalar(kind, c, s).value.type = kind
    BY DEF scalar
  <2>2. new[3].value.type = ":" /\ new[4].value.type = "number" /\ new[5].value.type = ","
    <3>1. /\ mark(":").value.type = ":" /\ mark(",").value.type = ","
          /\ int(k).value.type = "number"
      BY <2>1 DEF mark, int
    <3> QED
      BY <1>1, <3>1, Zenon
  <2>3. new[i].value.type = "string"
    BY <1>2
  <2> QED
    BY <2>2, <2>3
<1>6. ASSUME i >= 6 PROVE i - 4 \in IdMembers(text)
  <2> DEFINE j == i - 4
             next == NextSolid(text, j)
  <2>1. j \in 2..Len(text) /\ i = j + 4
    BY <1>6, <1>3
  <2>2. text[j] = new[i] /\ Depth(text, j) = 1
    BY <1>1, <1>2, <2>1, InjectDepth DEF new
  <2> HIDE DEF j
  <2>3. Solids(text, j) # {} /\ NextSolid(new, i) = next + 4
    BY <1>2, <2>1, InjectSolids DEF new
  <2>4. next \in Solids(text, j)
    BY <2>1, <2>3, SolidsExist
  <2> HIDE DEF next
  <2>5. next \in 2..Len(text)
    BY <2>1, <2>4 DEF Solids
  <2>6. text[next].kind = ":"
    BY <1>1, <1>2, <2>3, <2>5
  <2>7. Solids(text, next) # {}
    BY <1>2, <2>3, <2>5, InjectSolids DEF new
  <2>8. j \in IdMembers(text)
    BY <1>2, <2>1, <2>2, <2>3, <2>6, <2>7 DEF IdMembers, next
  <2> QED
    BY <2>8 DEF j
<1> QED
  BY <1>4, <1>5, <1>6, <1>3

(* Nothing is open at the start of a text, so no member stands there. *)
LEMMA MembersInside ==
  ASSUME NEW text \in Seq(Token), NEW i \in IdMembers(text)
  PROVE  i \in 2..Len(text)
<1>1. Depth(text, 1) = 0
  <2>1. /\ {j \in 1..(1 - 1) : text[j].kind \in Opening} = {}
        /\ {j \in 1..(1 - 1) : text[j].kind \in Closing} = {}
    OBVIOUS
  <2>2. Depth(text, 1) = Cardinality({}) - Cardinality({})
    BY <2>1, Zenon DEF Depth
  <2>3. Cardinality({}) = 0
    BY FS_EmptySet, Zenon
  <2> QED
    BY <2>2, <2>3
<1>2. i \in DOMAIN text /\ Depth(text, i) = 1
  BY Zenon DEF IdMembers
<1>3. i # 1
  BY <1>1, <1>2
<1>4. DOMAIN text = 1..Len(text) /\ Len(text) \in Nat
  OBVIOUS
<1> QED
  BY <1>2, <1>3, <1>4

(* A token behind the first brace is found four places on. *)
LEMMA InjectToken ==
  ASSUME NEW text \in Seq(Token), NEW k \in Chars, 1 \in Braces(text),
         NEW i \in 1..Len(text), Solids(text, i) # {}
  PROVE  /\ NextSolid(text, i) \in 2..Len(text)
         /\ Solids(Inject(text, k), i + 4) # {}
         /\ NextSolid(Inject(text, k), i + 4) = NextSolid(text, i) + 4
         /\ Inject(text, k)[NextSolid(text, i) + 4] = text[NextSolid(text, i)]
<1> DEFINE next == NextSolid(text, i)
<1>1. next \in Solids(text, i)
  BY SolidsExist
<1> HIDE DEF next
<1>2. next \in 2..Len(text)
  BY <1>1 DEF Solids
<1>3. /\ NextSolid(Inject(text, k), i + 4) = next + 4
      /\ Solids(Inject(text, k), i + 4) # {}
  <2>1. Solids(Inject(text, k), i + 4) = {j + 4 : j \in Solids(text, i)}
    BY InjectSolids
  <2>2. NextSolid(Inject(text, k), i + 4) = next + 4
    BY InjectSolids DEF next
  <2> QED
    BY <1>1, <2>1, <2>2
<1>4. Inject(text, k)[next + 4] = text[next]
  BY <1>2, InjectAtOne
<1> QED
  BY <1>2, <1>3, <1>4 DEF next

(* The members that are ids stay ids, with their values. *)
LEMMA InjectKeepsIds ==
  ASSUME NEW text \in Seq(Token), NEW k \in Chars, 1 \in Braces(text),
         NEW i \in IdMembers(text)
  PROVE  /\ i + 4 \in IdMembers(Inject(text, k))
         /\ MemberToken(Inject(text, k), i + 4) = MemberToken(text, i)
<1> DEFINE new == Inject(text, k)
           next == NextSolid(text, i)
<1>1. i \in 2..Len(text)
  BY MembersInside
<1>2. /\ Depth(text, i) = 1
      /\ text[i].value = [type |-> "string", chars |-> "id"]
      /\ Solids(text, i) # {} /\ text[next].kind = ":" /\ Solids(text, next) # {}
  BY Zenon DEF IdMembers
<1>3. /\ new \in Seq(Token) /\ Len(new) = Len(text) + 4 /\ new[i + 4] = text[i]
  BY <1>1, InjectAtOne
<1>4. Depth(new, i + 4) = 1
  BY <1>1, <1>2, InjectDepth
<1>5. ASSUME NEW j \in 1..Len(text), Solids(text, j) # {}
      PROVE  /\ NextSolid(text, j) \in 2..Len(text) /\ Solids(new, j + 4) # {}
             /\ NextSolid(new, j + 4) = NextSolid(text, j) + 4
             /\ new[NextSolid(text, j) + 4] = text[NextSolid(text, j)]
  BY <1>5, InjectToken
<1> HIDE DEF new
<1>6. /\ next \in 2..Len(text) /\ Solids(new, i + 4) # {}
      /\ NextSolid(new, i + 4) = next + 4 /\ new[next + 4] = text[next]
  <2>1. i \in 1..Len(text)
    BY <1>1
  <2> QED
    BY <1>2, <1>5, <2>1
<1> HIDE DEF next
<1>7. /\ Solids(new, next + 4) # {}
      /\ new[NextSolid(new, next + 4)] = text[NextSolid(text, next)]
  <2>1. next \in 1..Len(text)
    BY <1>6
  <2> QED
    BY <1>2, <1>5, <2>1
<1>8. i + 4 \in DOMAIN new
  BY <1>1, <1>3
<1>9. i + 4 \in IdMembers(new)
  BY <1>2, <1>3, <1>4, <1>6, <1>7, <1>8 DEF IdMembers
<1>10. MemberToken(new, i + 4) = MemberToken(text, i)
  BY <1>6, <1>7 DEF MemberToken, next
<1> QED
  BY <1>9, <1>10 DEF new

(* The injected id is what a parser may read in addition. *)
LEMMA InjectReads ==
  ASSUME NEW text \in Seq(Token), NEW k \in Chars, 1 \in Braces(text)
  PROVE  ReadIds(Inject(text, k)) =
           ReadIds(text) \cup {[type |-> "number", chars |-> k]}
<1> DEFINE new == Inject(text, k)
           Scalar(t, i) == MemberToken(t, i).kind \in Scalars
<1>1. int(k).kind \in Scalars /\ int(k).value = [type |-> "number", chars |-> k]
  BY DEF int, scalar, Scalars
<1>2. 2 \in IdMembers(new) /\ MemberToken(new, 2) = int(k)
  BY InjectedIsMember
<1>3. \A i \in IdMembers(text) :
        i + 4 \in IdMembers(new) /\ MemberToken(new, i + 4) = MemberToken(text, i)
  BY InjectKeepsIds
<1>4. \A i \in IdMembers(new) :
        i # 2 => i - 4 \in IdMembers(text) /\ i = (i - 4) + 4
  BY InjectMakesOneId
<1> HIDE DEF new
<1>5. ASSUME NEW v \in ReadIds(new)
      PROVE  v \in ReadIds(text) \cup {[type |-> "number", chars |-> k]}
  <2>1. PICK i \in IdMembers(new) : Scalar(new, i) /\ v = MemberToken(new, i).value
    BY <1>5 DEF ReadIds
  <2>2. CASE i = 2
    BY <1>1, <1>2, <2>1, <2>2
  <2>3. CASE i # 2
    <3>1. /\ i - 4 \in IdMembers(text)
          /\ MemberToken(text, i - 4) = MemberToken(new, i)
      BY <1>3, <1>4, <2>3
    <3> QED
      BY <2>1, <3>1 DEF ReadIds
  <2> QED
    BY <2>2, <2>3
<1>6. ASSUME NEW v \in ReadIds(text) PROVE v \in ReadIds(new)
  <2>1. PICK i \in IdMembers(text) : Scalar(text, i) /\ v = MemberToken(text, i).value
    BY <1>6 DEF ReadIds
  <2> QED
    BY <1>3, <2>1 DEF ReadIds
<1>7. [type |-> "number", chars |-> k] \in ReadIds(new)
  BY <1>1, <1>2 DEF ReadIds
<1> QED
  BY <1>5, <1>6, <1>7 DEF new

(* The comma of the injected member is followed by a member, unless the    *)
(* object has none; the other commas are followed by what they were.       *)
LEMMA InjectSeparates ==
  ASSUME NEW text \in Seq(Token), NEW k \in Chars, 1 \in Braces(text)
  PROVE  Separated(Inject(text, k)) <=> Separated(text) /\ ~NoMembers(text)
<1> DEFINE new == Inject(text, k)
           Goes(t, i) == Solids(t, i) # {} /\ t[NextSolid(t, i)].kind \notin Closing
<1>1. /\ Len(text) >= 1 /\ Len(new) = Len(text) + 4 /\ new \in Seq(Token)
      /\ new[1] = text[1] /\ new[2] = str("id") /\ new[3] = mark(":")
      /\ new[4] = int(k) /\ new[5] = mark(",")
      /\ \A j \in 2..Len(text) : new[j + 4] = text[j]
  BY InjectAtOne
<1>2. ASSUME NEW i \in 1..Len(text) PROVE Goes(new, i + 4) <=> Goes(text, i)
  <2>1. Solids(new, i + 4) = {j + 4 : j \in Solids(text, i)}
    BY InjectSolids
  <2>2. Solids(new, i + 4) = {} <=> Solids(text, i) = {}
    BY <2>1
  <2>3. Solids(text, i) # {} => new[NextSolid(new, i + 4)] = text[NextSolid(text, i)]
    BY InjectToken, Zenon
  <2> QED
    BY <2>2, <2>3
<1>3. ~NoMembers(text) <=> Goes(text, 1)
  <2>1. First(Braces(text)) = 1
    <3>1. Braces(text) \in SUBSET Nat /\ \A j \in Braces(text) : 1 <= j
      BY DEF Braces
    <3> QED
      BY <3>1, FirstIs
  <2> QED
    BY <2>1 DEF NoMembers
<1>4. /\ mark(",").kind = "," /\ mark(":").kind # "," /\ int(k).kind # ","
      /\ str("id").kind # ","
  <2>1. \A kind, c, s : scalar(kind, c, s).kind = kind
    BY DEF scalar
  <2>2. /\ mark(",").kind = "," /\ mark(":").kind = ":" /\ int(k).kind = "number"
        /\ str("id").kind = "string"
    BY <2>1, Zenon DEF str, int, mark
  <2> QED
    BY <2>2
<1>5. text[1].kind # ","
  <2>1. text[1].kind = Brace
    BY DEF Braces
  <2> QED
    BY <2>1, KindsApart
<1>6. /\ Separated(new) <=> \A i \in 1..Len(new) : new[i].kind = "," => Goes(new, i)
      /\ Separated(text) <=> \A i \in 1..Len(text) : text[i].kind = "," => Goes(text, i)
  <2>1. \A t \in Seq(Token) : DOMAIN t = 1..Len(t)
    OBVIOUS
  <2>2. DOMAIN new = 1..Len(new) /\ DOMAIN text = 1..Len(text)
    BY <1>1, <2>1, Zenon
  <2> QED
    BY <2>2, Zenon DEF Separated
<1>7. Len(text) \in Nat /\ Len(text) >= 1 /\ Len(new) = Len(text) + 4
  <2>1. Len(text) >= 1 /\ Len(new) = Len(text) + 4
    BY <1>1, Zenon
  <2>2. Len(text) \in Nat
    OBVIOUS
  <2> QED
    BY <2>1, <2>2, Zenon
<1> HIDE DEF new, Goes
<1>8. ASSUME Separated(new) PROVE Separated(text) /\ Goes(text, 1)
  <2>1. Goes(text, 1)
    <3>1. 5 \in 1..Len(new) /\ 1 \in 1..Len(text) /\ 1 + 4 = 5
      BY <1>7
    <3>2. Goes(new, 5)
      BY <1>1, <1>4, <1>6, <1>8, <3>1
    <3> QED
      BY <1>2, <3>1, <3>2
  <2>2. ASSUME NEW i \in 1..Len(text), text[i].kind = "," PROVE Goes(text, i)
    <3>1. i # 1
      BY <1>5, <2>2
    <3>2. i \in 2..Len(text) /\ i + 4 \in 1..Len(new)
      BY <1>7, <3>1
    <3>3. new[i + 4] = text[i]
      BY <1>1, <3>2, Zenon
    <3> QED
      BY <1>2, <1>6, <1>8, <2>2, <3>2, <3>3
  <2> QED
    BY <1>6, <2>1, <2>2
<1>9. ASSUME Separated(text), Goes(text, 1),
             NEW i \in 1..Len(new), new[i].kind = ","
      PROVE  Goes(new, i)
  <2>1. i = 5 \/ i \in 6..Len(new)
    <3>1. new[1].kind # "," /\ new[2].kind # "," /\ new[3].kind # "," /\ new[4].kind # ","
      BY <1>1, <1>4, <1>5
    <3>2. i # 1 /\ i # 2 /\ i # 3 /\ i # 4
      BY <1>9, <3>1
    <3> QED
      BY <1>7, <3>2
  <2>2. CASE i = 5
    <3>1. 1 \in 1..Len(text) /\ 1 + 4 = 5
      BY <1>7
    <3> QED
      BY <1>2, <1>9, <2>2, <3>1
  <2>3. CASE i \in 6..Len(new)
    <3> DEFINE j == i - 4
    <3>1. j \in 2..Len(text) /\ j \in 1..Len(text) /\ i = j + 4
      BY <1>7, <2>3
    <3> HIDE DEF j
    <3>2. text[j].kind = ","
      <4>1. new[j + 4] = text[j]
        BY <1>1, <3>1, Zenon
      <4> QED
        BY <1>9, <3>1, <4>1
    <3>3. Goes(text, j)
      BY <1>6, <1>9, <3>1, <3>2
    <3> QED
      BY <1>2, <3>1, <3>3
  <2> QED
    BY <2>1, <2>2, <2>3
<1> QED
  BY <1>3, <1>6, <1>8, <1>9 DEF new

-----------------------------------------------------------------------------
(* The theorems                                                            *)

(* How the variables hang together. *)
ExchangeInv ==
  /\ TypeOK
  /\ phase # "idle" =>
       /\ request \in Requests
       /\ \/ Extract(request) # NoId /\ key = Extract(request) /\ sent = request
          \/ Extract(request) = NoId /\ key \in Fresh /\ sent = Inject(request, key)
  /\ phase = "answered" =>
       /\ reply \in Replies /\ answer = Extract(reply)
       /\ \E v \in ReadIds(sent) : ReadIds(reply) = {v}

LEMMA ExchangeInvariant == Spec => []ExchangeInv
<1>1. Init => ExchangeInv
  BY CharsAssumption DEF Init, ExchangeInv, TypeOK
<1>2. ASSUME ExchangeInv, [Next]_vars PROVE ExchangeInv'
  <2>1. ASSUME NEW t \in Requests, NEW k \in Fresh, Request(t, k)
        PROVE  ExchangeInv'
    <3>1. t \in Seq(Token) /\ Braces(t) # {} /\ k \in Chars
      BY TextsAssumption
    <3>2. Inject(t, k) \in Seq(Token)
      BY <3>1, InjectShape
    <3>3. Extract(t) \in Chars
      BY <3>1, ExtractIsChars
    <3> QED
      BY <1>2, <2>1, <3>1, <3>2, <3>3 DEF Request, ExchangeInv, TypeOK
  <2>2. ASSUME NEW t \in Replies, Answer(t) PROVE ExchangeInv'
    <3>1. t \in Seq(Token) /\ Extract(t) \in Chars
      BY <2>2, TextsAssumption, ExtractIsChars
    <3> QED
      BY <1>2, <2>2, <3>1 DEF Answer, ExchangeInv, TypeOK
  <2>3. CASE Finish
    BY <2>3, CharsAssumption DEF Finish, ExchangeInv, TypeOK
  <2>4. CASE UNCHANGED vars
    BY <1>2, <2>4 DEF vars, ExchangeInv, TypeOK
  <2> QED
    BY <1>2, <2>1, <2>2, <2>3, <2>4 DEF Next
<1> QED
  BY <1>1, <1>2, PTL DEF Spec

(* Texts stay texts, and keys what can be read in one. *)
THEOREM ExchangeTypes == Spec => []TypeOK
<1>1. ExchangeInv => TypeOK
  BY DEF ExchangeInv
<1> QED
  BY <1>1, ExchangeInvariant, PTL

(* The text that is sent has the key that was filed. *)
THEOREM KeyStaysInText == Spec => []KeyIsInText
<1>1. ExchangeInv => KeyIsInText
  BY InjectExtract, TextsAssumption DEF ExchangeInv, KeyIsInText
<1> QED
  BY <1>1, ExchangeInvariant, PTL

(* An id that is spelled plainly comes back as the key of its promise. *)
THEOREM PlainIdsRoundTrip == Spec => []RoundTrip
<1>1. ASSUME ExchangeInv, phase = "answered", Plain(request), Plain(reply)
      PROVE  answer = key
  <2>1. request \in Seq(Token) /\ reply \in Seq(Token)
    BY <1>1, TextsAssumption DEF ExchangeInv
  <2>2. Extract(request) # NoId /\ \A v \in ReadIds(request) : v.chars = Extract(request)
    BY <1>1, <2>1, PlainExtract
  <2>3. \A v \in ReadIds(reply) : v.chars = Extract(reply)
    BY <1>1, <2>1, PlainExtract
  <2>4. key = Extract(request) /\ sent = request
    BY <1>1, <2>2 DEF ExchangeInv
  <2>5. PICK v \in ReadIds(sent) : ReadIds(reply) = {v}
    BY <1>1 DEF ExchangeInv
  <2> QED
    BY <1>1, <2>2, <2>3, <2>4, <2>5 DEF ExchangeInv
<1>2. ExchangeInv => RoundTrip
  BY <1>1 DEF RoundTrip
<1> QED
  BY <1>2, ExchangeInvariant, PTL

(* An id that the SDK puts in a text that had none is the one id a worker  *)
(* reads there, as a number, and it comes back as the key of its promise:  *)
(* for texts that begin with their object.                                 *)
THEOREM InjectedIdsRoundTrip ==
  ASSUME \A t \in Requests : 1 \in Braces(t)
  PROVE  Spec => []InjectedRoundTrip
<1>1. ASSUME ExchangeInv, phase # "idle", Mute(request)
      PROVE  ReadIds(sent) = {[type |-> "number", chars |-> key]}
  <2>1. /\ request \in Seq(Token) /\ 1 \in Braces(request)
        /\ IdTexts(request) = {} /\ IdMembers(request) = {}
    BY <1>1, TextsAssumption DEF ExchangeInv, Mute
  <2>2. Extract(request) = NoId
    BY <2>1 DEF Extract
  <2>3. key \in Chars /\ sent = Inject(request, key)
    BY <1>1, <2>2, TextsAssumption DEF ExchangeInv
  <2>4. IdMembers(sent) = {2} /\ MemberToken(sent, 2) = int(key)
    BY <2>1, <2>3, InjectedIsMember, InjectMakesOneId
  <2>5. int(key).kind \in Scalars /\ int(key).value = [type |-> "number", chars |-> key]
    BY DEF int, scalar, Scalars
  <2> QED
    BY <2>4, <2>5 DEF ReadIds
<1>2. ASSUME ExchangeInv, phase = "answered", Mute(request), Plain(reply)
      PROVE  answer = key
  <2>1. reply \in Seq(Token) /\ answer = Extract(reply)
    BY <1>2, TextsAssumption DEF ExchangeInv
  <2>2. \A v \in ReadIds(reply) : v.chars = Extract(reply)
    BY <1>2, <2>1, PlainExtract
  <2>3. PICK v \in ReadIds(sent) : ReadIds(reply) = {v}
    BY <1>2 DEF ExchangeInv
  <2>4. v.chars = key
    BY <1>1, <1>2, <2>3
  <2> QED
    BY <2>1, <2>2, <2>3, <2>4
<1>3. ExchangeInv => InjectedRoundTrip
  BY <1>1, <1>2 DEF InjectedRoundTrip
<1> QED
  BY <1>3, ExchangeInvariant, PTL

(* For texts that begin with their object, of any shape: a worker may read *)
(* the ids of the caller's text and, if extract_id() finds none there, the *)
(* injected one, which stands in no other member's place.                  *)
THEOREM InjectionAddsOneId ==
  ASSUME \A t \in Requests : 1 \in Braces(t)
  PROVE  Spec => []InjectionAddsOne
<1>1. ASSUME ExchangeInv, phase # "idle"
      PROVE  ReadIds(sent) =
               ReadIds(request)
                 \cup (IF Extract(request) = NoId
                       THEN {[type |-> "number", chars |-> key]} ELSE {})
  <2>1. request \in Seq(Token) /\ 1 \in Braces(request)
    BY <1>1, TextsAssumption DEF ExchangeInv
  <2>2. CASE Extract(request) # NoId
    BY <1>1, <2>2 DEF ExchangeInv
  <2>3. CASE Extract(request) = NoId
    <3>1. key \in Chars /\ sent = Inject(request, key)
      BY <1>1, <2>3, TextsAssumption DEF ExchangeInv
    <3> QED
      BY <2>1, <2>3, <3>1, InjectReads
  <2> QED
    BY <2>2, <2>3
<1>2. ExchangeInv => InjectionAddsOne
  BY <1>1 DEF InjectionAddsOne
<1> QED
  BY <1>2, ExchangeInvariant, PTL

(* For the same texts: the injection leaves a comma before a brace exactly *)
(* if the object had no members.                                           *)
THEOREM CommaOnlyAfterEmpty ==
  ASSUME \A t \in Requests : 1 \in Braces(t)
  PROVE  Spec => []SentIsSeparated
<1>1. ASSUME ExchangeInv, phase # "idle"
      PROVE  Separated(sent) <=>
               Separated(request) /\ ~(Extract(request) = NoId /\ NoMembers(request))
  <2>1. request \in Seq(Token) /\ 1 \in Braces(request)
    BY <1>1, TextsAssumption DEF ExchangeInv
  <2>2. CASE Extract(request) # NoId
    BY <1>1, <2>2 DEF ExchangeInv
  <2>3. CASE Extract(request) = NoId
    <3>1. key \in Chars /\ sent = Inject(request, key)
      BY <1>1, <2>3, TextsAssumption DEF ExchangeInv
    <3> QED
      BY <2>1, <2>3, <3>1, InjectSeparates
  <2> QED
    BY <2>2, <2>3
<1>2. ExchangeInv => SentIsSeparated
  BY <1>1 DEF SentIsSeparated
<1> QED
  BY <1>2, ExchangeInvariant, PTL
=============================================================================
