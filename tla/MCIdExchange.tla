--------------------------- MODULE MCIdExchange ---------------------------
(* Texts of up to three members, for TLC. *)
EXTENDS IdExchange, SequencesExt

(* Every string, number, literal and scan of the texts below. *)
Written == {NoId, "id", "1", "2", "1.5", "a", "m", "null", "\\u0069d"}

LOCAL tight(name, value) == <<name, mark(":")>> \o value
LOCAL loose(name, value) == <<name, mark("blank"), mark(":"), mark("blank")>> \o value
LOCAL object(members) == <<mark("{")>> \o members \o <<mark("}")>>
LOCAL array(members) == <<mark("[")>> \o members \o <<mark("]")>>

(* A number of which extract_id() keeps a part, the name spelled "\u0069d". *)
fraction == scalar("number", "1.5", "1")
escapedName == scalar("string", "id", "\\u0069d")
null == scalar("literal", "null", NoId)

IdValues == {int("1"), int("2"), str("1"), str("a"), str(NoId), fraction, null}

IdFields ==
  {tight(str("id"), <<v>>) : v \in IdValues}
    \cup {loose(str("id"), <<int("1")>>), tight(escapedName, <<int("1")>>)}

OtherFields ==
  {tight(str("m"), v) :
     v \in {<<str("m")>>, <<str("id")>>, <<int("2")>>,
            object(tight(str("m"), <<int("2")>>)),
            object(tight(str("id"), <<int("2")>>)),
            array(<<str("id")>>)}}

Commas(fields) ==
  IF Len(fields) = 1 THEN fields[1]
  ELSE IF Len(fields) = 2 THEN fields[1] \o <<mark(",")>> \o fields[2]
  ELSE fields[1] \o <<mark(",")>> \o fields[2] \o <<mark(",")>> \o fields[3]

(* At most one id, anywhere among up to two other members; or no member.   *)
Texts ==
  {object(Commas(f)) :
     f \in (SeqOf(OtherFields, 2) \ {<<>>})
       \cup {<<i>> : i \in IdFields}
       \cup {<<i, o>> : i \in IdFields, o \in OtherFields}
       \cup {<<o, i>> : i \in IdFields, o \in OtherFields}
       \cup {<<o, i, p>> : i \in IdFields, o \in OtherFields, p \in OtherFields}}
  \cup {object(<<>>), object(<<mark("blank")>>)}

Answers ==
  {object(Commas(f)) :
     f \in {<<i, o>> : i \in IdFields, o \in OtherFields}
       \cup {<<o, i>> : i \in IdFields, o \in OtherFields}}
=============================================================================
