---------------------------- MODULE Identifiers ----------------------------
(***************************************************************************)
(* The lexical rules of identifier.rs.  A string is a sequence of          *)
(* characters, of which only the class matters.  The rules LenChars,       *)
(* EachChar and FirstChar come from the external crate whittle and are     *)
(* applied in this order; lengths are counted in characters.               *)
(***************************************************************************)
EXTENDS Schemas

CONSTANTS
  Letters,              \* ASCII letters and the underscore
  Digits,               \* ASCII digits
  MaxAttributeNameLen,  \* MAX_ATTRIBUTE_NAME_LEN: 64 in the crate
  MaxTableNameLen       \* MAX_TABLE_NAME_LEN: 128 in the crate

ASSUME IdentifierAssumption ==
  /\ Letters \cap Digits = {}
  /\ MaxAttributeNameLen \in Nat
  /\ MaxTableNameLen \in Nat

LenChars(raw, max) ==
  IF Len(raw) \in 1..max THEN Ok(raw) ELSE Err([k |-> "Length", actual |-> Len(raw)])

-----------------------------------------------------------------------------

IdentChar == Letters \cup Digits

(***************************************************************************)
(* AttributeName: EachChar walks every character, the first one included,  *)
(* so that only a leading digit is left for FirstChar to refuse.  The byte *)
(* offset it reports is the number of characters before the bad one: they  *)
(* are ASCII.                                                              *)
(***************************************************************************)
\* A wrong EachChar: the walk goes on and reports the last bad character.
EachCharLast(raw) ==
  LET bad == SelectLastInSeq(raw, LAMBDA c : c \notin IdentChar)
  IN  IF bad = 0 THEN Ok(raw) ELSE Err([k |-> "BodyChar", offset |-> bad - 1])

EachChar(raw) ==
  LET bad == SelectInSeq(raw, LAMBDA c : c \notin IdentChar)
  IN  IF bad = 0 THEN Ok(raw) ELSE Err([k |-> "BodyChar", offset |-> bad - 1])

\* A wrong FirstChar: what may follow may also begin.
FirstCharAny(raw) == IF raw[1] \in IdentChar THEN Ok(raw) ELSE Err([k |-> "FirstChar"])

FirstChar(raw) == IF raw[1] \in Letters THEN Ok(raw) ELSE Err([k |-> "FirstChar"])

AttributeNameTryNew(raw) ==
  Then(LenChars(raw, MaxAttributeNameLen), LAMBDA r : Then(EachChar(r), FirstChar))

TableNameTryNew(raw) == LenChars(raw, MaxTableNameLen)
============================================================================
