------------------------------- MODULE Limits -------------------------------
(***************************************************************************)
(* The bounded numbers of limit.rs, with the constants of limits.rs: the   *)
(* offset and the count of a limit, and the index of a path step.  Each is *)
(* a machine word checked once, on construction, by the rule Within.       *)
(***************************************************************************)
EXTENDS Schemas

CONSTANTS
  WordSize,      \* the number of values of a u64: 2^64 in the crate
  MaxPathIndex   \* MAX_PATH_INDEX: 65536 in the crate

ASSUME WordAssumption == WordSize \in Nat \ {0} /\ MaxPathIndex \in Nat

Word == 0..(WordSize - 1)

(***************************************************************************)
(* MAX_OFFSET and MAX_LIMIT_COUNT are half of the largest word, so that    *)
(* the end of a window is a word too.                                      *)
(***************************************************************************)
MaxOffset == (WordSize - 1) \div 2

MaxLimitCount == (WordSize - 1) \div 2

-----------------------------------------------------------------------------

Within(raw, max) == IF raw <= max THEN Ok(raw) ELSE Err([k |-> "OutOfRange"])

\* A wrong OffsetTryNew: any word is an offset.
OffsetUnbounded(raw) == Ok(raw)

OffsetTryNew(raw) == Within(raw, MaxOffset)

Unbounded == [k |-> "Unbounded"]

LimitCountBounded(raw) ==
  LET within == Within(raw, MaxLimitCount)
  IN  IF within.ok THEN Ok([k |-> "Bounded", n |-> raw]) ELSE within

BoundedIndexTryNew(raw) == Within(raw, MaxPathIndex)
============================================================================
