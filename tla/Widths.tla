------------------------------- MODULE Widths --------------------------------
(***************************************************************************)
(* The unsigned integers of the Rust core, and its addition on them.       *)
(***************************************************************************)
EXTENDS Integers

CONSTANTS AttemptMax,   \* u8::MAX, the largest attempt number
          U64Max        \* u64::MAX, the longest delay in milliseconds

\* Instances may narrow the types, never widen a u8.
ASSUME WidthsAssumption == AttemptMax \in 1..255 /\ U64Max \in Nat \ {0}

UncheckedAdd(x, y, top) == x + y                          \* mutant
WrappingAdd(x, y, top) == (x + y) % (top + 1)             \* mutant
\* saturating_add of the type whose largest value is top.
SaturatingAdd(x, y, top) == IF x + y > top THEN top ELSE x + y
=============================================================================
