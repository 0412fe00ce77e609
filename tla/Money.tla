-------------------------------- MODULE Money --------------------------------
(***************************************************************************)
(* Checked arithmetic on minor units (internal/domain/money/money.go).     *)
(*                                                                         *)
(* An amount is a bounded signed integer.  The Go code uses int64; here    *)
(* the two ends of the range are constants, so that TLC can put the        *)
(* boundary where small amounts meet it and TLAPS can reason about every   *)
(* width.  An operation that may overflow answers a record whose field ok  *)
(* is FALSE where the code returns ErrOverflow.                            *)
(***************************************************************************)
EXTENDS Integers

CONSTANTS
  MinMinor,   \* minInt64
  MaxMinor    \* maxInt64

\* Two's complement: the range has one more negative than positive number.
ASSUME MinorRangeAssumption ==
  /\ MaxMinor \in Nat \ {0}
  /\ MinMinor = -MaxMinor - 1

Minor == MinMinor .. MaxMinor

Overflow == [ok |-> FALSE, value |-> 0]
Exactly(n) == [ok |-> TRUE, value |-> n]

IsPositive(a) == a > 0
IsZero(a) == a = 0

(* The guards are the code's: they bound one operand by a difference that  *)
(* cannot itself leave the range.                                          *)
AddChecked(a, b) ==
  IF \/ b > 0 /\ a > MaxMinor - b
     \/ b < 0 /\ a < MinMinor - b
  THEN Overflow
  ELSE Exactly(a + b)

SubChecked(a, b) ==
  IF \/ b > 0 /\ a < MinMinor + b
     \/ b < 0 /\ a > MaxMinor + b
  THEN Overflow
  ELSE Exactly(a - b)
=============================================================================
