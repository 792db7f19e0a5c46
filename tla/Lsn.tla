--------------------------------- MODULE Lsn ---------------------------------
(***************************************************************************)
(* internal/lsn: log sequence numbers, written as two hex halves "X/Y".    *)
(* An LSN is the pair of its halves; a text that Parse rejects (no slash,  *)
(* an empty half, no hex digits, a half beyond 32 bits) is NoLsn.          *)
(***************************************************************************)
EXTENDS Integers

CONSTANTS
  Half,     \* the number of values of a half, 2^32 in the code
  NoLsn     \* a text that is no LSN

ASSUME HalfAssumption == Half \in Nat \ {0}
ASSUME NoLsnAssumption == NoLsn \notin [hi : 0..(Half - 1), lo : 0..(Half - 1)]

Lsns == [hi : 0..(Half - 1), lo : 0..(Half - 1)]

Zero == [hi |-> 0, lo |-> 0]

\* The order of log positions: what the comparison of the code has to be.
Precedes(a, b) == a.hi < b.hi \/ (a.hi = b.hi /\ a.lo < b.lo)

\* Mutant: the high half is shifted out.
ParseLow(s) == s.lo

\* (h << 32) | l: the halves do not overlap, so the bitwise or is a sum.
Parse(s) == s.hi * Half + s.lo

AtLeast(a, b) == Parse(a) >= Parse(b)
=============================================================================
