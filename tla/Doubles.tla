------------------------------ MODULE Doubles ------------------------------
(***************************************************************************)
(* Numbers as encoding/json reads them when it is not told otherwise: into *)
(* a float64.  A number is an integer and a part, what it has beyond that  *)
(* integer: half of one, or so little above it ("low") or below the next   *)
(* one ("high") that no float64 is in between.                             *)
(***************************************************************************)
EXTENDS Integers

CONSTANT MaxExact  \* 2^53: every integer up to it is a float64

ASSUME DoublesAssumption == MaxExact \in Nat

Even(n) == n % 2 = 0

Parts == {"none", "low", "half", "high"}

\* Beyond MaxExact every second integer is representable, and a tie goes to
\* the multiple of four.  Enough for numbers up to 2 * MaxExact.
Float64(n) ==
  IF n \in -MaxExact..MaxExact \/ Even(n) THEN n
  ELSE IF (n - 1) % 4 = 0 THEN n - 1 ELSE n + 1

\* Halves are representable below 2^52.
StaysHalf(n, part) == part = "half" /\ -MaxExact <= 2 * n /\ 2 * (n + 1) <= MaxExact

\* The float64 nearest to n and a part, when it is an integer.
Nearest(n, part) ==
  IF part = "none" THEN Float64(n)
  ELSE IF part = "half" \/ n \notin -MaxExact..(MaxExact - 1)
  THEN IF Even(n) THEN n ELSE n + 1
  ELSE IF part = "low" THEN n ELSE n + 1
=============================================================================
