------------------------------- MODULE WhsCaps -------------------------------
(***************************************************************************)
(* Truncation and the caps of apps/api/src/application/whs-calculation.ts, *)
(* which the calculation and the player's index share.  An index is an     *)
(* integer, in tenths of a stroke; the code's doubles are not modelled.    *)
(***************************************************************************)
EXTENDS Integers

CONSTANT NULL

\* Mutant: the sign of a plus player's number is lost.
TruncateMagnitude(n, d) == IF n >= 0 THEN n \div d ELSE (-n) \div d

\* truncateToDecimals: n / d, toward zero.
Truncate(n, d) == IF n >= 0 THEN n \div d ELSE -((-n) \div d)

SoftCap == 30
HardCap == 50

Lesser(a, b) == IF a > b THEN b ELSE a

\* Mutant: no hard cap.
SoftCapOnly(raw, low) ==
  IF low # NULL /\ raw > low + SoftCap THEN Truncate(low + SoftCap + raw, 2) ELSE raw

\* applyWhsCaps: a player without a Low Handicap Index has nothing to exceed;
\* half of what is above the soft threshold counts, up to the hard one.
applyWhsCaps(raw, low) ==
  LET soft     == low + SoftCap
      softened == IF raw > soft THEN Truncate(soft + raw, 2) ELSE raw
  IN IF low = NULL THEN raw ELSE Lesser(softened, low + HardCap)
==============================================================================
