-------------------------------- MODULE Affine --------------------------------
(***************************************************************************)
(* The merge operator of the conformance scenarios (conf_model.h 75-132,   *)
(* conf_model.cc 25-99).  An operand <<a, b>> is the map x -> a*x + b      *)
(* modulo the Mersenne number P, 2^61 - 1 in the code.  A value is what    *)
(* the operator sees of it: the number x it starts from (the hash of a     *)
(* plain value, the number written in a merged one) and its length.        *)
(***************************************************************************)
EXTENDS Integers, Sequences, SequencesExt

CONSTANTS
  P,       \* kAffineP
  Digits   \* length of a merged value without padding

ASSUME AffineAssumption == P \in Nat \ {0} /\ Digits \in Nat

Operands == (0 .. P - 1) \X (0 .. P - 1)

\* The product is folded at bit 61; both summands stay within the word.
AffineMul(a, b) ==
  LET r == a * b
      s == (r % (P + 1)) + (r \div (P + 1))
  IN  IF s >= P THEN s - P ELSE s

AffineAdd(a, b) == IF a + b >= P THEN a + b - P ELSE a + b

Plain(x, len) == [x |-> x, len |-> len, merged |-> FALSE]

\* AffineMerged: the number in Digits places, padded to the length below it.
AffineMerged(x, len) ==
  [x |-> x, len |-> IF len > Digits THEN len ELSE Digits, merged |-> TRUE]

AffineApply(x, operand) == AffineAdd(AffineMul(operand[1], x), operand[2])

\* The operands applied to x, the oldest first.
Applied(x, operands) ==
  LET After[i \in 0 .. Len(operands)] ==
        IF i = 0 THEN x ELSE AffineApply(After[i - 1], operands[i])
  IN  After[Len(operands)]

\* FullMerge: `base` is <<>> or <<value>>; with no value underneath x is the
\* hash of the key and there is no length to keep.
AffineFullMerge(keyHash, base, operands) ==
  AffineMerged(
    Applied(IF base = <<>> THEN keyHash ELSE base[1].x, operands),
    IF base = <<>> THEN 0 ELSE base[1].len)

\* Mutant: the operands composed in the wrong order.
PartialMergeSwapped(left, right) ==
  <<AffineMul(left[1], right[1]),
    AffineAdd(AffineMul(left[1], right[2]), left[2])>>

\* PartialMerge: left first, then right.
PartialMerge(left, right) ==
  <<AffineMul(right[1], left[1]),
    AffineAdd(AffineMul(right[1], left[2]), right[2])>>

\* The ways in which a store may come to the value of a base and the operands
\* on top of it: at once, with two neighbours composed before, or with the
\* oldest operands folded into the base before the others.
Foldings(keyHash, base, operands) ==
  {AffineFullMerge(keyHash, base, operands)}
    \cup {AffineFullMerge(keyHash, base,
            SubSeq(operands, 1, i - 1)
              \o <<PartialMerge(operands[i], operands[i + 1])>>
              \o SubSeq(operands, i + 2, Len(operands))) :
            i \in 1 .. Len(operands) - 1}
    \cup {AffineFullMerge(keyHash,
            <<AffineFullMerge(keyHash, base, SubSeq(operands, 1, i))>>,
            SubSeq(operands, i + 1, Len(operands))) :
            i \in 1 .. Len(operands) - 1}
===============================================================================
