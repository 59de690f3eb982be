---------------------------- MODULE Variant_proofs ----------------------------
(***************************************************************************)
(* What the `as` cast in Variant::as_long does, for every width of the    *)
(* target type: it keeps every value the target can hold, and turns an     *)
(* unsigned value above the target's maximum into a negative number.  For  *)
(* as_long the target is i64 (half = 2^63): a Ulong above i64::MAX comes   *)
(* back as Some of a negative number instead of None.  The width is a      *)
(* parameter because the provers do not evaluate 2^63.                     *)
(***************************************************************************)
EXTENDS Variant, TLAPS

(* The cast keeps every value of the signed target type. *)
THEOREM CastKeepsSigned ==
  ASSUME NEW half \in Nat \ {0}, NEW x \in -half .. half - 1
  PROVE  CastSigned(x, half) = x
<1>1. x + half \in 0 .. 2 * half - 1
  OBVIOUS
<1>2. (x + half) % (2 * half) = x + half
  BY <1>1
<1>3. QED
  BY <1>2 DEF CastSigned

(* An unsigned value above the signed maximum (and below 2 * half, as in  *)
(* a type of the same width) comes out of the cast as itself less         *)
(* 2 * half: a negative number.                                            *)
THEOREM CastWrapsUnsigned ==
  ASSUME NEW half \in Nat \ {0}, NEW x \in half .. 2 * half - 1
  PROVE  /\ CastSigned(x, half) = x - 2 * half
         /\ CastSigned(x, half) < 0
<1>1. x + half - 2 * half \in 0 .. 2 * half - 1
  OBVIOUS
<1>2. (x + half) % (2 * half) = x + half - 2 * half
  BY <1>1
<1>3. QED
  BY <1>2 DEF CastSigned

(* Whatever the integer, the cast lands in the signed target type. *)
THEOREM CastInSigned ==
  ASSUME NEW half \in Nat \ {0}, NEW x \in Int
  PROVE  CastSigned(x, half) \in -half .. half - 1
BY DEF CastSigned

(* An integer variant's payload lies in the range of its Rust type. *)
LEMMA IntPayload ==
  ASSUME NEW S, NEW v \in Variants(S), v.tag \in IntTags
  PROVE  v.val \in IntRange(v.tag)
<1>1. v \notin [tag : StrTags, val : S] \cup [tag : OtherTags, val : {"payload"}]
  BY DEF IntTags, StrTags, OtherTags
<1>2. v \in UNION {[tag : {t}, val : IntRange(t)] : t \in IntTags}
  BY <1>1 DEF Variants
<1>3. PICK t \in IntTags : v \in [tag : {t}, val : IntRange(t)]
  BY <1>2
<1>4. QED
  BY <1>3

(* as_long of a Ulong above i64::MAX returns Some of a negative number,   *)
(* the value less 2^64, where a checked conversion would return None.      *)
(* The hypothesis states that i64::MAX + 1 = Half("Long") = 2^63 is        *)
(* positive, which the provers cannot evaluate.                            *)
THEOREM AsLongUlongNegative ==
  ASSUME NEW S, NEW v \in Variants(S),
         v.tag = "Ulong",
         Half("Long") \in Nat \ {0},
         v.val >= Half("Long")
  PROVE  /\ AsLong(v) = {v.val - 2 * Half("Long")}
         /\ v.val - 2 * Half("Long") < 0
<1>1. Half("Ulong") = Half("Long")
  BY DEF Half, Bits
<1>2. v.val \in 0 .. 2 * Half("Long") - 1
  BY <1>1, IntPayload DEF IntRange, SignedTags, IntTags
<1>3. v.val \in Half("Long") .. 2 * Half("Long") - 1
  BY <1>2
<1>4. CastSigned(v.val, Half("Long")) = v.val - 2 * Half("Long")
      /\ v.val - 2 * Half("Long") < 0
  BY <1>3, CastWrapsUnsigned
<1>5. QED
  BY <1>4 DEF AsLong, IntTags

(* as_long of a Long is Some of the value itself. *)
THEOREM AsLongOfLong ==
  ASSUME NEW S, NEW v \in Variants(S),
         v.tag = "Long",
         Half("Long") \in Nat \ {0}
  PROVE  AsLong(v) = {v.val}
<1>1. v.val \in -Half("Long") .. Half("Long") - 1
  BY IntPayload DEF IntRange, SignedTags, IntTags
<1>2. CastSigned(v.val, Half("Long")) = v.val
  BY <1>1, CastKeepsSigned
<1>3. QED
  BY <1>2 DEF AsLong, IntTags

=============================================================================
