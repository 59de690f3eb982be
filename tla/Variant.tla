------------------------------- MODULE Variant -------------------------------
(***************************************************************************)
(* The polymorphic AMQP value of src/types/variant.rs and its conversions *)
(* (as_str, as_long, PartialEq<str>).  A Variant is a record of its enum   *)
(* tag and its payload; the integer payloads range over the values of the  *)
(* Rust type of the variant, and a string payload is any value of a set   *)
(* of strings.  An Option<T> is a set of at most one T: {} is None and     *)
(* {x} is Some(x).                                                         *)
(***************************************************************************)
EXTENDS Integers

(* The integer variants, the signed ones, and their widths in bits. *)
IntTags == {"Ubyte", "Ushort", "Uint", "Ulong", "Byte", "Short", "Int", "Long"}
SignedTags == {"Byte", "Short", "Int", "Long"}
Bits(t) ==
  CASE t \in {"Ubyte", "Byte"}  -> 8
    [] t \in {"Ushort", "Short"} -> 16
    [] t \in {"Uint", "Int"}    -> 32
    [] t \in {"Ulong", "Long"}  -> 64

(* Half the values of a type of the tag's width: 2^(bits - 1). *)
Half(t) == 2 ^ (Bits(t) - 1)

(* The values of the Rust integer type each integer variant holds. *)
IntRange(t) ==
  IF t \in SignedTags THEN -Half(t) .. Half(t) - 1 ELSE 0 .. 2 * Half(t) - 1

(* The variants that carry a string (Str or Symbol).  StaticSymbol also   *)
(* holds a string but is a tag of its own.                                 *)
StrTags == {"String", "Symbol"}

(* The other variants; their payloads play no part in the conversions.    *)
OtherTags == {"Null", "Boolean", "Float", "Double", "Char", "Timestamp",
              "Uuid", "Binary", "StaticSymbol", "List", "Map", "Described"}

(* The enum Variant, with string payloads drawn from S. *)
Variants(S) ==
  (UNION {[tag : {t}, val : IntRange(t)] : t \in IntTags})
    \cup [tag : StrTags, val : S]
    \cup [tag : OtherTags, val : {"payload"}]

(* Rust's `x as` a signed type of 2 * half values, from an integer type  *)
(* no wider: keep the low bits and read them as two's complement.         *)
CastSigned(x, half) == ((x + half) % (2 * half)) - half

(* impl PartialEq<str> for Variant: a String or a Symbol equal to s. *)
EqStr(v, s) == v.tag \in StrTags /\ v.val = s

(* Variant::as_str: the string of a String or a Symbol, else None. *)
AsStr(v) == IF v.tag \in StrTags THEN {v.val} ELSE {}

(* Variant::as_long: every integer variant, cast with `as i64`; None for   *)
(* the others.                                                             *)
AsLong(v) ==
  IF v.tag \in IntTags THEN {CastSigned(v.val, Half("Long"))} ELSE {}

=============================================================================
