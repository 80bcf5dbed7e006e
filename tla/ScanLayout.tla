------------------------------ MODULE ScanLayout ------------------------------
(***************************************************************************)
(* The scan layout of the sensor (src/src/iio.rs, ScanType): what the      *)
(* kernel describes in scan_elements/in_proximity0_type is parsed once.    *)
(* Widths are parameters: a byte of 8 bits, a u64 of 8 bytes and an i32 in *)
(* the code.                                                               *)
(***************************************************************************)
EXTENDS Integers

CONSTANTS
  ByteBits,    \* bits of a byte
  WordBytes,   \* bytes of the word a sample is decoded in (u64)
  IntBits      \* bits of the result (i32)

WordBits == ByteBits * WordBytes

ASSUME WidthAssumption ==
  /\ ByteBits \in Nat \ {0} /\ WordBytes \in Nat \ {0}
  /\ IntBits \in 1..WordBits

\* "other" stands for a part that is missing or not understood; numbers that
\* are no u8 are among the widths too large for the word.
Widths == 0..(WordBits + 1)
Text == [endian : {"le", "be", "other"}, sign : {"s", "u", "other"},
         real : Widths, storage : Widths, shift : Widths]

ScanType == [little_endian : BOOLEAN, signed : BOOLEAN, real_bits : Widths,
             storage_bits : Widths, shift : Widths]

-----------------------------------------------------------------------------
(* ScanType::parse *)

\* A field may reach beyond the storage: real + shift is not compared.
Accepts(t) ==
  /\ t.endian \in {"le", "be"} /\ t.sign \in {"s", "u"}
  /\ t.storage \in 1..WordBits /\ t.storage % ByteBits = 0
  /\ t.real \in 1..t.storage /\ t.shift < t.storage

Parsed(t) ==
  [little_endian |-> t.endian = "le", signed |-> t.sign = "s",
   real_bits |-> t.real, storage_bits |-> t.storage, shift |-> t.shift]

StorageBytes(s) == s.storage_bits \div ByteBits
=============================================================================
