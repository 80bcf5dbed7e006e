----------------------------- MODULE LayoutProofs -----------------------------
(***************************************************************************)
(* Proofs about ScanLayout for every width of a byte and of the word, 8    *)
(* bits and 8 bytes in the code among them.                                *)
(***************************************************************************)
EXTENDS ScanLayout, TLAPS

LEMMA WordPositive == WordBits \in Nat \ {0}
BY WidthAssumption DEF WordBits

\* A width that passes the checks of the storage is a number of whole bytes of
\* the word.
LEMMA WholeBytes ==
  ASSUME NEW bits \in 1..WordBits, bits % ByteBits = 0
  PROVE  /\ bits \div ByteBits \in 1..WordBytes
         /\ ByteBits * (bits \div ByteBits) = bits
<1> DEFINE bytes == bits \div ByteBits
<1>1. bytes \in Int /\ bits = (ByteBits * bytes) + (bits % ByteBits)
  BY WidthAssumption
<1>2. bits = ByteBits * bytes
  BY <1>1, WidthAssumption
<1> HIDE DEF bytes
<1>3. bytes > 0
  BY <1>1, <1>2, WidthAssumption, WordPositive
<1>4. bytes <= WordBytes
  <2> SUFFICES ASSUME bytes >= WordBytes + 1 PROVE FALSE
    BY <1>1, WidthAssumption
  <2>1. ByteBits * bytes >= ByteBits * (WordBytes + 1)
    BY <1>1, WidthAssumption
  <2> QED
    BY <1>1, <1>2, <2>1, WidthAssumption DEF WordBits
<1> QED
  BY <1>1, <1>2, <1>3, <1>4, WidthAssumption DEF bytes

\* A shift by less than the width of the word is made in full, in a release
\* build as in a debug build.
LEMMA ShortShift ==
  ASSUME NEW n \in 0..(WordBits - 1)
  PROVE  n % WordBits = n
BY WordPositive

\* No layout that parse lets through makes decode slice its eight bytes out of
\* bounds (padded[..width], padded[8 - width..]), lose bits of the storage, or
\* shift a word by its width or more: `>> shift`, `1 << (real_bits - 1)`, and
\* `1 << real_bits` where the mask is not the whole word.  A shift by more
\* would panic in a debug build and wrap in a release build.
THEOREM AcceptedLayoutsFit ==
  ASSUME NEW t \in Text, Accepts(t), NEW s, s = Parsed(t)
  PROVE  /\ StorageBytes(s) \in 1..WordBytes
         /\ WordBytes - StorageBytes(s) \in 0..(WordBytes - 1)
         /\ ByteBits * StorageBytes(s) = s.storage_bits
         /\ s.shift % WordBits = s.shift
         /\ (s.real_bits - 1) % WordBits = s.real_bits - 1
         /\ s.real_bits # WordBits => s.real_bits % WordBits = s.real_bits
<1>1. /\ s.storage_bits = t.storage /\ s.real_bits = t.real
      /\ s.shift = t.shift
  BY DEF Parsed
<1>2. /\ t.storage \in 1..WordBits /\ t.storage % ByteBits = 0
      /\ t.real \in 1..t.storage
      /\ t.shift \in Nat /\ t.shift < t.storage
  BY WordPositive DEF Accepts, Text, Widths
<1>3. /\ StorageBytes(s) \in 1..WordBytes
      /\ ByteBits * StorageBytes(s) = s.storage_bits
  BY <1>1, <1>2, WholeBytes DEF StorageBytes
<1>4. /\ s.shift \in 0..(WordBits - 1) /\ s.real_bits - 1 \in 0..(WordBits - 1)
      /\ s.real_bits # WordBits => s.real_bits \in 0..(WordBits - 1)
  BY <1>1, <1>2, WordPositive
<1>5. WordBytes - StorageBytes(s) \in 0..(WordBytes - 1)
  BY <1>3, WidthAssumption
<1> QED
  BY <1>3, <1>4, <1>5, ShortShift
=============================================================================
