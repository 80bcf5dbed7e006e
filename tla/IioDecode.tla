------------------------------ MODULE IioDecode ------------------------------
(***************************************************************************)
(* The samples of the sensor (src/src/iio.rs, ScanType::decode): every     *)
(* sample of the buffer is decoded by the layout that ScanLayout parses.   *)
(* The Bitwise operators are recursive, so this module is for TLC only.    *)
(***************************************************************************)
EXTENDS ScanLayout, Sequences, SequencesExt, Bitwise

VARIABLES
  phase,   \* where the reader is
  text,    \* the layout as sysfs describes it
  scan,    \* the ScanType once parsed
  word,    \* the storage word the driver has written
  sample,  \* its bytes as read from the device
  value    \* the value of the last sample

vars == <<phase, text, scan, word, sample, value>>

NoScan   == [little_endian |-> TRUE, signed |-> FALSE, real_bits |-> 0,
             storage_bits |-> 0, shift |-> 0]
Byte     == 0..(2^ByteBits - 1)
IntRange == -(2^(IntBits - 1))..(2^(IntBits - 1) - 1)

TypeOK ==
  /\ phase \in {"discover", "rejected", "poll", "decode", "decoded",
                "unfit", "failed"}
  /\ text \in Text /\ scan \in ScanType
  /\ word \in 0..(2^WordBits - 1)
  /\ sample \in Seq(Byte) /\ Len(sample) <= WordBytes
  /\ value \in IntRange

-----------------------------------------------------------------------------
(* ScanType::decode *)

\* u64::from_le_bytes
FromLE(bytes) ==
  FoldLeftDomain(LAMBDA sum, i : sum + bytes[i] * 2^(ByteBits * (i - 1)),
                 0, bytes)

Zeros(n) == [i \in 1..n |-> 0]

\* Slip: both byte orders are padded at the end.
StoragePaddedLast(s, bytes) ==
  LET padded == bytes \o Zeros(WordBytes - StorageBytes(s))
  IN IF s.little_endian THEN FromLE(padded) ELSE FromLE(Reverse(padded))

\* The word: zeros fill the bytes of higher weight.
Storage(s, bytes) ==
  LET zeros == Zeros(WordBytes - StorageBytes(s))
  IN IF s.little_endian THEN FromLE(bytes \o zeros)
                        ELSE FromLE(Reverse(zeros \o bytes))

MaxWord == 2^WordBits - 1

\* A release build takes the amount of a shift modulo the width of the word; a
\* debug build panics where that makes a difference.
ShiftLeft(x, n)  == (x * 2^(n % WordBits)) % 2^WordBits
ShiftRight(x, n) == x \div 2^(n % WordBits)

Mask(s) == IF s.real_bits = WordBits THEN MaxWord ELSE ShiftLeft(1, s.real_bits) - 1

AsSigned(x) == IF x < 2^(WordBits - 1) THEN x ELSE x - 2^WordBits

\* The number that must fit in an i32.
Decoded(s, bytes) ==
  LET mask == Mask(s)
      v    == ShiftRight(Storage(s, bytes), s.shift) & mask
      sign == ShiftLeft(1, s.real_bits - 1)
  IN IF ~s.signed THEN v
     ELSE IF v & sign # 0 THEN AsSigned(v | (MaxWord - mask)) ELSE AsSigned(v)

\* Slip: the result is not checked against the range of an i32.
FitsAnyway(n) == TRUE

Fits(n) == n \in IntRange

-----------------------------------------------------------------------------
(* The driver *)

\* Little endian bytes of the storage word.
Bytes(s, w) == [i \in 1..StorageBytes(s) |->
                  (w \div 2^(ByteBits * (i - 1))) % 2^ByteBits]

\* A measurement: any storage word, in the byte order of the layout, the bits
\* outside of the field included.
Measure ==
  /\ phase = "poll"
  /\ word' \in 0..(2^scan.storage_bits - 1)
  /\ sample' = IF scan.little_endian THEN Bytes(scan, word')
                                     ELSE Reverse(Bytes(scan, word'))
  /\ phase' = "decode"
  /\ UNCHANGED <<text, scan, value>>

-----------------------------------------------------------------------------
(* The reader *)

Init ==
  /\ phase = "discover" /\ text \in Text /\ scan = NoScan
  /\ word = 0 /\ sample = <<>> /\ value = 0

Parse ==
  /\ phase = "discover" /\ Accepts(text)
  /\ scan' = Parsed(text)
  /\ phase' = "poll"
  /\ UNCHANGED <<text, word, sample, value>>

ParseFails ==
  /\ phase = "discover" /\ ~Accepts(text)
  /\ phase' = "rejected"
  /\ UNCHANGED <<text, scan, word, sample, value>>

Decode ==
  /\ phase = "decode" /\ Fits(Decoded(scan, sample))
  /\ value' = Decoded(scan, sample)
  /\ phase' = "decoded"
  /\ UNCHANGED <<text, scan, word, sample>>

\* The value is sent, and the reader waits for the next sample, which will
\* overwrite the bytes.
Send ==
  /\ phase = "decoded"
  /\ phase' = "poll"
  /\ word' = 0 /\ sample' = <<>> /\ value' = 0
  /\ UNCHANGED <<text, scan>>

\* The reader hands the error on and ends.
DecodeFails ==
  /\ phase = "decode" /\ ~Fits(Decoded(scan, sample))
  /\ phase' = "unfit"
  /\ UNCHANGED <<text, scan, word, sample, value>>

\* A short read: nothing is decoded.
ReadFails ==
  /\ phase = "decode"
  /\ phase' = "failed"
  /\ UNCHANGED <<text, scan, word, sample, value>>

Next ==
  \/ Parse \/ ParseFails \/ Measure
  \/ Decode \/ Send \/ DecodeFails \/ ReadFails

Spec == Init /\ [][Next]_vars

-----------------------------------------------------------------------------
(* Properties *)

\* The layout's meaning, bit by bit: bit `shift` of the storage word weighs 1,
\* the top bit of a signed field weighs negative, and bits that the storage
\* does not have are zero.
Bit(w, k) == (w \div 2^k) % 2

Weight(t, i) == IF t.sign = "s" /\ i = t.real - 1 THEN -(2^i) ELSE 2^i

Meaning(t, w) ==
  FoldLeft(LAMBDA sum, i : sum + Weight(t, i - 1) * Bit(w, t.shift + i - 1),
           0, [i \in 1..t.real |-> i])

\* Decoding gives the number the driver put into the field, for every byte
\* order, sign, width, shift and whatever bits surround the field, and it
\* fails exactly when that number is no i32: the samples of the buffer and the
\* text of in_proximity0_raw, parsed as an i32 at the start of the daemon,
\* are classified alike.  In particular no layout that parse lets through
\* makes a shift of decode reach the width of its word.
SampleIsMeaning ==
  /\ phase = "decoded" => value = Meaning(text, word)
  /\ phase = "unfit"   => Meaning(text, word) \notin IntRange
=============================================================================
