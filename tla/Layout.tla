------------------------------- MODULE Layout -------------------------------
(***************************************************************************)
(* The geometry of the shared arena as the TypeScript client sees it: the  *)
(* region table in the segment's header (client/layout.ts) and the byte    *)
(* offsets a record schema compiles to (client/schema.ts).                 *)
(***************************************************************************)
EXTENDS Integers, Sequences

CONSTANTS
    RingOffset,    \* first byte of the ring
    RingHeader,    \* bytes of the ring's header
    SlotBytes,     \* bytes of one ring slot and its sequence word
    MinCapacity,   \* smallest ring
    HeaderBytes,   \* bytes of the segment's header
    SpokenVersion  \* layouts older than this one are refused

Unit == 8          \* RECORD_ALIGNMENT, and the width of a bump word

ASSUME LayoutAssumption ==
    /\ RingOffset \in Nat /\ RingHeader \in Nat /\ SlotBytes \in Nat
    /\ MinCapacity \in Nat \ {0} /\ SpokenVersion \in Nat
    /\ HeaderBytes \in Nat /\ HeaderBytes <= RingOffset

Regions == [arenaBytes : Nat, ringCapacity : Nat, recordStart : Nat, recordBytes : Nat,
            artRoot : Nat, artBytes : Nat, stringStart : Nat, stringBytes : Nat]

-----------------------------------------------------------------------------
(* The region table. *)

ringBytes(capacity) == RingHeader + capacity * SlotBytes

recordBumpOffset(r) == RingOffset + ringBytes(r.ringCapacity)

stringDataStart(r) == r.stringStart + 8

recordEnd(r) == r.recordStart + r.recordBytes

stringEnd(r) == r.stringStart + r.stringBytes

IsPowerOfTwo(n) == \E k \in 0 .. n : 2 ^ k = n

\* What readRegions answers for a mapping: the table, or a refusal.
readRegions(seg) ==
    /\ seg.mapped >= HeaderBytes
    /\ seg.magic
    /\ seg.version >= SpokenVersion

validateRegions_NoArtCheck(r, mapped) ==
    /\ r.arenaBytes = mapped /\ r.ringCapacity >= MinCapacity /\ IsPowerOfTwo(r.ringCapacity)
    /\ r.recordStart >= recordBumpOffset(r) + 8
    /\ r.artRoot % 8 = 0 /\ r.artRoot + r.artBytes <= r.stringStart
    /\ r.stringBytes >= 8 /\ stringEnd(r) <= r.arenaBytes

validateRegions(r, mapped) ==
    /\ mapped >= HeaderBytes
    /\ r.arenaBytes = mapped
    /\ r.ringCapacity >= MinCapacity
    /\ IsPowerOfTwo(r.ringCapacity)
    /\ r.recordStart >= recordBumpOffset(r) + 8
    /\ recordEnd(r) <= r.artRoot
    /\ r.artRoot % 8 = 0
    /\ r.artRoot + r.artBytes <= r.stringStart
    /\ r.stringBytes >= 8
    /\ stringEnd(r) <= r.arenaBytes

\* The spans a client writes in: the ring, the record bump word and the
\* records, the index with its two words, the string bump word, the strings.
Spans(r) ==
    << [lo |-> RingOffset,             hi |-> recordBumpOffset(r)],
       [lo |-> r.recordStart - 8,      hi |-> r.recordStart],
       [lo |-> r.recordStart,          hi |-> recordEnd(r)],
       [lo |-> r.artRoot,              hi |-> r.artRoot + r.artBytes],
       [lo |-> r.stringStart,          hi |-> stringDataStart(r)],
       [lo |-> stringDataStart(r),     hi |-> stringEnd(r)] >>

Apart(a, b) == a.hi <= b.lo \/ b.hi <= a.lo

-----------------------------------------------------------------------------
(* Record schemas. *)

FieldType == {"uint8", "uint32", "float64", "string"}

fieldSize(type) == CASE type = "uint8" -> 1 [] type = "uint32" -> 4 [] OTHER -> 8

\* Every type is aligned to its own width.
fieldAlign(type) == fieldSize(type)

alignUp(value, align) == ((value + align - 1) \div align) * align

\* fieldOffset(types)[i]: where the i-th declared field starts.
fieldOffset(types) ==
    LET at[i \in 1 .. Len(types)] ==
          IF i = 1 THEN 0
          ELSE alignUp(at[i - 1] + fieldSize(types[i - 1]), fieldAlign(types[i]))
    IN  at

totalSize(types) ==
    alignUp(fieldOffset(types)[Len(types)] + fieldSize(types[Len(types)]), Unit)

=============================================================================
