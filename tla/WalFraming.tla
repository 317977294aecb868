----------------------------- MODULE WalFraming -----------------------------
(***************************************************************************)
(* The on-disk framing of the write-ahead log: how wal.zig lays entries    *)
(* out in sectors and how recovery.zig reads them back.                    *)
(*                                                                         *)
(* The format is scaled down, byte for byte, and nothing else: a header    *)
(* has 3 bytes (offset, length, kind) instead of 8, a sector SectorPayload *)
(* bytes instead of 4092.  A misaligned reader therefore misreads real     *)
(* bytes here as it does in the code.  Byte 0 is padding.  The checksum of *)
(* a sector is modelled by whether it matches.                             *)
(***************************************************************************)
EXTENDS Naturals, SequencesExt

CONSTANTS
    SectorPayload,  \* SECTOR_PAYLOAD: payload bytes of a sector
    MaxEntryLen,    \* MAX_ENTRY_LEN
    ArenaLen        \* arena_mem.len

ASSUME FramingAssumption ==
    /\ SectorPayload \in Nat
    /\ SectorPayload > 0
    /\ MaxEntryLen \in Nat
    /\ ArenaLen \in Nat

(* @sizeOf(WalEntryHeader), and MIN_PADDING, which is defined from it. *)
HeaderSize == 3
MinPadding == HeaderSize

(* EntryKind. *)
ArenaWrite == 0
IndexOp == 1
MaxEntryKind == IndexOp

(* One entry: its header, then its payload. *)
Encode(e) == <<e.offset, Len(e.data), e.kind>> \o e.data

(* A sector on disk. *)
Sector == [payload : Seq(Nat), crc_ok : BOOLEAN]

Zeros(n) == [i \in 1 .. n |-> 0]

(* The sector flushBufferWith writes: the buffered bytes, zero padded,     *)
(* under a checksum.                                                       *)
Padded(bytes) ==
    [payload |-> bytes \o Zeros(SectorPayload - Len(bytes)), crc_ok |-> TRUE]

Torn(sector) == [sector EXCEPT !.crc_ok = FALSE]

-----------------------------------------------------------------------------
(* Reading *)

(* Mutant of CarryTail: an all-zero tail is always taken to be padding.    *)
CarryTail_ZerosArePadding(stop, tail) ==
    IF Len(tail) > MaxEntryLen + HeaderSize THEN <<>>
    ELSE IF \A i \in DOMAIN tail : tail[i] = 0 THEN <<>>
    ELSE tail

(* Which bytes at the end of a sector begin an entry that goes on in the   *)
(* next one.                                                               *)
CarryTail(stop, tail) ==
    IF \/ Len(tail) > MaxEntryLen + HeaderSize
       \/ /\ Len(tail) >= MinPadding
          /\ stop = "at_boundary"
          /\ \A i \in DOMAIN tail : tail[i] = 0
    THEN <<>>
    ELSE tail

(* The header at a cursor, and the entry it announces. *)
HeaderAt(stream, cursor) ==
    [offset |-> stream[cursor], length |-> stream[cursor + 1], kind |-> stream[cursor + 2]]

SizeAt(stream, cursor) == HeaderSize + HeaderAt(stream, cursor).length

EntryAt(stream, cursor) ==
    [kind |-> HeaderAt(stream, cursor).kind, offset |-> HeaderAt(stream, cursor).offset,
     data |-> SubSeq(stream, cursor + HeaderSize, cursor + SizeAt(stream, cursor) - 1)]

(* What the scan finds at a cursor: a whole entry, or why it stops there.  *)
FoundAt(stream, cursor) ==
    LET available == Len(stream) - cursor + 1
        header == HeaderAt(stream, cursor)
    IN  IF available = 0 THEN "end"
        ELSE IF available < HeaderSize THEN "at_boundary"
        ELSE IF header.length = 0 THEN "padding"
        ELSE IF header.length > MaxEntryLen THEN "bad_length"
        ELSE IF header.kind > MaxEntryKind THEN "unknown_kind"
        ELSE IF available < HeaderSize + header.length THEN "mid_entry"
        ELSE IF header.kind = ArenaWrite /\ header.offset + header.length > ArenaLen
             THEN "out_of_arena"
        ELSE "entry"

(* Where the scan stops it carries the tail, or nothing. *)
Stop(stream, cursor) ==
    LET found == FoundAt(stream, cursor)
        tail == SubSeq(stream, cursor, Len(stream))
    IN  [entries |-> <<>>,
         carry |-> IF found \in {"end", "padding", "out_of_arena"} THEN <<>>
                   ELSE CarryTail(found, tail)]

(* The scan of one sector, the carried bytes of the previous one in front: *)
(* the entries it applies and the bytes it carries, from every cursor.     *)
ScanFrom(stream) ==
    LET scan[cursor \in 1 .. Len(stream) + 1] ==
            IF FoundAt(stream, cursor) = "entry"
            THEN LET next == scan[cursor + SizeAt(stream, cursor)]
                 IN  [entries |-> <<EntryAt(stream, cursor)>> \o next.entries, carry |-> next.carry]
            ELSE Stop(stream, cursor)
    IN  scan

ScanSector(stream) == ScanFrom(stream)[1]

(* replayOneSegment: what the reader has after each sector of a file, up   *)
(* to the first bad one.  The carry starts empty in every file.            *)
Unread == [entries |-> <<>>, carry |-> <<>>, stopped |-> FALSE]

ReadSector(state, sector) ==
    LET scan == ScanSector(state.carry \o sector.payload)
    IN  IF state.stopped \/ ~sector.crc_ok THEN [state EXCEPT !.stopped = TRUE]
        ELSE [entries |-> state.entries \o scan.entries, carry |-> scan.carry, stopped |-> FALSE]

ReadStates(sectors) ==
    LET read[n \in 0 .. Len(sectors)] ==
            IF n = 0 THEN Unread ELSE ReadSector(read[n - 1], sectors[n])
    IN  read

ReplayFile(sectors) == ReadStates(sectors)[Len(sectors)].entries

=============================================================================
