------------------------------- MODULE MCWal -------------------------------
(* The log with entries that fit a sector, split over two and over three,  *)
(* zero bytes in every place the reader could mistake for padding, and an  *)
(* entry that is too long to be logged.                                    *)
EXTENDS Wal

(* A one-byte write of zero at offset 0. *)
Small == [kind |-> ArenaWrite, offset |-> 0, data |-> <<0>>]

(* A key of the index: its offset is a value, not an arena extent. *)
Key == [kind |-> IndexOp, offset |-> 9, data |-> <<1, 0>>]

(* An entry longer than a sector. *)
Long == [kind |-> ArenaWrite, offset |-> 1, data |-> <<0, 2, 0, 0, 0, 3, 0>>]

(* Longer than MaxEntryLen: processDelta refuses it. *)
TooLong == [kind |-> ArenaWrite, offset |-> 0, data |-> Zeros(MaxEntryLen + 1)]

Entries3 == {Small, Key, Long}
Entries4 == {Small, Key, Long, TooLong}
SmallAndCheckpoint == {Small, Checkpoint}
KeyAndCheckpoint == {Key, Checkpoint}

=============================================================================
