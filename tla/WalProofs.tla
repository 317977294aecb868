----------------------------- MODULE WalProofs -----------------------------
(* The theorems about Wal, for any set of deltas, any size of the ring, of *)
(* a sector and of a segment, with and without failing I/O.                *)
EXTENDS Wal, FiniteSetTheorems, SequenceTheorems, TLAPS

(* firstFreeSegment answers a segment number or the cap. *)
LEMMA FirstFreeType ==
    ASSUME NEW segments
    PROVE  FirstFree(segments) \in 0 .. MaxSegments
<1> DEFINE free == { n \in 0 .. MaxSegments - 1 : \A m \in 0 .. n : segments[m] # NoFile }
<1>1. /\ IsFiniteSet(0 .. MaxSegments - 1)
      /\ Cardinality(0 .. MaxSegments - 1) = MaxSegments
  BY FS_Interval, WalAssumption
<1>2. /\ IsFiniteSet(free)
      /\ Cardinality(free) <= Cardinality(0 .. MaxSegments - 1)
  BY <1>1, FS_Subset
<1>3. Cardinality(free) \in Nat
  BY <1>2, FS_CardinalityType
<1> QED
  BY <1>1, <1>2, <1>3, WalAssumption DEF FirstFree

(* What processDelta buffers for a delta is a sequence of bytes. *)
LEMMA EncodeType ==
    ASSUME NEW d \in Deltas
    PROVE  Encode(d) \in Seq(Nat)
<1>1. d \in [kind : Nat, offset : Nat, data : Seq(Nat)]
  BY DeltasAssumption
<1>2. <<d.offset, Len(d.data), d.kind>> \in Seq(Nat)
  BY <1>1
<1> QED
  BY <1>1, <1>2 DEF Encode

(* The sector that is written is one. *)
LEMMA PaddedType ==
    ASSUME NEW bytes \in Seq(Nat), Len(bytes) <= SectorPayload
    PROVE  Padded(bytes) \in Sector
<1>1. SectorPayload - Len(bytes) \in Nat
  BY FramingAssumption
<1>2. Zeros(SectorPayload - Len(bytes)) \in Seq(Nat)
  BY <1>1 DEF Zeros
<1> QED
  BY <1>2 DEF Padded, Sector

(* Cutting a sequence of bytes, as writeToBuffer does. *)
LEMMA CutSequence ==
    ASSUME NEW s \in Seq(Nat), NEW n \in 0 .. Len(s)
    PROVE  /\ SubSeq(s, 1, n) \in Seq(Nat)
           /\ Len(SubSeq(s, 1, n)) = n
           /\ SubSeq(s, n + 1, Len(s)) \in Seq(Nat)
<1>1. \A i \in 1 .. Len(s) : s[i] \in Nat
  OBVIOUS
<1>2. Len(s) \in Nat
  OBVIOUS
<1>3. SubSeq(s, 1, n) \in Seq(Nat)
  BY <1>1, <1>2, SubSeqProperties
<1>4. Len(SubSeq(s, 1, n)) = n
  BY <1>1, <1>2, SubSeqProperties
<1>5. SubSeq(s, n + 1, Len(s)) \in Seq(Nat)
  BY <1>1, <1>2, SubSeqProperties
<1> QED
  BY <1>3, <1>4, <1>5

(* The empty buffer, an empty file. *)
LEMMA EmptySequence ==
    /\ <<>> \in Seq(Nat)
    /\ <<>> \in Seq(Sector)
    /\ Len(<<>>) = 0
  OBVIOUS

(* Where an error of the flush leads. *)
LEMMA FlushFailsLeads ==
    ASSUME FlusherTyped, FlushFails
    PROVE  /\ pc' \in {"loop", "drain", "snap_drain", "throttle", "close"}
           /\ rest' \in Seq(Nat)
           /\ back' = back
           /\ owner' = owner
<1>1. pc' \in {"loop", "drain", "snap_drain", "throttle", "close"}
  <2>1. CASE back = "copy"
    BY <2>1 DEF FlusherTyped, FlushFails
  <2>2. CASE back = "snap_write"
    BY <2>2 DEF FlusherTyped, FlushFails
  <2>3. CASE back \in {"loop", "throttle", "close"}
    BY <2>3 DEF FlusherTyped, FlushFails
  <2> QED
    BY <2>1, <2>2, <2>3 DEF FlusherTyped
<1> QED
  BY <1>1, EmptySequence DEF FlushFails

LEMMA InitInv == Init => WalInv
<1> SUFFICES ASSUME Init PROVE WalInv
  OBVIOUS
<1>1. RingTyped /\ Ordered
  BY WalAssumption DEF Init, RingTyped, Ordered, tail
<1>2. FlusherTyped
  <2>1. /\ pc \in Labels
        /\ back \in {"loop", "copy", "throttle", "snap_write", "close"}
        /\ owner \in {"loop", "drain", "snap_drain"}
        /\ fd \in {"open", "closed"}
        /\ running \in BOOLEAN
        /\ last_snapshot \in BOOLEAN
    BY DEF Init, Labels
  <2>2. /\ rest \in Seq(Nat)
        /\ sector_buffer \in Seq(Nat)
        /\ Len(sector_buffer) <= SectorPayload
    BY FramingAssumption, EmptySequence DEF Init
  <2>3. /\ bytes_written \in Nat
        /\ next_segment \in 0 .. MaxSegments
        /\ del \in 0 .. MaxSegments
        /\ boots \in 0 .. MaxBoots
    BY WalAssumption DEF Init
  <2> QED
    BY <2>1, <2>2, <2>3 DEF FlusherTyped
<1>3. DiskTyped
  BY WalAssumption DEF Init, DiskTyped
<1> QED
  BY <1>1, <1>2, <1>3 DEF WalInv, TypeOK

(* The clients' steps. *)
LEMMA ClientInv ==
    ASSUME WalInv,
           (\E d \in Deltas : Push(d)) \/ CommitBegin \/ CommitOk \/ CommitTimeout
    PROVE  WalInv'
<1> USE DEF WalInv, TypeOK, Ordered, RingTyped, FlusherTyped, DiskTyped, tail,
           ringVars, client, control, manager, disk, history
<1>1. ASSUME NEW d \in Deltas, Push(d) PROVE WalInv'
  BY SMTT(60), <1>1, WalAssumption DEF Push
<1>2. CASE CommitBegin
  BY <1>2 DEF CommitBegin
<1>3. CASE CommitOk
  BY <1>3 DEF CommitOk
<1>4. CASE CommitTimeout
  BY <1>4 DEF CommitTimeout
<1> QED
  BY <1>1, <1>2, <1>3, <1>4

(* The flusher pops, and copies what it popped into its sector. *)
LEMMA PopInv ==
    ASSUME WalInv,
           PopDelta \/ PopDropped \/ PopCheckpoint \/ IdleFlush \/ CopyBytes \/ CopyDone
    PROVE  WalInv'
<1> USE DEF WalInv, TypeOK, Ordered, RingTyped, FlusherTyped, DiskTyped, Labels, tail,
           ringVars, client, control, manager, disk, history
<1>1. CASE PopDelta
  <2>1. pushed[head + 1] \in Deltas
    BY SMTT(60), <1>1 DEF PopDelta
  <2>2. Encode(pushed[head + 1]) \in Seq(Nat)
    BY <2>1, EncodeType
  <2>3. RingTyped'
    BY SMTT(60), <1>1, <2>2, WalAssumption DEF PopDelta, Polling
  <2>4. FlusherTyped'
    BY <1>1, <2>2, WalAssumption DEF PopDelta, Polling
  <2>5. DiskTyped'
    BY <1>1, <2>2, WalAssumption DEF PopDelta, Polling
  <2>6. Ordered'
    BY <1>1, <2>2, WalAssumption DEF PopDelta, Polling
  <2> QED
    BY <2>3, <2>4, <2>5, <2>6
<1>2. CASE PopDropped
  <2>3. RingTyped'
    BY <1>2, WalAssumption DEF PopDropped, Polling
  <2>4. FlusherTyped'
    BY <1>2, WalAssumption DEF PopDropped, Polling
  <2>5. DiskTyped'
    BY <1>2, WalAssumption DEF PopDropped, Polling
  <2>6. Ordered'
    BY <1>2, WalAssumption DEF PopDropped, Polling
  <2> QED
    BY <2>3, <2>4, <2>5, <2>6
<1>3. CASE PopCheckpoint
  <2>3. RingTyped'
    BY <1>3, WalAssumption DEF PopCheckpoint
  <2>4. FlusherTyped'
    BY <1>3, WalAssumption DEF PopCheckpoint
  <2>5. DiskTyped'
    BY <1>3, WalAssumption DEF PopCheckpoint
  <2>6. Ordered'
    BY <1>3, WalAssumption DEF PopCheckpoint
  <2> QED
    BY <2>3, <2>4, <2>5, <2>6
<1>4. CASE IdleFlush
  BY <1>4 DEF IdleFlush, Flush
<1>5. CASE CopyBytes
  <2> DEFINE space == SectorPayload - Len(sector_buffer)
             n == IF space < Len(rest) THEN space ELSE Len(rest)
  <2>1. /\ n \in Nat
        /\ n <= Len(rest)
        /\ n <= space
    BY FramingAssumption
  <2>2. /\ SubSeq(rest, 1, n) \in Seq(Nat)
        /\ Len(SubSeq(rest, 1, n)) = n
        /\ SubSeq(rest, n + 1, Len(rest)) \in Seq(Nat)
    <3> HIDE DEF n
    <3> QED
      BY <2>1, CutSequence
  <2>4. /\ sector_buffer \o SubSeq(rest, 1, n) \in Seq(Nat)
        /\ Len(sector_buffer \o SubSeq(rest, 1, n)) <= SectorPayload
    BY SMTT(60), <2>1, <2>2, FramingAssumption
  <2>5. /\ sector_buffer' = sector_buffer \o SubSeq(rest, 1, n)
        /\ rest' = SubSeq(rest, n + 1, Len(rest))
        /\ pc' \in {"write", "copy"}
        /\ back' \in {"copy", back}
    BY <1>5 DEF CopyBytes
  <2> HIDE DEF n, space
  <2> QED
    BY ZenonT(60), <1>5, <2>2, <2>4, <2>5 DEF CopyBytes
<1>6. CASE CopyDone
  BY <1>6 DEF CopyDone
<1> QED
  BY <1>1, <1>2, <1>3, <1>4, <1>5, <1>6

(* The flush of a sector. *)
LEMMA FlushInv ==
    ASSUME WalInv,
           \/ WriteSector \/ WriteFails \/ SyncFile \/ PublishDurable
           \/ Rotate \/ RotateAtCap \/ RotateFails
    PROVE  WalInv'
<1> USE DEF WalInv, TypeOK, Ordered, RingTyped, FlusherTyped, DiskTyped, Labels, tail,
           ringVars, client, control, manager, disk, history
<1>1. CASE WriteSector
  <2>1. Padded(sector_buffer) \in Sector
    BY PaddedType
  <2> QED
    BY <1>1, <2>1 DEF WriteSector
<1>2. CASE WriteFails
  <2>1. /\ pc' \in {"loop", "drain", "snap_drain", "throttle", "close"}
        /\ rest' \in Seq(Nat)
        /\ back' = back
        /\ owner' = owner
    BY <1>2, FlushFailsLeads DEF WriteFails
  <2> QED
    BY SMTT(60), <1>2, <2>1 DEF WriteFails
<1>3. CASE SyncFile
  BY SMTT(60), <1>3, FramingAssumption DEF SyncFile
<1>4. CASE PublishDurable
  BY <1>4 DEF PublishDurable, AfterFlush
<1>5. CASE Rotate
  BY <1>5, WalAssumption DEF Rotate
<1>6. CASE RotateAtCap
  BY <1>6 DEF RotateAtCap
<1>7. CASE RotateFails
  <2>1. /\ pc' \in {"loop", "drain", "snap_drain", "throttle", "close"}
        /\ rest' \in Seq(Nat)
        /\ back' = back
        /\ owner' = owner
    BY <1>7, FlushFailsLeads DEF RotateFails
  <2>2. RingTyped' /\ Ordered'
    BY <1>7, <2>1 DEF RotateFails
  <2>3. FlusherTyped'
    BY <1>7, <2>1 DEF RotateFails
  <2>4. DiskTyped'
    <3>1. CASE UNCHANGED <<live, synced, archive>>
      BY <3>1
    <3>2. CASE /\ archive' = [archive EXCEPT ![next_segment] = live]
               /\ live' = <<>>
               /\ synced' = 0
      BY <3>2, EmptySequence
    <3> QED
      BY <1>7, <3>1, <3>2 DEF RotateFails
  <2> QED
    BY <2>2, <2>3, <2>4
<1> QED
  BY <1>1, <1>2, <1>3, <1>4, <1>5, <1>6, <1>7

(* A checkpoint. *)
LEMMA SnapInv ==
    ASSUME WalInv,
           \/ DrainFlush \/ Throttled \/ SnapEnter \/ SnapFlush \/ SnapPublish \/ SnapFails
           \/ SnapDelete \/ SnapTruncate \/ SnapReopenFails
    PROVE  WalInv'
<1> USE DEF WalInv, TypeOK, Ordered, RingTyped, FlusherTyped, DiskTyped, Labels, tail,
           ringVars, client, control, manager, disk, history
<1>1. CASE DrainFlush
  BY ZenonT(60), <1>1 DEF DrainFlush, Flush
<1>2. CASE Throttled
  BY <1>2 DEF Throttled
<1>3. CASE SnapEnter
  BY <1>3 DEF SnapEnter
<1>4. CASE SnapFlush
  BY ZenonT(60), <1>4 DEF SnapFlush, Flush
<1>5. CASE SnapPublish
  BY <1>5, WalAssumption DEF SnapPublish
<1>6. CASE SnapFails
  BY <1>6 DEF SnapFails
<1>7. CASE SnapDelete
  <2>3. RingTyped'
    BY <1>7, WalAssumption DEF SnapDelete
  <2>4. FlusherTyped'
    BY SMTT(60), <1>7, WalAssumption DEF SnapDelete
  <2>5. DiskTyped'
    BY <1>7, WalAssumption DEF SnapDelete
  <2>6. Ordered'
    BY <1>7, WalAssumption DEF SnapDelete
  <2> QED
    BY <2>3, <2>4, <2>5, <2>6
<1>8. CASE SnapTruncate
  BY <1>8, FramingAssumption, WalAssumption DEF SnapTruncate
<1>9. CASE SnapReopenFails
  BY <1>9 DEF SnapReopenFails
<1> QED
  BY <1>1, <1>2, <1>3, <1>4, <1>5, <1>6, <1>7, <1>8, <1>9

(* Shutdown, crash and boot. *)
LEMMA LifeInv ==
    ASSUME WalInv, RequestShutdown \/ FinalFlush \/ Close \/ Crash \/ Boot
    PROVE  WalInv'
<1> USE DEF WalInv, TypeOK, Ordered, RingTyped, FlusherTyped, DiskTyped, Labels, tail,
           ringVars, client, control, manager, disk, history
<1>1. CASE RequestShutdown
  <2>3. RingTyped'
    BY <1>1 DEF RequestShutdown
  <2>4. FlusherTyped'
    BY ZenonT(60), <1>1 DEF RequestShutdown
  <2>5. DiskTyped'
    BY <1>1 DEF RequestShutdown
  <2>6. Ordered'
    BY <1>1 DEF RequestShutdown
  <2> QED
    BY <2>3, <2>4, <2>5, <2>6
<1>2. CASE FinalFlush
  BY <1>2 DEF FinalFlush, Flush
<1>3. CASE Close
  BY <1>3 DEF Close
<1>4. CASE Crash
  <2>1. live' \in Seq(Sector)
    <3>1. ASSUME NEW k \in synced .. Len(live) PROVE SubSeq(live, 1, k) \in Seq(Sector)
      BY SMTT(60), <3>1
    <3>2. ASSUME NEW k \in synced .. Len(live) - 1
          PROVE  Append(SubSeq(live, 1, k), Torn(live[k + 1])) \in Seq(Sector)
      <4>1. live[k + 1] \in Sector
        BY SMTT(60), <3>2
      <4>2. Torn(live[k + 1]) \in Sector
        BY <4>1 DEF Torn, Sector
      <4> QED
        BY SMTT(60), <3>1, <3>2, <4>2
    <3> QED
      BY <1>4, <3>1, <3>2 DEF Crash, LiveImages
  <2> QED
    BY SMTT(60), <1>4, <2>1, FramingAssumption DEF Crash
<1>5. CASE Boot
  <2>1. next_segment' \in 0 .. MaxSegments
    BY <1>5, FirstFreeType DEF Boot
  <2>3. RingTyped'
    BY <1>5, <2>1, FramingAssumption, WalAssumption, EmptySequence DEF Boot
  <2>4. FlusherTyped'
    <3>1. /\ pc' \in Labels
          /\ back' \in {"loop", "copy", "throttle", "snap_write", "close"}
          /\ owner' \in {"loop", "drain", "snap_drain"}
          /\ fd' \in {"open", "closed"}
          /\ running' \in BOOLEAN
          /\ last_snapshot' \in BOOLEAN
      BY <1>5, <2>1 DEF Boot, Labels
    <3>2. /\ rest' \in Seq(Nat)
          /\ sector_buffer' \in Seq(Nat)
          /\ Len(sector_buffer') <= SectorPayload
      BY <1>5, <2>1, FramingAssumption, EmptySequence DEF Boot
    <3>3. /\ bytes_written' \in Nat
          /\ next_segment' \in 0 .. MaxSegments
          /\ del' \in 0 .. MaxSegments
          /\ boots' \in 0 .. MaxBoots
      BY <1>5, <2>1, WalAssumption DEF Boot
    <3> QED
      BY <3>1, <3>2, <3>3 DEF FlusherTyped
  <2>5. DiskTyped'
    BY <1>5, <2>1, FramingAssumption, WalAssumption, EmptySequence DEF Boot
  <2>6. Ordered'
    BY <1>5, <2>1, FramingAssumption, WalAssumption, EmptySequence DEF Boot
  <2> QED
    BY <2>3, <2>4, <2>5, <2>6
<1> QED
  BY <1>1, <1>2, <1>3, <1>4, <1>5

LEMMA NextInv == WalInv /\ [Next]_vars => WalInv'
<1> SUFFICES ASSUME WalInv, [Next]_vars PROVE WalInv'
  OBVIOUS
<1>1. CASE Next
  BY <1>1, ClientInv, PopInv, FlushInv, SnapInv, LifeInv DEF Next, FlusherStep
<1>2. CASE UNCHANGED vars
  BY <1>2 DEF vars, WalInv, TypeOK, Ordered, RingTyped, FlusherTyped, DiskTyped, tail
<1> QED
  BY <1>1, <1>2

(* The invariant of the log. *)
THEOREM WalInvariant == Spec => []WalInv
  BY InitInv, NextInv, PTL DEF Spec

(* Every variable keeps its type: the sector buffer never overruns its     *)
(* payload in writeToBuffer, whatever failed before.                       *)
THEOREM WalTypeCorrect == Spec => []TypeOK
<1>1. WalInv => TypeOK
  BY DEF WalInv
<1> QED
  BY <1>1, WalInvariant, PTL

(* What a step does to the log files, apart from a crash: it leaves them,  *)
(* appends to the live one, renames it, or removes one under the snapshot. *)
LEMMA RemovalStep ==
    ASSUME WalInv, Next, pc' # "down",
           \/ \E n \in DOMAIN archive : archive[n] # NoFile /\ archive'[n] = NoFile
           \/ /\ live # <<>> /\ live' = <<>>
              /\ \A n \in DOMAIN archive : archive'[n] # live
    PROVE  snap = head
<1> USE DEF ringVars, client, control, manager, disk, history
<1>1. CASE UNCHANGED <<live, archive>>
  BY <1>1
<1>2. CASE WriteSector
  <2>1. live' # <<>>
    BY <1>2 DEF WriteSector, WalInv, TypeOK, DiskTyped
  <2> QED
    BY <1>2, <2>1 DEF WriteSector
<1>3. CASE /\ archive' = [archive EXCEPT ![next_segment] = live]
           /\ next_segment < MaxSegments
  <2>1. /\ next_segment \in DOMAIN archive
        /\ archive'[next_segment] = live
        /\ \A n \in DOMAIN archive : n # next_segment => archive'[n] = archive[n]
    BY <1>3, WalAssumption DEF WalInv, TypeOK, FlusherTyped, DiskTyped
  <2>2. live # NoFile
    BY NoFileAssumption DEF WalInv, TypeOK, DiskTyped
  <2> QED
    BY <2>1, <2>2
<1>4. CASE pc \in {"snap_delete", "snap_truncate"}
  BY <1>4 DEF WalInv, Ordered
<1>5. \/ UNCHANGED <<live, archive>>
      \/ WriteSector
      \/ /\ archive' = [archive EXCEPT ![next_segment] = live]
         /\ next_segment < MaxSegments
      \/ pc \in {"snap_delete", "snap_truncate"}
  <2>1. CASE FlusherStep
    <3>1. CASE PopDelta \/ PopDropped \/ PopCheckpoint \/ IdleFlush \/ CopyBytes \/ CopyDone
      BY <3>1 DEF PopDelta, PopDropped, PopCheckpoint, IdleFlush, CopyBytes, CopyDone
    <3>2. CASE WriteFails \/ SyncFile \/ PublishDurable \/ RotateAtCap
      BY <3>2 DEF WriteFails, SyncFile, PublishDurable, RotateAtCap
    <3>3. CASE Rotate \/ RotateFails
      BY <3>3 DEF Rotate, RotateFails
    <3>4. CASE DrainFlush \/ Throttled \/ SnapEnter \/ SnapFlush \/ SnapPublish \/ SnapFails
      BY <3>4 DEF DrainFlush, Throttled, SnapEnter, SnapFlush, SnapPublish, SnapFails
    <3>5. CASE SnapDelete \/ SnapTruncate \/ SnapReopenFails
      BY <3>5 DEF SnapDelete, SnapTruncate, SnapReopenFails
    <3>6. CASE FinalFlush \/ Close
      BY <3>6 DEF FinalFlush, Close
    <3> QED
      BY <2>1, <3>1, <3>2, <3>3, <3>4, <3>5, <3>6 DEF FlusherStep
  <2>2. ASSUME NEW d \in Deltas, Push(d) PROVE UNCHANGED <<live, archive>>
    BY <2>2 DEF Push
  <2>3. CASE CommitBegin \/ CommitOk \/ CommitTimeout
    BY <2>3 DEF CommitBegin, CommitOk, CommitTimeout
  <2>4. CASE RequestShutdown \/ Crash \/ Boot
    BY <2>4 DEF RequestShutdown, Crash, Boot
  <2> QED
    BY <2>1, <2>2, <2>3, <2>4 DEF Next
<1> QED
  BY <1>1, <1>2, <1>3, <1>4, <1>5

(* The flusher deletes a segment or empties the live file only under a     *)
(* published snapshot that covers every delta popped so far: at no crash   *)
(* between the rename and the truncation in createSnapshot is a popped     *)
(* delta in neither of the two.                                            *)
THEOREM RemovalIsCovered == Spec => RemovedOnlyUnderSnapshot
<1> DEFINE Covered ==
        (/\ pc' # "down"
         /\ \/ \E n \in DOMAIN archive : archive[n] # NoFile /\ archive'[n] = NoFile
            \/ /\ live # <<>> /\ live' = <<>>
               /\ \A n \in DOMAIN archive : archive'[n] # live)
        => snap = head
<1>1. WalInv /\ [Next]_vars => [Covered]_vars
  BY RemovalStep
<1> QED
  BY <1>1, WalInvariant, PTL DEF Spec, RemovedOnlyUnderSnapshot

=============================================================================
