-------------------------------- MODULE Wal --------------------------------
(***************************************************************************)
(* The durability path of the daemon: the flusher thread of wal.zig drains *)
(* the delta ring into checksummed sectors, snapshot.zig truncates the     *)
(* log, recovery.zig replays it at boot, and takyon_commit waits for it.   *)
(*                                                                         *)
(* The ring is the queue it implements (BoundedQueue): `pushed` is every   *)
(* delta of this incarnation in position order, head the consumer's        *)
(* position, and Len(pushed) the producers'.  The flusher's system calls   *)
(* are separate steps, so clients push and the machine crashes between any *)
(* two of them.                                                            *)
(***************************************************************************)
EXTENDS WalFraming, FiniteSets

CONSTANTS
    Deltas,         \* what clients push: entries, and Checkpoint
    RingCapacity,   \* slots of the ring
    SegmentMax,     \* SEGMENT_MAX, in sectors
    MaxSegments,    \* MAX_SEGMENTS
    Throttle,       \* whether minIntervalMs can refuse a snapshot
    FailIO,         \* whether a write, an fsync, a rename or an open may fail
    NoFile,         \* an archived segment that does not exist
    MaxPush,        \* bound: pushes of one incarnation
    MaxBoots        \* bound: restarts of the daemon

ASSUME WalAssumption ==
    /\ RingCapacity \in Nat
    /\ SegmentMax \in Nat
    /\ SegmentMax > 0
    /\ MaxSegments \in Nat
    /\ Throttle \in BOOLEAN
    /\ FailIO \in BOOLEAN
    /\ MaxPush \in Nat
    /\ MaxBoots \in Nat

(* The checkpoint message (is_arena == 2): it carries no bytes. *)
Checkpoint == [kind |-> 2, offset |-> 0, data |-> <<>>]

(* A delta names its kind, an offset and the bytes found there; a push of  *)
(* no bytes is refused.                                                    *)
ASSUME DeltasAssumption ==
    /\ \A d \in Deltas : d \in [kind : Nat, offset : Nat, data : Seq(Nat)]
    /\ \A d \in Deltas \ {Checkpoint} : d.kind \in {ArenaWrite, IndexOp} /\ d.data # <<>>

ASSUME NoFileAssumption == NoFile \notin Seq(Sector)

VARIABLES
    \* the ring, and one client in takyon_commit
    pushed, head, durable_tail,
    target,         \* the position a commit waits for, or -1
    committed,      \* history: highest position a commit answered RC_OK for
    \* the flusher thread: where it is, where its flush and its processDelta
    \* return to, and the bytes of the delta that are not buffered yet
    pc, back, owner, rest,
    \* WalManager
    sector_buffer, bytes_written, next_segment, fd, running,
    \* snapshot.zig: a snapshot was taken; the index of its cleanup loop
    last_snapshot, del,
    \* the disk: the live file, its sectors known to be on stable storage,
    \* the archived segments, and the position the snapshot covers
    live, synced, archive, snap,
    \* history: where the live log starts, what the last boot replayed, the
    \* producers' position when shutdown was requested, and the boots
    log_start, recovered, stop_tail, boots

ringVars == <<pushed, head, durable_tail>>
client   == <<target, committed>>
control  == <<pc, back, owner, rest>>
manager  == <<sector_buffer, bytes_written, next_segment, fd>>
disk     == <<live, synced, archive, snap>>
history  == <<log_start, recovered, stop_tail, boots>>
vars     == <<pushed, head, durable_tail, target, committed, pc, back, owner, rest,
              sector_buffer, bytes_written, next_segment, fd, running, last_snapshot, del,
              live, synced, archive, snap, log_start, recovered, stop_tail, boots>>

tail == Len(pushed)

(* The checks of processDelta: what fails them is dropped, not logged. *)
Loggable(d) ==
    /\ d # Checkpoint
    /\ Len(d.data) <= MaxEntryLen
    /\ d.kind = ArenaWrite => d.offset + Len(d.data) <= ArenaLen

(* firstFreeSegment: how many archived segments there are before a gap.    *)
FirstFree(segments) ==
    Cardinality({ n \in 0 .. MaxSegments - 1 : \A m \in 0 .. n : segments[m] # NoFile })

(* replayWal: the live file, then the archives from 0 to the first missing.*)
Replay(file, segments) ==
    ReplayFile(file)
        \o FlattenSeq([i \in 1 .. FirstFree(segments) |-> ReplayFile(segments[i - 1])])

(* What a crash now may leave of the live file: every sector that was      *)
(* synced, then any number of the others, the last of them possibly torn.  *)
LiveImages ==
    { SubSeq(live, 1, k) : k \in synced .. Len(live) }
        \cup { Append(SubSeq(live, 1, k), Torn(live[k + 1])) : k \in synced .. Len(live) - 1 }

Init ==
    /\ pushed = <<>> /\ head = 0 /\ durable_tail = 0
    /\ target = -1 /\ committed = 0
    /\ pc = "loop" /\ back = "loop" /\ owner = "loop" /\ rest = <<>>
    /\ sector_buffer = <<>> /\ bytes_written = 0 /\ next_segment = 0 /\ fd = "open"
    /\ running = TRUE /\ last_snapshot = FALSE /\ del = 0
    /\ live = <<>> /\ synced = 0 /\ snap = 0
    /\ archive = [n \in 0 .. MaxSegments - 1 |-> NoFile]
    /\ log_start = 0 /\ recovered = <<>> /\ stop_tail = 0 /\ boots = 0

-----------------------------------------------------------------------------
(* Clients *)

(* takyon_write_delta, takyon_notify_arena, takyon_insert_index and        *)
(* takyon_trigger_checkpoint; a push that finds the ring full for as long  *)
(* as it waits changes nothing here.                                       *)
Push(d) ==
    /\ pc # "down"
    /\ tail < MaxPush
    /\ tail - head < RingCapacity
    /\ pushed' = Append(pushed, d)
    /\ UNCHANGED <<head, durable_tail, client, control, manager, running, last_snapshot, del,
                   disk, history>>

(* takyon_commit: read the producers' position, then wait for it. *)
CommitBegin ==
    /\ pc # "down"
    /\ target = -1
    /\ target' = tail
    /\ UNCHANGED <<ringVars, committed, control, manager, running, last_snapshot, del, disk,
                   history>>

CommitOk_Popped ==
    /\ target >= 0
    /\ head >= target
    /\ committed' = IF target > committed THEN target ELSE committed
    /\ target' = -1
    /\ UNCHANGED <<ringVars, control, manager, running, last_snapshot, del, disk, history>>

CommitOk ==
    /\ target >= 0
    /\ durable_tail >= target
    /\ committed' = IF target > committed THEN target ELSE committed
    /\ target' = -1
    /\ UNCHANGED <<ringVars, control, manager, running, last_snapshot, del, disk, history>>

(* The wait timed out: RC_BACKPRESSURE. *)
CommitTimeout ==
    /\ target >= 0
    /\ durable_tail < target
    /\ target' = -1
    /\ UNCHANGED <<ringVars, committed, control, manager, running, last_snapshot, del, disk,
                   history>>

-----------------------------------------------------------------------------
(* The flusher thread *)

(* flushBufferWith up to its write: nothing buffered, or too little slack  *)
(* for an unforced flush, returns at once.                                 *)
Flush(force, next) ==
    IF \/ sector_buffer = <<>>
       \/ ~force /\ SectorPayload - Len(sector_buffer) < MinPadding
    THEN pc' = next /\ UNCHANGED back
    ELSE pc' = "write" /\ back' = next

Polling == (pc = "loop" /\ running) \/ pc \in {"drain", "snap_drain"}

(* A delta is popped, from the loop or from one of the two drain loops, and*)
(* passes processDelta's checks.                                           *)
PopDelta ==
    /\ Polling
    /\ head < tail
    /\ Loggable(pushed[head + 1])
    /\ head' = head + 1
    /\ rest' = Encode(pushed[head + 1])
    /\ owner' = pc
    /\ pc' = "copy"
    /\ UNCHANGED <<pushed, durable_tail, client, back, manager, running, last_snapshot, del,
                   disk, history>>

(* ... or is dropped, as a checkpoint inside a drain loop is skipped.      *)
PopDropped ==
    /\ Polling
    /\ head < tail
    /\ ~Loggable(pushed[head + 1])
    /\ pushed[head + 1] = Checkpoint => pc # "loop"
    /\ head' = head + 1
    /\ UNCHANGED <<pushed, durable_tail, client, control, manager, running, last_snapshot, del,
                   disk, history>>

PopCheckpoint ==
    /\ pc = "loop" /\ running
    /\ head < tail
    /\ pushed[head + 1] = Checkpoint
    /\ head' = head + 1
    /\ pc' = "drain"
    /\ UNCHANGED <<pushed, durable_tail, client, back, owner, rest, manager, running,
                   last_snapshot, del, disk, history>>

(* Mutant of IdleFlush: the idle flusher waits for the sector to fill.     *)
IdleFlush_Waits ==
    /\ pc = "loop" /\ running
    /\ head = tail
    /\ UNCHANGED vars

(* The ring is empty: flushIfUnambiguous. *)
IdleFlush ==
    /\ pc = "loop" /\ running
    /\ head = tail
    /\ Flush(FALSE, "loop")
    /\ UNCHANGED <<ringVars, client, owner, rest, manager, running, last_snapshot, del, disk,
                   history>>

(* Mutant of CopyBytes: the space left in the sector is off by one.        *)
CopyBytes_Overrun ==
    /\ pc = "copy"
    /\ rest # <<>>
    /\ LET space == SectorPayload + 1 - Len(sector_buffer)
           n == IF space < Len(rest) THEN space ELSE Len(rest)
       IN  /\ sector_buffer' = sector_buffer \o SubSeq(rest, 1, n)
           /\ rest' = SubSeq(rest, n + 1, Len(rest))
           /\ IF n = space THEN pc' = "write" /\ back' = "copy" ELSE pc' = "copy" /\ UNCHANGED back
    /\ UNCHANGED <<ringVars, client, owner, bytes_written, next_segment, fd, running,
                   last_snapshot, del, disk, history>>

(* One round of writeToBuffer: copy what fits, flush when the sector fills.*)
CopyBytes ==
    /\ pc = "copy"
    /\ rest # <<>>
    /\ LET space == SectorPayload - Len(sector_buffer)
           n == IF space < Len(rest) THEN space ELSE Len(rest)
       IN  /\ sector_buffer' = sector_buffer \o SubSeq(rest, 1, n)
           /\ rest' = SubSeq(rest, n + 1, Len(rest))
           /\ IF n = space THEN pc' = "write" /\ back' = "copy" ELSE pc' = "copy" /\ UNCHANGED back
    /\ UNCHANGED <<ringVars, client, owner, bytes_written, next_segment, fd, running,
                   last_snapshot, del, disk, history>>

CopyDone ==
    /\ pc = "copy"
    /\ rest = <<>>
    /\ pc' = owner
    /\ UNCHANGED <<ringVars, client, back, owner, rest, manager, running, last_snapshot, del,
                   disk, history>>

-----------------------------------------------------------------------------
(* flushBufferWith from its write on *)

WriteSector ==
    /\ pc = "write"
    /\ fd = "open"
    /\ live' = Append(live, Padded(sector_buffer))
    /\ pc' = "sync"
    /\ UNCHANGED <<ringVars, client, back, owner, rest, manager, running, last_snapshot, del,
                   synced, archive, snap, history>>

(* An error of the flush: processDelta's caller drops the delta and goes   *)
(* on, createSnapshot returns the error, everybody else ignores it.        *)
FlushFails ==
    /\ rest' = <<>>
    /\ pc' = CASE back = "copy" -> owner
               [] back = "snap_write" -> "loop"
               [] OTHER -> back
    /\ UNCHANGED <<back, owner>>

WriteFails ==
    /\ pc = "write"
    /\ FailIO \/ fd = "closed"
    /\ FlushFails
    /\ UNCHANGED <<ringVars, client, manager, running, last_snapshot, del, disk, history>>

(* syncFile, whose error is ignored, and the reset of the buffer. *)
SyncFile ==
    /\ pc = "sync"
    /\ synced' \in {Len(live)} \cup (IF FailIO THEN {synced} ELSE {})
    /\ sector_buffer' = <<>>
    /\ bytes_written' = bytes_written + 1
    /\ pc' = "publish"
    /\ UNCHANGED <<ringVars, client, back, owner, rest, next_segment, fd, running,
                   last_snapshot, del, live, archive, snap, history>>

AfterFlush == IF bytes_written >= SegmentMax THEN "rotate" ELSE back

(* Mutant of PublishDurable: publishes the producers' position.            *)
PublishDurable_Tail ==
    /\ pc = "publish"
    /\ durable_tail' = tail
    /\ pc' = AfterFlush
    /\ UNCHANGED <<pushed, head, client, back, owner, rest, manager, running, last_snapshot,
                   del, disk, history>>

(* publishDurable: the consumer's position, never backwards. *)
PublishDurable ==
    /\ pc = "publish"
    /\ durable_tail' = IF head > durable_tail THEN head ELSE durable_tail
    /\ pc' = AfterFlush
    /\ UNCHANGED <<pushed, head, client, back, owner, rest, manager, running, last_snapshot,
                   del, disk, history>>

(* rotateSegment *)
Rotate ==
    /\ pc = "rotate"
    /\ next_segment < MaxSegments
    /\ archive' = [archive EXCEPT ![next_segment] = live]
    /\ live' = <<>>
    /\ synced' = 0
    /\ next_segment' = next_segment + 1
    /\ bytes_written' = 0
    /\ pc' = back
    /\ UNCHANGED <<ringVars, client, back, owner, rest, sector_buffer, fd, running,
                   last_snapshot, del, snap, history>>

RotateAtCap ==
    /\ pc = "rotate"
    /\ next_segment >= MaxSegments
    /\ pc' = back
    /\ UNCHANGED <<ringVars, client, back, owner, rest, manager, running, last_snapshot, del,
                   disk, history>>

(* The descriptor is closed before the rename; neither a failed rename nor *)
(* a failed open of the new file reopens it.                               *)
RotateFails ==
    /\ pc = "rotate"
    /\ FailIO
    /\ next_segment < MaxSegments
    /\ fd' = "closed"
    /\ \/ UNCHANGED <<live, synced, archive>>
       \/ /\ archive' = [archive EXCEPT ![next_segment] = live]
          /\ live' = <<>>
          /\ synced' = 0
    /\ FlushFails
    /\ UNCHANGED <<ringVars, client, sector_buffer, bytes_written, next_segment, running,
                   last_snapshot, del, snap, history>>

-----------------------------------------------------------------------------
(* A checkpoint: drain, forced flush, createSnapshot *)

DrainFlush ==
    /\ pc = "drain"
    /\ head = tail
    /\ Flush(TRUE, "throttle")
    /\ UNCHANGED <<ringVars, client, owner, rest, manager, running, last_snapshot, del, disk,
                   history>>

(* createSnapshot returns early, the forced flush above already done.      *)
Throttled ==
    /\ pc = "throttle"
    /\ Throttle /\ last_snapshot
    /\ pc' = "loop"
    /\ UNCHANGED <<ringVars, client, back, owner, rest, manager, running, last_snapshot, del,
                   disk, history>>

SnapEnter ==
    /\ pc = "throttle"
    /\ pc' = "snap_drain"
    /\ UNCHANGED <<ringVars, client, back, owner, rest, manager, running, last_snapshot, del,
                   disk, history>>

SnapFlush ==
    /\ pc = "snap_drain"
    /\ head = tail
    /\ Flush(TRUE, "snap_write")
    /\ UNCHANGED <<ringVars, client, owner, rest, manager, running, last_snapshot, del, disk,
                   history>>

(* Mutant of SnapPublish: the log is rotated without a published snapshot. *)
SnapPublish_NoRename ==
    /\ pc = "snap_write"
    /\ del' = 0
    /\ pc' = "snap_delete"
    /\ UNCHANGED <<ringVars, client, back, owner, rest, manager, running, last_snapshot, disk,
                   history>>

(* The payload and the footer are written and synced, and the rename makes *)
(* them the snapshot: it covers every delta popped so far, whose bytes are *)
(* in the arena it copies.                                                 *)
SnapPublish ==
    /\ pc = "snap_write"
    /\ snap' = head
    /\ del' = 0
    /\ pc' = "snap_delete"
    /\ UNCHANGED <<ringVars, client, back, owner, rest, manager, running, last_snapshot, live,
                   synced, archive, history>>

SnapFails ==
    /\ pc = "snap_write"
    /\ FailIO
    /\ pc' = "loop"
    /\ UNCHANGED <<ringVars, client, back, owner, rest, manager, running, last_snapshot, del,
                   disk, history>>

(* One round of the cleanup loop: delete a segment, or stop at a gap. *)
SnapDelete ==
    /\ pc = "snap_delete"
    /\ IF del < MaxSegments /\ archive[del] # NoFile
       THEN /\ archive' = [archive EXCEPT ![del] = NoFile]
            /\ del' = del + 1
            /\ UNCHANGED pc
       ELSE /\ pc' = "snap_truncate"
            /\ UNCHANGED <<archive, del>>
    /\ UNCHANGED <<ringVars, client, back, owner, rest, manager, running, last_snapshot, live,
                   synced, snap, history>>

SnapTruncate ==
    /\ pc = "snap_truncate"
    /\ live' = <<>>
    /\ synced' = 0
    /\ sector_buffer' = <<>>
    /\ bytes_written' = 0
    /\ next_segment' = 0
    /\ fd' = "open"
    /\ last_snapshot' = TRUE
    /\ log_start' = head
    /\ recovered' = <<>>
    /\ pc' = "loop"
    /\ UNCHANGED <<ringVars, client, back, owner, rest, running, del, archive, snap, stop_tail,
                   boots>>

SnapReopenFails ==
    /\ pc = "snap_truncate"
    /\ FailIO
    /\ fd' = "closed"
    /\ pc' = "loop"
    /\ UNCHANGED <<ringVars, client, back, owner, rest, sector_buffer, bytes_written,
                   next_segment, running, last_snapshot, del, disk, history>>

-----------------------------------------------------------------------------
(* Shutdown, crash and boot *)

(* shutdown: the flusher is told to stop and leaves its loop at the next   *)
(* check of `running`; then the last sector is flushed and the file closed.*)
RequestShutdown ==
    /\ pc # "down"
    /\ running
    /\ running' = FALSE
    /\ stop_tail' = tail
    /\ UNCHANGED <<ringVars, client, control, manager, last_snapshot, del, disk, log_start,
                   recovered, boots>>

FinalFlush ==
    /\ pc = "loop"
    /\ ~running
    /\ Flush(TRUE, "close")
    /\ UNCHANGED <<ringVars, client, owner, rest, manager, running, last_snapshot, del, disk,
                   history>>

Close ==
    /\ pc = "close"
    /\ pc' = "down"
    /\ fd' = "closed"
    /\ target' = -1
    /\ UNCHANGED <<ringVars, committed, back, owner, rest, sector_buffer, bytes_written,
                   next_segment, running, last_snapshot, del, disk, history>>

Crash ==
    /\ pc # "down"
    /\ live' \in LiveImages
    /\ synced' = Len(live')
    /\ pc' = "down"
    /\ running' = TRUE
    /\ fd' = "closed"
    /\ target' = -1
    /\ sector_buffer' = <<>>
    /\ rest' = <<>>
    /\ UNCHANGED <<ringVars, committed, back, owner, bytes_written, next_segment, last_snapshot,
                   del, archive, snap, history>>

(* Mutant of Boot: the log is opened truncated.                            *)
Boot_Truncates ==
    /\ pc = "down"
    /\ boots < MaxBoots
    /\ recovered' = Replay(live, archive)
    /\ pushed' = <<>> /\ head' = 0 /\ durable_tail' = 0 /\ committed' = 0
    /\ sector_buffer' = <<>> /\ bytes_written' = 0 /\ next_segment' = FirstFree(archive)
    /\ live' = <<>> /\ synced' = 0
    /\ fd' = "open" /\ running' = TRUE /\ last_snapshot' = FALSE
    /\ rest' = <<>> /\ back' = "loop" /\ owner' = "loop"
    /\ snap' = 0 /\ log_start' = 0 /\ stop_tail' = 0
    /\ boots' = boots + 1
    /\ pc' = "loop"
    /\ UNCHANGED <<target, del, archive>>

(* recoverWal replays the log, the ring is initialised afresh, and         *)
(* WalManager.init opens the live file for appending.                      *)
Boot ==
    /\ pc = "down"
    /\ boots < MaxBoots
    /\ recovered' = Replay(live, archive)
    /\ pushed' = <<>> /\ head' = 0 /\ durable_tail' = 0 /\ committed' = 0
    /\ sector_buffer' = <<>> /\ bytes_written' = Len(live) /\ next_segment' = FirstFree(archive)
    /\ fd' = "open" /\ running' = TRUE /\ last_snapshot' = FALSE
    /\ rest' = <<>> /\ back' = "loop" /\ owner' = "loop"
    /\ snap' = 0 /\ log_start' = 0 /\ stop_tail' = 0
    /\ boots' = boots + 1
    /\ pc' = "loop"
    /\ UNCHANGED <<target, del, live, synced, archive>>

FlusherStep ==
    \/ PopDelta \/ PopDropped \/ PopCheckpoint \/ IdleFlush \/ CopyBytes \/ CopyDone
    \/ WriteSector \/ WriteFails \/ SyncFile \/ PublishDurable
    \/ Rotate \/ RotateAtCap \/ RotateFails
    \/ DrainFlush \/ Throttled \/ SnapEnter \/ SnapFlush \/ SnapPublish \/ SnapFails
    \/ SnapDelete \/ SnapTruncate \/ SnapReopenFails
    \/ FinalFlush \/ Close

Next ==
    \/ \E d \in Deltas : Push(d)
    \/ CommitBegin \/ CommitOk \/ CommitTimeout
    \/ FlusherStep
    \/ RequestShutdown \/ Crash \/ Boot

Spec == Init /\ [][Next]_vars

(* The flusher thread runs as long as the daemon does. *)
FairSpec == Spec /\ WF_vars(FlusherStep)

-----------------------------------------------------------------------------
(* Properties *)

Labels ==
    { "loop", "copy", "write", "sync", "publish", "rotate", "drain", "throttle", "snap_drain",
      "snap_write", "snap_delete", "snap_truncate", "close", "down" }

RingTyped ==
    /\ pushed \in Seq(Deltas)
    /\ head \in 0 .. tail
    /\ tail - head <= RingCapacity
    /\ durable_tail \in 0 .. head
    /\ target \in -1 .. tail
    /\ committed \in Nat
    /\ snap \in 0 .. tail
    /\ log_start \in 0 .. head
    /\ stop_tail \in 0 .. tail

FlusherTyped ==
    /\ pc \in Labels
    /\ back \in {"loop", "copy", "throttle", "snap_write", "close"}
    /\ owner \in {"loop", "drain", "snap_drain"}
    /\ rest \in Seq(Nat)
    /\ sector_buffer \in Seq(Nat)
    /\ Len(sector_buffer) <= SectorPayload
    /\ bytes_written \in Nat
    /\ next_segment \in 0 .. MaxSegments
    /\ fd \in {"open", "closed"}
    /\ running \in BOOLEAN
    /\ last_snapshot \in BOOLEAN
    /\ del \in 0 .. MaxSegments
    /\ boots \in 0 .. MaxBoots

DiskTyped ==
    /\ live \in Seq(Sector)
    /\ synced \in 0 .. Len(live)
    /\ DOMAIN archive = 0 .. MaxSegments - 1
    /\ \A n \in DOMAIN archive : archive[n] # NoFile => archive[n] \in Seq(Sector)

(* Every variable has its type; the sector buffer never overruns its       *)
(* payload, nor the ring its capacity, and the durable position is behind  *)
(* the flusher's, which is behind the producers'.                          *)
TypeOK == RingTyped /\ FlusherTyped /\ DiskTyped

(* The entries of the positions first .. last - 1 that processDelta logs.  *)
LoggedFrom(deltas, first) ==
    LET logged[n \in 0 .. Len(deltas)] ==
            IF n <= first THEN <<>>
            ELSE IF Loggable(deltas[n]) THEN Append(logged[n - 1], deltas[n])
            ELSE logged[n - 1]
    IN  logged

Entries(first, last) == IF last <= first THEN <<>> ELSE LoggedFrom(pushed, first)[last]

(* Whatever a crash leaves of the log, replaying it yields the deltas in   *)
(* the order they were pushed, from the first one on, none twice, none     *)
(* altered and nothing else: the reader never mistakes padding, a split    *)
(* entry or a torn sector for something it is not.                         *)
ReplayIsPrefix ==
    \A file \in LiveImages :
        IsPrefix(Replay(file, archive), recovered \o Entries(log_start, head))

(* Whatever a crash leaves of the log, replaying it yields every delta     *)
(* below durable_tail, except possibly the last one (which may be the one  *)
(* whose first bytes filled the sector that was flushed).                  *)
DurableButLast ==
    \A file \in LiveImages :
        Len(Replay(file, archive)) >=
            Len(recovered) + Len(Entries(log_start, durable_tail - 1))

(* A commit that answers RC_OK answers for a log, not for the ring: of the *)
(* deltas pushed before it, whatever a crash leaves of the log holds all,  *)
(* except possibly the last one.                                           *)
CommittedButLast ==
    \A file \in LiveImages :
        Len(Replay(file, archive)) >=
            Len(recovered) + Len(Entries(log_start, committed - 1))

(* Every delta pushed before a commit that answered RC_OK is in the log,   *)
(* whatever a crash leaves of it.                                          *)
CommittedIsDurable ==
    \A file \in LiveImages :
        Len(Replay(file, archive)) >= Len(recovered) + Len(Entries(log_start, committed))

(* What a boot recovered from the log stays recoverable: nothing appended  *)
(* behind a torn sector or half an entry changes how the old part reads.   *)
RecoveredStays ==
    \A file \in LiveImages : IsPrefix(recovered, Replay(file, archive))

(* Log files are lost to a crash or renamed by a rotation; apart from that *)
(* no archived segment is deleted and the live file is not emptied unless  *)
(* the published snapshot covers every delta popped so far.                *)
RemovedOnlyUnderSnapshot ==
    [][ (/\ pc' # "down"
         /\ \/ \E n \in DOMAIN archive : archive[n] # NoFile /\ archive'[n] = NoFile
            \/ /\ live # <<>> /\ live' = <<>>
               /\ \A n \in DOMAIN archive : archive'[n] # live)
        => snap = head ]_vars

(* A daemon that stopped gracefully has logged every delta that was in the *)
(* ring when shutdown was requested.                                       *)
ShutdownDrains ==
    pc = "down" /\ ~running =>
        Len(Replay(live, archive)) >= Len(recovered) + Len(Entries(log_start, stop_tail))

(* As long as the daemon keeps running, everything a client has pushed is  *)
(* eventually durable, or the flusher is idle with an empty ring, and      *)
(* either holds a sector whose slack is too small to flush or holds        *)
(* nothing, the last deltas it popped having added no bytes to the log.    *)
EventuallyDurableOrHeld ==
    \A p \in 1 .. MaxPush :
        (tail >= p /\ pc # "down") ~>
            \/ durable_tail >= p
            \/ pc = "down" \/ ~running
            \/ /\ pc = "loop" /\ head = tail /\ head > 0
               /\ \/ sector_buffer = <<>> /\ ~Loggable(pushed[head])
                  \/ Len(sector_buffer) > SectorPayload - MinPadding

-----------------------------------------------------------------------------
(* The inductive invariant behind TypeOK, CommittedButLast and             *)
(* RemovedOnlyUnderSnapshot: a daemon that is down has no commit waiting,  *)
(* commits answer for durable positions, and from the rename of the        *)
(* snapshot to the end of the truncation nothing is popped.                *)
Ordered ==
    /\ pc = "down" => target = -1
    /\ committed <= durable_tail
    /\ pc \in {"snap_delete", "snap_truncate"} => snap = head

WalInv ==
    /\ TypeOK
    /\ Ordered

=============================================================================
