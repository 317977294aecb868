----------------------------- MODULE RingBuffer -----------------------------
(***************************************************************************)
(* The delta ring of src/core/ipc/ring_buffer.zig: Vyukov's bounded MPMC   *)
(* queue in shared memory, at the granularity of its atomic instructions.  *)
(*                                                                         *)
(* Producers are threads of client processes (takyon_write_delta,          *)
(* takyon_notify_arena, takyon_insert_index, the checkpoint trigger);      *)
(* Consumers are threads of the daemon (its WAL flusher).  Every atomic    *)
(* load, store and compare-and-swap of push, pop, publishDurable and depth *)
(* is one step; the write and the read of the 64-byte message, which the   *)
(* code does not do atomically, are steps of their own.  A client process  *)
(* may be killed between any two of its steps (Kill).                      *)
(***************************************************************************)
EXTENDS Integers

CONSTANTS
    Producers,  \* pushing threads
    Consumers,  \* popping threads
    Mortal,     \* the producers whose process may be killed
    Msg,        \* delta messages
    Capacity,   \* slots of the ring
    MaxPos,     \* bound: positions a behaviour may claim
    None        \* "no message"

ASSUME RingAssumption ==
    /\ Capacity \in Nat
    /\ Capacity >= 2
    /\ MaxPos \in Nat
    /\ Mortal \subseteq Producers
    /\ Producers \cap Consumers = {}
    /\ None \notin Msg

VARIABLES
    head,           \* header.head: next position to pop
    tail,           \* header.tail: next position to push
    durable_tail,   \* header.durable_tail
    seqs,           \* one sequence number per slot
    buffer,         \* one message per slot
    pc,             \* where each thread is
    pos,            \* local `pos` (push, pop), `now` (publishDurable), `head` (depth)
    prev,           \* local `prev` of publishDurable
    msg,            \* the delta a push carries, or the one a pop has read
    sent,           \* history: position -> the delta its push carried
    returned        \* history: position -> the delta its pop returned

ring  == <<head, tail, durable_tail, seqs, buffer>>
local == <<pc, pos, prev, msg>>
hist  == <<sent, returned>>
vars  == <<head, tail, durable_tail, seqs, buffer, pc, pos, prev, msg, sent, returned>>

Threads == Producers \cup Consumers

Positions == 0 .. MaxPos - 1

Slots == 0 .. Capacity - 1

(* `pos & mask`: the capacity is a power of two. *)
Slot(p) == p % Capacity

Goto(t, label) == pc' = [pc EXCEPT ![t] = label]

(* The call returns: its locals are gone. *)
Leave(t) ==
    /\ pc' = [pc EXCEPT ![t] = "idle"]
    /\ pos' = [pos EXCEPT ![t] = 0]
    /\ prev' = [prev EXCEPT ![t] = 0]
    /\ msg' = [msg EXCEPT ![t] = None]

(* RingBuffer.init as the master runs it: counters zero, seqs[i] = i. *)
Init ==
    /\ head = 0
    /\ tail = 0
    /\ durable_tail = 0
    /\ seqs = [i \in Slots |-> i]
    /\ buffer = [i \in Slots |-> None]
    /\ pc = [t \in Threads |-> "idle"]
    /\ pos = [t \in Threads |-> 0]
    /\ prev = [t \in Threads |-> 0]
    /\ msg = [t \in Threads |-> None]
    /\ sent = [p \in Positions |-> None]
    /\ returned = [p \in Positions |-> None]

-----------------------------------------------------------------------------
(* push *)

(* Entry: load `tail`. *)
PushBegin(t, m) ==
    /\ pc[t] = "idle"
    /\ tail \in Positions
    /\ msg' = [msg EXCEPT ![t] = m]
    /\ pos' = [pos EXCEPT ![t] = tail]
    /\ Goto(t, "push_seq")
    /\ UNCHANGED <<ring, prev, hist>>

(* Mutant of PushFree: a slot of the previous lap counts as free.          *)
PushFree_NoFullTest(t) ==
    /\ pc[t] = "push_seq"
    /\ seqs[Slot(pos[t])] <= pos[t]
    /\ Goto(t, "push_cas")
    /\ UNCHANGED <<ring, pos, prev, msg, hist>>

(* Load the slot's sequence number, slot free for this position: go on to  *)
(* claim it.                                                               *)
PushFree(t) ==
    /\ pc[t] = "push_seq"
    /\ seqs[Slot(pos[t])] = pos[t]
    /\ Goto(t, "push_cas")
    /\ UNCHANGED <<ring, pos, prev, msg, hist>>

(* Mutant of PushRefuse: losing a race is reported as "full".              *)
PushRefuse_OnStale(t) ==
    /\ pc[t] = "push_seq"
    /\ seqs[Slot(pos[t])] # pos[t]
    /\ Leave(t)
    /\ UNCHANGED <<ring, hist>>

(* ... slot still occupied by the previous lap: return false.              *)
PushRefuse(t) ==
    /\ pc[t] = "push_seq"
    /\ seqs[Slot(pos[t])] < pos[t]
    /\ Leave(t)
    /\ UNCHANGED <<ring, hist>>

(* ... another producer was faster: load `tail` again.                     *)
PushStale(t) ==
    /\ pc[t] = "push_seq"
    /\ seqs[Slot(pos[t])] > pos[t]
    /\ Goto(t, "push_reload")
    /\ UNCHANGED <<ring, pos, prev, msg, hist>>

PushReload(t) ==
    /\ pc[t] = "push_reload"
    /\ pos' = [pos EXCEPT ![t] = tail]
    /\ Goto(t, "push_seq")
    /\ UNCHANGED <<ring, prev, msg, hist>>

(* Mutant of PushClaim: the slot is published when it is claimed.          *)
PushClaim_PublishEarly(t) ==
    /\ pc[t] = "push_cas"
    /\ tail = pos[t]
    /\ tail \in Positions
    /\ tail' = tail + 1
    /\ sent' = [sent EXCEPT ![tail] = msg[t]]
    /\ seqs' = [seqs EXCEPT ![Slot(pos[t])] = pos[t] + 1]
    /\ Goto(t, "push_write")
    /\ UNCHANGED <<head, durable_tail, buffer, pos, prev, msg, returned>>

(* Mutant of PushClaim: `tail` is stored without comparing it.             *)
PushClaim_PlainStore(t) ==
    /\ pc[t] = "push_cas"
    /\ pos[t] \in Positions
    /\ tail' = pos[t] + 1
    /\ sent' = [sent EXCEPT ![pos[t]] = msg[t]]
    /\ Goto(t, "push_write")
    /\ UNCHANGED <<head, durable_tail, seqs, buffer, pos, prev, msg, returned>>

(* The compare-and-swap of `tail`: claims the position, or reloads.        *)
PushClaim(t) ==
    /\ pc[t] = "push_cas"
    /\ tail = pos[t]
    /\ tail \in Positions
    /\ tail' = tail + 1
    /\ sent' = [sent EXCEPT ![tail] = msg[t]]
    /\ Goto(t, "push_write")
    /\ UNCHANGED <<head, durable_tail, seqs, buffer, pos, prev, msg, returned>>

PushLose(t) ==
    /\ pc[t] = "push_cas"
    /\ tail # pos[t]
    /\ Goto(t, "push_reload")
    /\ UNCHANGED <<ring, pos, prev, msg, hist>>

PushWrite(t) ==
    /\ pc[t] = "push_write"
    /\ buffer' = [buffer EXCEPT ![Slot(pos[t])] = msg[t]]
    /\ Goto(t, "push_publish")
    /\ UNCHANGED <<head, tail, durable_tail, seqs, pos, prev, msg, hist>>

(* Mutant of PushPublish: the slot's sequence number is never stored.      *)
PushPublish_NoStore(t) ==
    /\ pc[t] = "push_publish"
    /\ Leave(t)
    /\ UNCHANGED <<ring, hist>>

(* Publish the slot and return true. *)
PushPublish(t) ==
    /\ pc[t] = "push_publish"
    /\ seqs' = [seqs EXCEPT ![Slot(pos[t])] = pos[t] + 1]
    /\ Leave(t)
    /\ UNCHANGED <<head, tail, durable_tail, buffer, hist>>

-----------------------------------------------------------------------------
(* pop *)

PopBegin(t) ==
    /\ pc[t] = "idle"
    /\ pos' = [pos EXCEPT ![t] = head]
    /\ Goto(t, "pop_seq")
    /\ UNCHANGED <<ring, prev, msg, hist>>

PopReady(t) ==
    /\ pc[t] = "pop_seq"
    /\ seqs[Slot(pos[t])] = pos[t] + 1
    /\ Goto(t, "pop_cas")
    /\ UNCHANGED <<ring, pos, prev, msg, hist>>

(* Mutant of PopNull: losing a race is reported as "empty".                *)
PopNull_OnStale(t) ==
    /\ pc[t] = "pop_seq"
    /\ seqs[Slot(pos[t])] # pos[t] + 1
    /\ Leave(t)
    /\ UNCHANGED <<ring, hist>>

(* The position is not published yet: return null. *)
PopNull(t) ==
    /\ pc[t] = "pop_seq"
    /\ seqs[Slot(pos[t])] < pos[t] + 1
    /\ Leave(t)
    /\ UNCHANGED <<ring, hist>>

PopStale(t) ==
    /\ pc[t] = "pop_seq"
    /\ seqs[Slot(pos[t])] > pos[t] + 1
    /\ Goto(t, "pop_reload")
    /\ UNCHANGED <<ring, pos, prev, msg, hist>>

PopReload(t) ==
    /\ pc[t] = "pop_reload"
    /\ pos' = [pos EXCEPT ![t] = head]
    /\ Goto(t, "pop_seq")
    /\ UNCHANGED <<ring, prev, msg, hist>>

(* Mutant of PopClaim: the slot is released before its message is read.    *)
PopClaim_ReleaseEarly(t) ==
    /\ pc[t] = "pop_cas"
    /\ head = pos[t]
    /\ head' = head + 1
    /\ seqs' = [seqs EXCEPT ![Slot(pos[t])] = pos[t] + Capacity]
    /\ Goto(t, "pop_read")
    /\ UNCHANGED <<tail, durable_tail, buffer, pos, prev, msg, hist>>

PopClaim(t) ==
    /\ pc[t] = "pop_cas"
    /\ head = pos[t]
    /\ head' = head + 1
    /\ Goto(t, "pop_read")
    /\ UNCHANGED <<tail, durable_tail, seqs, buffer, pos, prev, msg, hist>>

PopLose(t) ==
    /\ pc[t] = "pop_cas"
    /\ head # pos[t]
    /\ Goto(t, "pop_reload")
    /\ UNCHANGED <<ring, pos, prev, msg, hist>>

PopRead(t) ==
    /\ pc[t] = "pop_read"
    /\ msg' = [msg EXCEPT ![t] = buffer[Slot(pos[t])]]
    /\ Goto(t, "pop_release")
    /\ UNCHANGED <<ring, pos, prev, hist>>

(* Mutant of PopRelease: the slot is handed to the previous lap.           *)
PopRelease_WrongLap(t) ==
    /\ pc[t] = "pop_release"
    /\ seqs' = [seqs EXCEPT ![Slot(pos[t])] = pos[t] - Capacity]
    /\ returned' = [returned EXCEPT ![pos[t]] = msg[t]]
    /\ Leave(t)
    /\ UNCHANGED <<head, tail, durable_tail, buffer, sent>>

(* Hand the slot to the next lap and return the message. *)
PopRelease(t) ==
    /\ pc[t] = "pop_release"
    /\ seqs' = [seqs EXCEPT ![Slot(pos[t])] = pos[t] + Capacity]
    /\ returned' = [returned EXCEPT ![pos[t]] = msg[t]]
    /\ Leave(t)
    /\ UNCHANGED <<head, tail, durable_tail, buffer, sent>>

-----------------------------------------------------------------------------
(* publishDurable *)

(* Mutant of DurableLoadHead: publishes the producers' position.           *)
DurableLoadHead_Tail(t) ==
    /\ pc[t] = "idle"
    /\ pos' = [pos EXCEPT ![t] = tail]
    /\ Goto(t, "durable_prev")
    /\ UNCHANGED <<ring, prev, msg, hist>>

DurableLoadHead(t) ==
    /\ pc[t] = "idle"
    /\ pos' = [pos EXCEPT ![t] = head]
    /\ Goto(t, "durable_prev")
    /\ UNCHANGED <<ring, prev, msg, hist>>

DurableLoadPrev(t) ==
    /\ pc[t] = "durable_prev"
    /\ prev' = [prev EXCEPT ![t] = durable_tail]
    /\ Goto(t, "durable_loop")
    /\ UNCHANGED <<ring, pos, msg, hist>>

(* Mutant of DurableCas: a plain store instead of the compare-and-swap.    *)
DurableCas_PlainStore(t) ==
    /\ pc[t] = "durable_loop"
    /\ pos[t] > prev[t]
    /\ durable_tail' = pos[t]
    /\ Leave(t)
    /\ UNCHANGED <<head, tail, seqs, buffer, hist>>

(* `while (now > prev)` with its compare-and-swap; a spurious failure of   *)
(* the weak form reloads the same value and is a stuttering step.          *)
DurableCas(t) ==
    /\ pc[t] = "durable_loop"
    /\ pos[t] > prev[t]
    /\ \/ /\ durable_tail = prev[t]
          /\ durable_tail' = pos[t]
          /\ Leave(t)
       \/ /\ durable_tail # prev[t]
          /\ prev' = [prev EXCEPT ![t] = durable_tail]
          /\ UNCHANGED <<durable_tail, pc, pos, msg>>
    /\ UNCHANGED <<head, tail, seqs, buffer, hist>>

DurableDone(t) ==
    /\ pc[t] = "durable_loop"
    /\ pos[t] <= prev[t]
    /\ Leave(t)
    /\ UNCHANGED <<ring, hist>>

-----------------------------------------------------------------------------
(* depth: `head` first, then `tail`, then the unsigned subtraction.        *)

DepthLoadHead(t) ==
    /\ pc[t] = "idle"
    /\ pos' = [pos EXCEPT ![t] = head]
    /\ Goto(t, "depth_tail")
    /\ UNCHANGED <<ring, prev, msg, hist>>

DepthLoadTail(t) ==
    /\ pc[t] = "depth_tail"
    /\ Leave(t)
    /\ UNCHANGED <<ring, hist>>

-----------------------------------------------------------------------------
(* The producer's process is killed; whatever it had claimed stays claimed.*)
Kill(t) ==
    /\ t \in Mortal
    /\ pc[t] # "dead"
    /\ Goto(t, "dead")
    /\ UNCHANGED <<ring, pos, prev, msg, hist>>

ProducerStep(t) ==
    \/ PushFree(t) \/ PushRefuse(t) \/ PushStale(t) \/ PushReload(t)
    \/ PushClaim(t) \/ PushLose(t) \/ PushWrite(t) \/ PushPublish(t)
    \/ DepthLoadTail(t)

ConsumerStep(t) ==
    \/ PopReady(t) \/ PopNull(t) \/ PopStale(t) \/ PopReload(t)
    \/ PopClaim(t) \/ PopLose(t) \/ PopRead(t) \/ PopRelease(t)
    \/ DurableLoadPrev(t) \/ DurableCas(t) \/ DurableDone(t)

Next ==
    \/ \E t \in Producers :
          \/ \E m \in Msg : PushBegin(t, m)
          \/ DepthLoadHead(t)
          \/ ProducerStep(t)
          \/ Kill(t)
    \/ \E t \in Consumers : PopBegin(t) \/ DurableLoadHead(t) \/ ConsumerStep(t)

Spec == Init /\ [][Next]_vars

(* Every thread the operating system has not killed keeps being scheduled, *)
(* so a call it has entered goes on.  Nothing obliges a client to start a  *)
(* push.  The flusher's loop comes back to pop after whatever else it does *)
(* between two pops (strong, because a publishDurable disables PopBegin    *)
(* for a while).                                                           *)
Fairness ==
    /\ \A t \in Producers : WF_vars(ProducerStep(t))
    /\ \A t \in Consumers : WF_vars(ConsumerStep(t)) /\ SF_vars(PopBegin(t))

FairSpec == Spec /\ Fairness

-----------------------------------------------------------------------------
(* Properties *)

Labels ==
    { "idle", "push_seq", "push_reload", "push_cas", "push_write",
      "push_publish", "pop_seq", "pop_reload", "pop_cas", "pop_read",
      "pop_release", "durable_prev", "durable_loop", "depth_tail", "dead" }

(* Every variable has its type. *)
TypeOK ==
    /\ head \in Nat
    /\ tail \in Nat
    /\ durable_tail \in Nat
    /\ seqs \in [Slots -> Nat]
    /\ buffer \in [Slots -> Msg \cup {None}]
    /\ pc \in [Threads -> Labels]
    /\ pos \in [Threads -> Nat]
    /\ prev \in [Threads -> Nat]
    /\ msg \in [Threads -> Msg \cup {None}]
    /\ sent \in [Positions -> Msg \cup {None}]
    /\ returned \in [Positions -> Msg \cup {None}]

(* A message that pop returned for a position is the message push was      *)
(* called with for that position, however the laps, the producers, the     *)
(* consumers and killed clients interleave.                                *)
DeliveredAsSent ==
    \A p \in Positions : returned[p] # None => returned[p] = sent[p]

(* The 64-byte message of a slot, which is copied without any atomicity,   *)
(* is never written by two producers, nor written and read, at once.       *)
NoSlotRace ==
    \A t, u \in Threads :
        (/\ t # u
         /\ pc[t] \in {"push_write", "push_publish"}
         /\ pc[u] \in {"push_write", "push_publish", "pop_read", "pop_release"})
        => Slot(pos[t]) # Slot(pos[u])

(* head never passes tail, the ring never holds more than its capacity,    *)
(* and depth's `tail - head`, on values loaded at two different moments,   *)
(* never wraps below zero.                                                 *)
Bounded ==
    /\ head <= tail
    /\ tail - head <= Capacity
    /\ \A t \in Producers : pc[t] = "depth_tail" => pos[t] <= tail

(* durable_tail never claims a position that has not been popped.          *)
DurableBehindHead == durable_tail <= head

(* No publishDurable, however late its compare-and-swap, moves the durable *)
(* position backwards; nor do head and tail move backwards.                *)
MonotoneCounters ==
    [][ /\ head' >= head
        /\ tail' >= tail
        /\ durable_tail' >= durable_tail ]_vars

(* push answers "full" only when the slot it needs still belongs to a      *)
(* message of the previous lap that no pop has returned yet.               *)
RefusedOnlyWhenFull ==
    [][ \A t \in Producers :
          PushRefuse(t) => /\ pos[t] >= Capacity
                           /\ returned[pos[t] - Capacity] = None ]_vars

(* pop answers null only at the current head, for a position that is       *)
(* unclaimed or whose producer has not finished publishing it: never for a *)
(* message that is there.                                                  *)
NullOnlyWhenUnpublished ==
    [][ \A t \in Consumers :
          PopNull(t) =>
             /\ pos[t] = head
             /\ \/ head = tail
                \/ \E w \in Producers :
                      /\ pos[w] = head
                      /\ pc[w] \in {"push_write", "push_publish", "dead"} ]_vars

-----------------------------------------------------------------------------
(* The inductive invariant.  The Capacity positions from head on occupy    *)
(* each slot once: those below tail hold a claimed or a published message, *)
(* those from tail on are free or still being read by a pop of the         *)
(* previous lap.                                                           *)

Writing(t) == pc[t] \in {"push_write", "push_publish"}
Reading(t) == pc[t] \in {"pop_read", "pop_release"}
PushLabels == {"push_seq", "push_reload", "push_cas", "push_write", "push_publish"}

Window ==
    /\ head <= tail
    /\ tail <= head + Capacity
    /\ tail <= MaxPos
    /\ durable_tail <= head

Occupied ==
    \A p \in head .. tail - 1 :
        /\ seqs[Slot(p)] \in {p, p + 1}
        /\ seqs[Slot(p)] = p + 1 => buffer[Slot(p)] = sent[p]

Vacant ==
    \A p \in tail .. head + Capacity - 1 :
        seqs[Slot(p)] = p \/ (p >= Capacity /\ seqs[Slot(p)] = p - Capacity + 1)

WriterOwnsSlot ==
    /\ \A t \in Threads : Writing(t) =>
          /\ head <= pos[t] /\ pos[t] < tail
          /\ seqs[Slot(pos[t])] = pos[t]
          /\ sent[pos[t]] = msg[t]
          /\ pc[t] = "push_publish" => buffer[Slot(pos[t])] = msg[t]
    /\ \A t, u \in Threads : Writing(t) /\ Writing(u) /\ t # u => pos[t] # pos[u]

ReaderOwnsSlot ==
    /\ \A t \in Threads : Reading(t) =>
          /\ pos[t] < head /\ tail <= pos[t] + Capacity
          /\ seqs[Slot(pos[t])] = pos[t] + 1
          /\ buffer[Slot(pos[t])] = sent[pos[t]]
          /\ returned[pos[t]] = None
          /\ pc[t] = "pop_release" => msg[t] = sent[pos[t]]
    /\ \A t, u \in Threads : Reading(t) /\ Reading(u) /\ t # u => pos[t] # pos[u]

LocalsFresh ==
    \A t \in Threads :
        /\ pc[t] \in PushLabels => pos[t] <= tail /\ msg[t] \in Msg
        /\ pc[t] = "push_cas" /\ pos[t] = tail => seqs[Slot(pos[t])] = pos[t]
        /\ pc[t] \in {"pop_seq", "pop_cas", "durable_prev", "durable_loop", "depth_tail"}
             => pos[t] <= head
        /\ pc[t] = "pop_cas" /\ pos[t] = head => seqs[Slot(pos[t])] = pos[t] + 1

Returned ==
    \A p \in Positions :
        /\ p >= head => returned[p] = None
        /\ returned[p] # None => returned[p] = sent[p]

(* The inductive invariant of the ring: TypeOK together with the parts     *)
(* above.  It holds in every state of push, pop and publishDurable.        *)
RingInv ==
    /\ TypeOK
    /\ Window
    /\ Occupied
    /\ Vacant
    /\ WriterOwnsSlot
    /\ ReaderOwnsSlot
    /\ LocalsFresh
    /\ Returned

-----------------------------------------------------------------------------

Queue == INSTANCE BoundedQueue WITH reserved <- tail, taken <- head

(* The ring implements the bounded FIFO queue of BoundedQueue.             *)
ImplementsQueue == Queue!Spec

(* The position at head is claimed and unpublished, and nobody is left who *)
(* will publish it.                                                        *)
Hole ==
    /\ head < tail
    /\ seqs[Slot(head)] = head
    /\ \A w \in Producers : Writing(w) => pos[w] # head

(* Every position a producer has claimed is eventually popped and its      *)
(* message returned, unless the ring stops at a hole before it, which only *)
(* a client killed between its claim and its publishing store can leave.   *)
EveryPushConsumed ==
    \A p \in Positions :
        (tail > p) ~> \/ returned[p] # None
                      \/ Hole /\ head <= p /\ \E t \in Mortal : pc[t] = "dead" /\ pos[t] = head

(* A message whose push has returned true is eventually popped.            *)
AcknowledgedPushConsumed ==
    \A p \in Positions :
        (head <= p /\ p < tail /\ seqs[Slot(p)] = p + 1) ~> (returned[p] # None)

=============================================================================
