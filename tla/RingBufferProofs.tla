-------------------------- MODULE RingBufferProofs --------------------------
(***************************************************************************)
(* Proofs about RingBuffer, for every number of producers and consumers,   *)
(* every capacity and every bound on the positions: the inductive          *)
(* invariant RingInv, the safety properties that follow from it, and the   *)
(* refinement of BoundedQueue.                                             *)
(***************************************************************************)
EXTENDS RingBuffer, TLAPS

-----------------------------------------------------------------------------
(* Arithmetic of `pos & mask` *)

(* Quotient and remainder of a position by the capacity.                   *)
LEMMA DivFacts ==
    ASSUME NEW n \in Nat, n > 0, NEW p \in Nat
    PROVE  /\ p % n \in 0 .. n - 1
           /\ p = n * (p \div n) + (p % n)
           /\ p \div n \in Nat
  OBVIOUS

(* Two different laps are at least one capacity apart.                     *)
LEMMA MulGap ==
    ASSUME NEW n \in Nat, n > 0, NEW a \in Int, NEW b \in Int, a < b
    PROVE  n * b - n * a >= n
  OBVIOUS

(* Positions less than one lap apart have different remainders.            *)
LEMMA ModDistinct ==
    ASSUME NEW n \in Nat, n > 0, NEW p \in Nat, NEW q \in Nat, p < q, q - p < n
    PROVE  p % n # q % n
  <1> SUFFICES ASSUME p % n = q % n PROVE FALSE OBVIOUS
  <1> DEFINE a == p \div n
  <1> DEFINE b == q \div n
  <1>1. p = n * a + (p % n) /\ q = n * b + (q % n) /\ a \in Nat /\ b \in Nat
    BY DivFacts
  <1>2. p % n \in Int BY DivFacts
  <1> HIDE DEF a, b
  <1>3. q - p = n * b - n * a BY <1>1, <1>2
  <1>4. CASE a < b BY <1>4, <1>3, MulGap, <1>1
  <1>5. CASE a >= b
    <2>1. n * a >= n * b BY <1>5, <1>1
    <2> QED BY <2>1, <1>3, <1>1
  <1> QED BY <1>4, <1>5, <1>1

(* A position and the same place one lap later have the same remainder.    *)
LEMMA ModPeriodic ==
    ASSUME NEW n \in Nat, n > 0, NEW p \in Nat
    PROVE  (p + n) % n = p % n
  <1> DEFINE a == p \div n
  <1> DEFINE b == (p + n) \div n
  <1> DEFINE r == p % n
  <1> DEFINE s == (p + n) % n
  <1>1. p = n * a + r /\ r \in 0 .. n - 1 /\ a \in Nat BY DivFacts
  <1>2. p + n = n * b + s /\ s \in 0 .. n - 1 /\ b \in Nat
    <2>1. p + n \in Nat OBVIOUS
    <2> QED BY DivFacts, <2>1
  <1> SUFFICES s = r OBVIOUS
  <1> HIDE DEF a, b, r, s
  <1>3. n * (a + 1) = n * a + n BY <1>1
  <1>4. s - r = n * (a + 1) - n * b BY <1>1, <1>2, <1>3
  <1>5. CASE a + 1 < b BY MulGap, <1>5, <1>4, <1>1, <1>2
  <1>6. CASE b < a + 1 BY MulGap, <1>6, <1>4, <1>1, <1>2
  <1>7. CASE b = a + 1 BY <1>7, <1>4, <1>1, <1>2
  <1> QED BY <1>5, <1>6, <1>7, <1>1, <1>2

(* What the proofs below use of Slot: it names a slot, tells positions of  *)
(* the same lap apart, and repeats every lap.                              *)
LEMMA SlotFacts ==
    /\ \A p \in Nat : Slot(p) \in Slots
    /\ \A p, q \in Nat : p < q /\ q - p < Capacity => Slot(p) # Slot(q)
    /\ \A p \in Nat : Slot(p + Capacity) = Slot(p)
  <1> USE RingAssumption
  <1>0. Capacity > 0 OBVIOUS
  <1>1. ASSUME NEW p \in Nat PROVE Slot(p) \in Slots
    BY <1>0, DivFacts DEF Slot, Slots
  <1>2. ASSUME NEW p \in Nat, NEW q \in Nat, p < q, q - p < Capacity
        PROVE  Slot(p) # Slot(q)
    BY <1>0, <1>2, ModDistinct DEF Slot
  <1>3. ASSUME NEW p \in Nat PROVE Slot(p + Capacity) = Slot(p)
    BY <1>0, ModPeriodic DEF Slot
  <1> QED BY <1>1, <1>2, <1>3

(* Two positions less than a lap apart, in either order, are in two slots.  *)
LEMMA SlotDistinct ==
    ASSUME NEW p \in Nat, NEW q \in Nat, p # q, p < q + Capacity, q < p + Capacity
    PROVE  Slot(p) # Slot(q)
  <1> USE RingAssumption
  <1>1. CASE p < q BY <1>1, SlotFacts
  <1>2. CASE q < p BY <1>2, SlotFacts
  <1> QED BY <1>1, <1>2

(* The freshly initialised ring satisfies the invariant.                   *)
LEMMA InitInv == Init => RingInv
  <1> USE RingAssumption
  <1> SUFFICES ASSUME Init PROVE RingInv OBVIOUS
  <1>0. \A p \in 0 .. Capacity - 1 : Slot(p) = p BY DEF Slot
  <1>1. TypeOK BY DEF Init, TypeOK, Slots, Labels
  <1>2. Window /\ Occupied BY DEF Init, Window, Occupied
  <1>3. Vacant BY <1>0 DEF Init, Vacant, Slots
  <1>4. WriterOwnsSlot /\ ReaderOwnsSlot /\ LocalsFresh /\ Returned
    BY DEF Init, WriterOwnsSlot, ReaderOwnsSlot, LocalsFresh, Returned, Writing, Reading, PushLabels, Positions
  <1> QED BY <1>1, <1>2, <1>3, <1>4 DEF RingInv

(* The locals of every thread but t are unchanged.                         *)
OthersKept(t) ==
    \A u \in Threads : u # t => pc'[u] = pc[u] /\ pos'[u] = pos[u] /\ msg'[u] = msg[u]

(* A step that touches neither the header nor a slot keeps the parts of the*)
(* invariant about them.                                                   *)
LEMMA RingKept ==
    ASSUME RingInv, UNCHANGED <<ring, hist>>
    PROVE  Window' /\ Occupied' /\ Vacant' /\ Returned'
  BY DEF RingInv, ring, hist, Window, Occupied, Vacant, Returned

(* Such a step of t, if t owns no slot after it, keeps the slots of the    *)
(* other threads owned.                                                    *)
LEMMA OwnersKept ==
    ASSUME RingInv, NEW t \in Threads, UNCHANGED <<ring, hist>>, OthersKept(t),
           ~Writing(t)', ~Reading(t)'
    PROVE  WriterOwnsSlot' /\ ReaderOwnsSlot'
  <1>1. \A u \in Threads : Writing(u)' => u # t /\ Writing(u)
    BY DEF OthersKept, Writing
  <1>2. \A u \in Threads : Reading(u)' => u # t /\ Reading(u)
    BY DEF OthersKept, Reading
  <1>3. WriterOwnsSlot'
    BY <1>1 DEF RingInv, WriterOwnsSlot, OthersKept, ring, hist
  <1>4. ReaderOwnsSlot'
    BY <1>2 DEF RingInv, ReaderOwnsSlot, OthersKept, ring, hist
  <1> QED BY <1>3, <1>4

(* Every step that only moves a local of push, pop, publishDurable or      *)
(* depth, and the death of a client, preserves the invariant.              *)
LEMMA LocalStep ==
    ASSUME RingInv, NEW t \in Threads,
           \/ \E m \in Msg : PushBegin(t, m)
           \/ PushFree(t) \/ PushRefuse(t) \/ PushStale(t) \/ PushReload(t) \/ PushLose(t)
           \/ PopBegin(t) \/ PopReady(t) \/ PopNull(t) \/ PopStale(t) \/ PopReload(t) \/ PopLose(t)
           \/ DurableLoadHead(t) \/ DurableLoadPrev(t) \/ DurableDone(t)
           \/ DepthLoadHead(t) \/ DepthLoadTail(t) \/ Kill(t)
    PROVE  RingInv'
  <1> USE RingAssumption
  <1> DEFINE Kept == /\ UNCHANGED <<ring, hist>>
                     /\ OthersKept(t)
                     /\ ~Writing(t)' /\ ~Reading(t)'
                     /\ TypeOK' /\ LocalsFresh'
  <1>0. SUFFICES Kept
    BY RingKept, OwnersKept DEF RingInv
  <1> USE DEF RingInv, ring, hist, Goto, Leave, OthersKept, Writing, Reading, TypeOK, Labels
  <1>1. ASSUME NEW m \in Msg, PushBegin(t, m) PROVE Kept
    BY <1>1 DEF PushBegin, LocalsFresh, PushLabels, Positions
  <1>2. CASE PushFree(t) BY <1>2 DEF PushFree, LocalsFresh, PushLabels
  <1>3. CASE PushRefuse(t) BY <1>3 DEF PushRefuse, LocalsFresh, PushLabels
  <1>4. CASE PushStale(t) BY <1>4 DEF PushStale, LocalsFresh, PushLabels
  <1>5. CASE PushReload(t) BY <1>5 DEF PushReload, LocalsFresh, PushLabels
  <1>6. CASE PushLose(t) BY <1>6 DEF PushLose, LocalsFresh, PushLabels
  <1>7. CASE PopBegin(t) BY <1>7 DEF PopBegin, LocalsFresh, PushLabels, Window
  <1>8. CASE PopReady(t) BY <1>8 DEF PopReady, LocalsFresh, PushLabels
  <1>9. CASE PopNull(t) BY <1>9 DEF PopNull, LocalsFresh, PushLabels
  <1>10. CASE PopStale(t) BY <1>10 DEF PopStale, LocalsFresh, PushLabels
  <1>11. CASE PopReload(t) BY <1>11 DEF PopReload, LocalsFresh, PushLabels
  <1>12. CASE PopLose(t) BY <1>12 DEF PopLose, LocalsFresh, PushLabels
  <1>13. CASE DurableLoadHead(t) BY <1>13 DEF DurableLoadHead, LocalsFresh, PushLabels, Window
  <1>14. CASE DurableLoadPrev(t) BY <1>14 DEF DurableLoadPrev, LocalsFresh, PushLabels
  <1>15. CASE DurableDone(t) BY <1>15 DEF DurableDone, LocalsFresh, PushLabels
  <1>16. CASE DepthLoadHead(t) BY <1>16 DEF DepthLoadHead, LocalsFresh, PushLabels
  <1>17. CASE DepthLoadTail(t) BY <1>17 DEF DepthLoadTail, LocalsFresh, PushLabels
  <1>18. CASE Kill(t) BY <1>18 DEF Kill, LocalsFresh, PushLabels
  <1> QED
    BY <1>1, <1>2, <1>3, <1>4, <1>5, <1>6, <1>7, <1>8, <1>9, <1>10, <1>11, <1>12,
       <1>13, <1>14, <1>15, <1>16, <1>17, <1>18


(* The copy of the message out of its slot preserves the invariant.        *)
LEMMA PopReadInv ==
    ASSUME RingInv, NEW t \in Threads, PopRead(t)
    PROVE  RingInv'
  <1> USE RingAssumption, SlotFacts DEF PopRead
  <1>1. UNCHANGED <<ring, hist>> OBVIOUS
  <1>2. TypeOK' BY DEF RingInv, TypeOK, ring, hist, Goto, Labels, Slots
  <1>3. WriterOwnsSlot' BY DEF RingInv, TypeOK, ring, hist, Goto, WriterOwnsSlot, Writing
  <1>4. ReaderOwnsSlot'
    <2>1. \A u \in Threads : Reading(u)' => Reading(u) /\ pos'[u] = pos[u]
      BY DEF RingInv, TypeOK, Goto, Reading
    <2>2. \A u \in Threads : Reading(u)' /\ pc'[u] = "pop_release" => msg'[u] = sent[pos[u]]
      BY DEF RingInv, TypeOK, Goto, Reading, ReaderOwnsSlot
    <2>3. QED BY <2>1, <2>2 DEF RingInv, ReaderOwnsSlot, ring, hist
  <1>5. LocalsFresh' BY DEF RingInv, TypeOK, ring, hist, Goto, LocalsFresh, PushLabels
  <1> QED BY <1>1, <1>2, <1>3, <1>4, <1>5, RingKept DEF RingInv

(* When the compare-and-swap of tail succeeds the ring has room.           *)
LEMMA ClaimHasRoom ==
    ASSUME RingInv, NEW t \in Threads, PushClaim(t)
    PROVE  tail < head + Capacity
  <1> USE RingAssumption
  <1>1. TypeOK BY DEF RingInv
  <1>2. seqs[Slot(tail)] = tail BY DEF RingInv, LocalsFresh, PushClaim
  <1>3. SUFFICES ASSUME tail = head + Capacity PROVE FALSE
    BY <1>1 DEF RingInv, Window, TypeOK
  <1>4. Slot(tail) = Slot(head) BY <1>3, <1>1, SlotFacts DEF TypeOK
  <1>5. seqs[Slot(head)] \in {head, head + 1}
    BY <1>3, <1>1 DEF RingInv, Occupied, TypeOK
  <1> QED BY <1>2, <1>3, <1>4, <1>5, <1>1 DEF TypeOK

(* When the compare-and-swap of head succeeds the ring has a message.      *)
LEMMA ClaimHasMessage ==
    ASSUME RingInv, NEW t \in Threads, PopClaim(t)
    PROVE  head < tail
  <1> USE RingAssumption
  <1>1. TypeOK BY DEF RingInv
  <1>2. seqs[Slot(head)] = head + 1 BY DEF RingInv, LocalsFresh, PopClaim
  <1>3. SUFFICES ASSUME head = tail PROVE FALSE
    BY <1>1 DEF RingInv, Window, TypeOK
  <1>4. seqs[Slot(head)] = head \/ seqs[Slot(head)] = head - Capacity + 1
    BY <1>3, <1>1 DEF RingInv, Vacant, TypeOK
  <1> QED BY <1>2, <1>4, <1>1 DEF TypeOK

(* The compare-and-swap of tail preserves the invariant: the claimed slot  *)
(* was vacant, and no reader of the previous lap still owns it.            *)
LEMMA PushClaimInv ==
    ASSUME RingInv, NEW t \in Threads, PushClaim(t)
    PROVE  RingInv'
  <1> USE RingAssumption DEF PushClaim
  <1>t. TypeOK BY DEF RingInv
  <1>f. seqs[Slot(tail)] = tail BY DEF RingInv, LocalsFresh
  <1>1. TypeOK' BY <1>t DEF TypeOK, Goto, Labels, Positions
  <1>2. tail < head + Capacity BY ClaimHasRoom
  <1>3. Window' BY <1>2, <1>t DEF RingInv, Window, TypeOK, Positions
  <1>4. Occupied'
    <2> SUFFICES ASSUME NEW p \in (head .. tail)
                 PROVE  /\ seqs[Slot(p)] \in {p, p + 1}
                        /\ seqs[Slot(p)] = p + 1 => buffer[Slot(p)] = sent'[p]
      BY <1>t DEF Occupied, TypeOK
    <2>1. CASE p = tail BY <2>1, <1>f, <1>t DEF TypeOK
    <2>2. CASE p # tail
      BY <2>2, <1>t DEF RingInv, Occupied, TypeOK, Window, Positions
    <2>3. QED BY <2>1, <2>2
  <1>5. Vacant' BY <1>t DEF RingInv, Vacant, TypeOK
  <1>6. WriterOwnsSlot' BY SMTT(60), <1>t, <1>f DEF RingInv, WriterOwnsSlot, LocalsFresh, Window, Writing, Goto, TypeOK, Positions
  <1>7. ReaderOwnsSlot'
    <2>1. \A u \in Threads : Reading(u)' => Reading(u) /\ pc'[u] = pc[u]
      BY <1>t DEF TypeOK, Goto, Reading
    <2>2. ASSUME NEW u \in Threads, Reading(u) PROVE tail + 1 <= pos[u] + Capacity
      <3>1. pos[u] \in Nat /\ tail <= pos[u] + Capacity /\ seqs[Slot(pos[u])] = pos[u] + 1
        BY <2>2, <1>t DEF RingInv, ReaderOwnsSlot, TypeOK
      <3>2. tail # pos[u] + Capacity
        BY <3>1, <1>f, SlotFacts
      <3>3. QED BY <3>1, <3>2, <1>t DEF TypeOK
    <2>3. \A u \in Threads : Reading(u) => sent'[pos[u]] = sent[pos[u]]
      BY <1>t DEF RingInv, ReaderOwnsSlot, TypeOK, Window, Positions
    <2>4. QED BY <2>1, <2>2, <2>3 DEF RingInv, ReaderOwnsSlot
  <1>8. LocalsFresh' BY <1>t DEF RingInv, LocalsFresh, Goto, PushLabels, TypeOK
  <1>9. Returned' BY <1>t DEF RingInv, Returned, Window, Positions, TypeOK
  <1> QED BY <1>1, <1>3, <1>4, <1>5, <1>6, <1>7, <1>8, <1>9 DEF RingInv

(* The copy of the message into its slot disturbs no slot another thread   *)
(* owns.                                                                   *)
LEMMA PushWriteInv ==
    ASSUME RingInv, NEW t \in Threads, PushWrite(t)
    PROVE  RingInv'
  <1> USE RingAssumption DEF PushWrite
  <1>t. TypeOK BY DEF RingInv
  <1>w. /\ pos[t] \in Nat /\ head <= pos[t] /\ pos[t] < tail
        /\ seqs[Slot(pos[t])] = pos[t] /\ sent[pos[t]] = msg[t]
    BY <1>t DEF RingInv, WriterOwnsSlot, Writing, TypeOK
  <1>d. \A p \in Nat : Slot(p) # Slot(pos[t]) => buffer'[Slot(p)] = buffer[Slot(p)]
    BY <1>t, <1>w, SlotFacts DEF TypeOK
  <1>1. TypeOK'
    BY <1>t, <1>w, SlotFacts DEF TypeOK, Goto, Labels, hist
  <1>2. Window' /\ Vacant' /\ Returned'
    BY DEF RingInv, Window, Vacant, Returned, hist
  <1>3. Occupied'
    <2> SUFFICES ASSUME NEW p \in (head .. tail - 1), seqs[Slot(p)] = p + 1
                 PROVE  buffer'[Slot(p)] = sent[p]
      BY DEF RingInv, Occupied, hist
    <2>1. p # pos[t] BY <1>w
    <2>2. Slot(p) # Slot(pos[t])
      BY <2>1, <1>w, <1>t, SlotFacts DEF RingInv, Window, TypeOK
    <2>3. QED BY <2>2, <1>d, <1>t DEF RingInv, Occupied, TypeOK
  <1>4. WriterOwnsSlot'
    <2>1. ASSUME NEW u \in Threads, Writing(u)'
          PROVE  /\ Writing(u)
                 /\ pc'[u] = "push_publish" => buffer'[Slot(pos[u])] = msg[u]
      <3>1. Writing(u) BY <2>1, <1>t DEF Writing, Goto, TypeOK
      <3>2. CASE u = t BY <3>1, <3>2, <1>w, <1>t, SlotFacts DEF TypeOK
      <3>3. CASE u # t
        <4>1. /\ pos[u] # pos[t] /\ pos[u] \in Nat /\ head <= pos[u] /\ pos[u] < tail
          BY <3>1, <3>3, <1>t DEF RingInv, WriterOwnsSlot, Writing, TypeOK
        <4>2. Slot(pos[u]) # Slot(pos[t])
          BY <4>1, <1>w, <1>t, SlotDistinct DEF RingInv, Window, TypeOK
        <4>3. pc'[u] = pc[u] BY <3>3, <1>t DEF Goto, TypeOK
        <4>4. QED BY <3>1, <4>1, <4>2, <4>3, <1>d DEF RingInv, WriterOwnsSlot
      <3>4. QED BY <3>2, <3>3, <3>1
    <2>2. QED BY <2>1 DEF RingInv, WriterOwnsSlot, hist
  <1>5. ReaderOwnsSlot'
    <2>1. ASSUME NEW u \in Threads, Reading(u)'
          PROVE  Reading(u) /\ pc'[u] = pc[u] /\ buffer'[Slot(pos[u])] = sent[pos[u]]
      <3>1. Reading(u) /\ pc'[u] = pc[u] BY <2>1, <1>t DEF Reading, Goto, TypeOK
      <3>2. /\ pos[u] \in Nat /\ pos[u] < head /\ tail <= pos[u] + Capacity
            /\ buffer[Slot(pos[u])] = sent[pos[u]]
        BY <3>1, <1>t DEF RingInv, ReaderOwnsSlot, TypeOK
      <3>3. Slot(pos[u]) # Slot(pos[t])
        BY <3>2, <1>w, <1>t, SlotFacts DEF TypeOK
      <3>4. QED BY <3>1, <3>2, <3>3, <1>d
    <2>2. QED BY <2>1 DEF RingInv, ReaderOwnsSlot, hist
  <1>6. LocalsFresh' BY <1>t DEF RingInv, LocalsFresh, Goto, PushLabels, TypeOK
  <1> QED BY <1>1, <1>2, <1>3, <1>4, <1>5, <1>6 DEF RingInv

(* The store of pos + 1 publishes the written message and nothing else.    *)
LEMMA PushPublishInv ==
    ASSUME RingInv, NEW t \in Threads, PushPublish(t)
    PROVE  RingInv'
  <1> USE RingAssumption DEF PushPublish
  <1>t. TypeOK BY DEF RingInv
  <1>w. /\ pos[t] \in Nat /\ head <= pos[t] /\ pos[t] < tail
        /\ seqs[Slot(pos[t])] = pos[t] /\ sent[pos[t]] = msg[t]
        /\ buffer[Slot(pos[t])] = msg[t]
    BY <1>t DEF RingInv, WriterOwnsSlot, Writing, TypeOK
  <1>d. \A p \in Nat : IF Slot(p) = Slot(pos[t]) THEN seqs'[Slot(p)] = pos[t] + 1
                                                 ELSE seqs'[Slot(p)] = seqs[Slot(p)]
    BY <1>t, <1>w, SlotFacts DEF TypeOK
  <1>b. head <= tail /\ tail <= head + Capacity /\ head \in Nat /\ tail \in Nat
    BY <1>t DEF RingInv, Window, TypeOK
  <1>1. TypeOK' BY <1>t, <1>w, SlotFacts DEF TypeOK, Leave, Labels, hist
  <1>2. Window' /\ Returned'
    BY DEF RingInv, Window, Returned, hist
  <1>3. Occupied'
    <2> SUFFICES ASSUME NEW p \in (head .. tail - 1)
                 PROVE  /\ seqs'[Slot(p)] \in {p, p + 1}
                        /\ seqs'[Slot(p)] = p + 1 => buffer[Slot(p)] = sent[p]
      BY DEF Occupied, hist
    <2>1. CASE p = pos[t] BY <2>1, <1>w, <1>d
    <2>2. CASE p # pos[t]
      <3>1. Slot(p) # Slot(pos[t]) BY SMTT(60), <2>2, <1>w, <1>b, SlotFacts
      <3>2. QED BY <3>1, <1>d, <1>b DEF RingInv, Occupied
    <2>3. QED BY <2>1, <2>2
  <1>4. Vacant'
    <2> SUFFICES ASSUME NEW p \in (tail .. head + Capacity - 1)
                 PROVE  seqs'[Slot(p)] = p \/ (p >= Capacity /\ seqs'[Slot(p)] = p - Capacity + 1)
      BY DEF Vacant
    <2>1. Slot(p) # Slot(pos[t]) BY <1>w, <1>b, SlotFacts
    <2>2. QED BY <2>1, <1>d, <1>b DEF RingInv, Vacant
  <1>5. WriterOwnsSlot'
    <2>1. ASSUME NEW u \in Threads, Writing(u)'
          PROVE  /\ Writing(u) /\ u # t /\ pc'[u] = pc[u] /\ pos'[u] = pos[u] /\ msg'[u] = msg[u]
                 /\ seqs'[Slot(pos[u])] = pos[u]
      <3>1. Writing(u) /\ u # t /\ pc'[u] = pc[u] /\ pos'[u] = pos[u] /\ msg'[u] = msg[u]
        BY <2>1, <1>t DEF Writing, Leave, TypeOK
      <3>2. /\ pos[u] # pos[t] /\ pos[u] \in Nat /\ head <= pos[u] /\ pos[u] < tail
            /\ seqs[Slot(pos[u])] = pos[u]
        BY <3>1, <1>t DEF RingInv, WriterOwnsSlot, Writing, TypeOK
      <3>3. Slot(pos[u]) # Slot(pos[t]) BY <3>2, <1>w, <1>b, SlotFacts
      <3>4. QED BY <3>1, <3>2, <3>3, <1>d
    <2>2. QED BY <2>1 DEF RingInv, WriterOwnsSlot, hist
  <1>6. ReaderOwnsSlot'
    <2>1. ASSUME NEW u \in Threads, Reading(u)'
          PROVE  /\ Reading(u) /\ pc'[u] = pc[u] /\ pos'[u] = pos[u] /\ msg'[u] = msg[u]
                 /\ seqs'[Slot(pos[u])] = pos[u] + 1
      <3>1. Reading(u) /\ pc'[u] = pc[u] /\ pos'[u] = pos[u] /\ msg'[u] = msg[u]
        BY <2>1, <1>t DEF Reading, Leave, TypeOK
      <3>2. /\ pos[u] \in Nat /\ pos[u] < head /\ tail <= pos[u] + Capacity
            /\ seqs[Slot(pos[u])] = pos[u] + 1
        BY <3>1, <1>t DEF RingInv, ReaderOwnsSlot, TypeOK
      <3>3. Slot(pos[u]) # Slot(pos[t]) BY <3>2, <1>w, <1>b, SlotFacts
      <3>4. QED BY <3>1, <3>2, <3>3, <1>d
    <2>2. QED BY <2>1 DEF RingInv, ReaderOwnsSlot, hist
  <1>7. LocalsFresh'
    <2>1. ASSUME NEW u \in Threads, pc[u] = "push_cas", pos[u] = tail
          PROVE  seqs'[Slot(pos[u])] = pos[u]
      <3>1. seqs[Slot(tail)] = tail BY <2>1 DEF RingInv, LocalsFresh
      <3>2. Slot(tail) # Slot(pos[t]) BY <3>1, <1>w
      <3>3. QED BY <2>1, <3>1, <3>2, <1>d, <1>b
    <2>2. ASSUME NEW u \in Threads, pc[u] = "pop_cas", pos[u] = head
          PROVE  seqs'[Slot(pos[u])] = pos[u] + 1
      <3>1. seqs[Slot(head)] = head + 1 BY <2>2 DEF RingInv, LocalsFresh
      <3>2. pos[t] # head BY <3>1, <1>w, <1>b
      <3>2a. Slot(head) # Slot(pos[t])
        <4>1. SUFFICES ASSUME Slot(head) = Slot(pos[t]) PROVE FALSE OBVIOUS
        <4>2. pos[t] = head + 1 BY <4>1, <3>1, <1>w
        <4>3. QED BY <4>1, <4>2, <1>b, SlotDistinct
      <3>3. QED BY <2>2, <3>1, <3>2a, <1>d, <1>b
    <2>3. \A u \in Threads : u # t => pc'[u] = pc[u] /\ pos'[u] = pos[u] /\ msg'[u] = msg[u]
      BY <1>t DEF Leave, TypeOK
    <2>4. pc'[t] = "idle" BY <1>t DEF Leave, TypeOK
    <2>5. QED BY <2>1, <2>2, <2>3, <2>4 DEF RingInv, LocalsFresh, PushLabels
  <1> QED BY <1>1, <1>2, <1>3, <1>4, <1>5, <1>6, <1>7 DEF RingInv

(* The compare-and-swap of head preserves the invariant: the popped slot   *)
(* was published, and becomes the vacant slot of the next lap.             *)
LEMMA PopClaimInv ==
    ASSUME RingInv, NEW t \in Threads, PopClaim(t)
    PROVE  RingInv'
  <1> USE RingAssumption DEF PopClaim
  <1>t. TypeOK BY DEF RingInv
  <1>f. seqs[Slot(head)] = head + 1 BY DEF RingInv, LocalsFresh
  <1>b. /\ head <= tail /\ tail <= head + Capacity /\ head \in Nat /\ tail \in Nat
        /\ tail <= MaxPos
    BY <1>t DEF RingInv, Window, TypeOK
  <1>1. TypeOK' BY <1>t DEF TypeOK, Goto, Labels, hist
  <1>2. head < tail BY ClaimHasMessage
  <1>3. Window' BY <1>2, <1>t DEF RingInv, Window, TypeOK
  <1>4. Occupied' BY <1>b DEF RingInv, Occupied, hist
  <1>5. Vacant'
    <2> SUFFICES ASSUME NEW p \in (tail .. head + Capacity)
                 PROVE  seqs[Slot(p)] = p \/ (p >= Capacity /\ seqs[Slot(p)] = p - Capacity + 1)
      BY <1>b DEF Vacant
    <2>1. CASE p = head + Capacity BY <2>1, <1>f, <1>b, SlotFacts
    <2>2. CASE p # head + Capacity BY <2>2, <1>b DEF RingInv, Vacant
    <2>3. QED BY <2>1, <2>2
  <1>6. WriterOwnsSlot'
    <2>1. ASSUME NEW u \in Threads, Writing(u)'
          PROVE  Writing(u) /\ pc'[u] = pc[u] /\ head + 1 <= pos[u]
      <3>1. Writing(u) /\ pc'[u] = pc[u] BY <2>1, <1>t DEF Writing, Goto, TypeOK
      <3>2. pos[u] \in Nat /\ head <= pos[u] /\ seqs[Slot(pos[u])] = pos[u]
        BY <3>1, <1>t DEF RingInv, WriterOwnsSlot, TypeOK
      <3>3. QED BY <3>1, <3>2, <1>f, <1>b
    <2>2. QED BY <2>1 DEF RingInv, WriterOwnsSlot, hist
  <1>7. ReaderOwnsSlot'
    <2>1. buffer[Slot(head)] = sent[head] /\ returned[head] = None
      BY <1>2, <1>b, <1>f DEF RingInv, Occupied, Returned, Positions
    <2>2. \A u \in Threads : Reading(u)' =>
             \/ u = t /\ pc'[u] = "pop_read" /\ pos[u] = head
             \/ u # t /\ Reading(u) /\ pc'[u] = pc[u]
      BY <1>t DEF Reading, Goto, TypeOK
    <2>3. \A u \in Threads : Reading(u) => pos[u] < head /\ pos[u] \in Nat
      BY <1>t DEF RingInv, ReaderOwnsSlot, TypeOK
    <2>4. ASSUME NEW u \in Threads, Reading(u)'
          PROVE  /\ pos[u] < head + 1 /\ tail <= pos[u] + Capacity
                 /\ seqs[Slot(pos[u])] = pos[u] + 1
                 /\ buffer[Slot(pos[u])] = sent[pos[u]]
                 /\ returned[pos[u]] = None
                 /\ pc'[u] = "pop_release" => msg[u] = sent[pos[u]]
      BY <2>4, <2>1, <2>2, <2>3, <1>b, <1>f DEF RingInv, ReaderOwnsSlot
    <2>5. ASSUME NEW u \in Threads, NEW v \in Threads, Reading(u)', Reading(v)', u # v
          PROVE  pos[u] # pos[v]
      BY <2>5, <2>2, <2>3, <1>b DEF RingInv, ReaderOwnsSlot
    <2>6. QED BY <2>4, <2>5 DEF ReaderOwnsSlot, hist
  <1>8. LocalsFresh' BY <1>t DEF RingInv, LocalsFresh, Goto, PushLabels, TypeOK
  <1>9. Returned' BY <1>b DEF RingInv, Returned, Positions, hist
  <1> QED BY <1>1, <1>3, <1>4, <1>5, <1>6, <1>7, <1>8, <1>9 DEF RingInv

(* The store of pos + capacity hands the slot to the next lap.             *)
LEMMA PopReleaseInv ==
    ASSUME RingInv, NEW t \in Threads, PopRelease(t)
    PROVE  RingInv'
  <1> USE RingAssumption DEF PopRelease
  <1>t. TypeOK BY DEF RingInv
  <1>r. /\ pos[t] \in Nat /\ pos[t] < head /\ tail <= pos[t] + Capacity
        /\ seqs[Slot(pos[t])] = pos[t] + 1
        /\ msg[t] = sent[pos[t]] /\ returned[pos[t]] = None
    BY <1>t DEF RingInv, ReaderOwnsSlot, Reading, TypeOK
  <1>b. /\ head <= tail /\ tail <= head + Capacity /\ head \in Nat /\ tail \in Nat
        /\ tail <= MaxPos
    BY <1>t DEF RingInv, Window, TypeOK
  <1>d. \A p \in Nat : IF Slot(p) = Slot(pos[t]) THEN seqs'[Slot(p)] = pos[t] + Capacity
                                                 ELSE seqs'[Slot(p)] = seqs[Slot(p)]
    BY <1>t, <1>r, SlotFacts DEF TypeOK
  <1>1. TypeOK'
    <2>1. pos[t] + Capacity \in Nat /\ pos[t] \in Positions
      BY <1>r, <1>b DEF Positions
    <2>2. QED BY <1>t, <1>r, <2>1, SlotFacts DEF TypeOK, Leave, Labels
  <1>2. Window' BY DEF RingInv, Window
  <1>3. Occupied'
    <2> SUFFICES ASSUME NEW p \in (head .. tail - 1)
                 PROVE  /\ seqs'[Slot(p)] \in {p, p + 1}
                        /\ seqs'[Slot(p)] = p + 1 => buffer[Slot(p)] = sent[p]
      BY DEF Occupied
    <2>1. Slot(p) # Slot(pos[t]) BY <1>r, <1>b, SlotFacts
    <2>2. QED BY <2>1, <1>d, <1>b DEF RingInv, Occupied
  <1>4. Vacant'
    <2> SUFFICES ASSUME NEW p \in (tail .. head + Capacity - 1)
                 PROVE  seqs'[Slot(p)] = p \/ (p >= Capacity /\ seqs'[Slot(p)] = p - Capacity + 1)
      BY DEF Vacant
    <2>1. CASE p = pos[t] + Capacity BY <2>1, <1>r, <1>d, SlotFacts
    <2>2. CASE p # pos[t] + Capacity
      <3>1. Slot(p) # Slot(pos[t] + Capacity) BY <2>2, <1>r, <1>b, SlotDistinct
      <3>2. Slot(p) # Slot(pos[t]) BY <3>1, <1>r, SlotFacts
      <3>3. QED BY <3>2, <1>d, <1>b DEF RingInv, Vacant
    <2>3. QED BY <2>1, <2>2
  <1>5. WriterOwnsSlot'
    <2>1. ASSUME NEW u \in Threads, Writing(u)'
          PROVE  /\ Writing(u) /\ pc'[u] = pc[u] /\ pos'[u] = pos[u] /\ msg'[u] = msg[u]
                 /\ seqs'[Slot(pos[u])] = pos[u]
      <3>1. Writing(u) /\ pc'[u] = pc[u] /\ pos'[u] = pos[u] /\ msg'[u] = msg[u]
        BY <2>1, <1>t DEF Writing, Leave, TypeOK
      <3>2. pos[u] \in Nat /\ seqs[Slot(pos[u])] = pos[u] /\ head <= pos[u] /\ pos[u] < tail
        BY <3>1, <1>t DEF RingInv, WriterOwnsSlot, TypeOK
      <3>3. Slot(pos[u]) # Slot(pos[t]) BY <3>2, <1>r, <1>b, SlotFacts
      <3>4. QED BY <3>1, <3>2, <3>3, <1>d
    <2>2. QED BY <2>1 DEF RingInv, WriterOwnsSlot
  <1>6. ReaderOwnsSlot'
    <2>1. ASSUME NEW u \in Threads, Reading(u)'
          PROVE  /\ Reading(u) /\ pc'[u] = pc[u] /\ pos'[u] = pos[u] /\ msg'[u] = msg[u]
                 /\ seqs'[Slot(pos[u])] = pos[u] + 1
                 /\ returned'[pos[u]] = None
      <3>1. Reading(u) /\ u # t /\ pc'[u] = pc[u] /\ pos'[u] = pos[u] /\ msg'[u] = msg[u]
        BY <2>1, <1>t DEF Reading, Leave, TypeOK
      <3>2. /\ pos[u] \in Nat /\ pos[u] < head /\ tail <= pos[u] + Capacity
            /\ seqs[Slot(pos[u])] = pos[u] + 1 /\ pos[u] # pos[t] /\ returned[pos[u]] = None
        BY <3>1, <1>t DEF RingInv, ReaderOwnsSlot, Reading, TypeOK
      <3>3. Slot(pos[u]) # Slot(pos[t]) BY <3>2, <1>r, <1>b, SlotFacts
      <3>4. returned'[pos[u]] = None BY <3>2, <1>t, <1>b DEF TypeOK, Positions
      <3>5. QED BY <3>1, <3>2, <3>3, <3>4, <1>d
    <2>2. QED BY <2>1 DEF RingInv, ReaderOwnsSlot
  <1>7. LocalsFresh'
    <2>1. ASSUME NEW u \in Threads, pc[u] = "push_cas", pos[u] = tail
          PROVE  seqs'[Slot(pos[u])] = pos[u]
      <3>1. seqs[Slot(tail)] = tail BY <2>1 DEF RingInv, LocalsFresh
      <3>2. CASE Slot(tail) # Slot(pos[t]) BY <2>1, <3>1, <3>2, <1>d, <1>b
      <3>3. CASE Slot(tail) = Slot(pos[t]) BY <3>1, <3>3, <1>r, <1>b, SlotFacts
      <3>4. QED BY <3>2, <3>3
    <2>2. ASSUME NEW u \in Threads, pc[u] = "pop_cas", pos[u] = head
          PROVE  seqs'[Slot(pos[u])] = pos[u] + 1
      <3>1. seqs[Slot(head)] = head + 1 BY <2>2 DEF RingInv, LocalsFresh
      <3>2. Slot(head) # Slot(pos[t]) BY <3>1, <1>r, <1>b
      <3>3. QED BY <2>2, <3>1, <3>2, <1>d, <1>b
    <2>3. \A u \in Threads : u # t => pc'[u] = pc[u] /\ pos'[u] = pos[u] /\ msg'[u] = msg[u]
      BY <1>t DEF Leave, TypeOK
    <2>4. pc'[t] = "idle" BY <1>t DEF Leave, TypeOK
    <2>5. QED BY <2>1, <2>2, <2>3, <2>4 DEF RingInv, LocalsFresh, PushLabels
  <1>8. Returned'
    BY <1>r, <1>b, <1>t DEF RingInv, Returned, Positions, TypeOK
  <1> QED BY <1>1, <1>2, <1>3, <1>4, <1>5, <1>6, <1>7, <1>8 DEF RingInv

(* publishDurable preserves the invariant: the head it loaded is still     *)
(* behind head.                                                            *)
LEMMA DurableCasInv ==
    ASSUME RingInv, NEW t \in Threads, DurableCas(t)
    PROVE  RingInv'
  <1> USE RingAssumption DEF DurableCas
  <1>t. TypeOK BY DEF RingInv
  <1>p. /\ pc[t] = "durable_loop" /\ pos[t] \in Nat /\ pos[t] <= head
        /\ durable_tail' = pos[t] \/ durable_tail' = durable_tail
    BY <1>t DEF RingInv, LocalsFresh, TypeOK
  <1>k. /\ OthersKept(t) /\ pc'[t] \in {"idle", "durable_loop"}
        /\ pc'[t] = "durable_loop" => pos'[t] = pos[t]
    BY <1>t DEF OthersKept, Leave, TypeOK
  <1>1. TypeOK' BY <1>t DEF TypeOK, Leave, Labels, hist
  <1>2. Window' BY <1>p DEF RingInv, Window
  <1>3. Occupied' /\ Vacant' /\ Returned'
    BY DEF RingInv, Occupied, Vacant, Returned, hist
  <1>4. WriterOwnsSlot'
    <2>1. \A u \in Threads : Writing(u)' => u # t /\ Writing(u)
      BY <1>k DEF OthersKept, Writing
    <2>2. QED BY <2>1, <1>k DEF RingInv, WriterOwnsSlot, OthersKept, hist
  <1>5. ReaderOwnsSlot'
    <2>1. \A u \in Threads : Reading(u)' => u # t /\ Reading(u)
      BY <1>k DEF OthersKept, Reading
    <2>2. QED BY <2>1, <1>k DEF RingInv, ReaderOwnsSlot, OthersKept, hist
  <1>6. LocalsFresh' BY <1>k, <1>p DEF RingInv, LocalsFresh, OthersKept, PushLabels
  <1> QED BY <1>1, <1>2, <1>3, <1>4, <1>5, <1>6 DEF RingInv

(* Every step of the ring preserves the invariant.                         *)
LEMMA NextInv == RingInv /\ [Next]_vars => RingInv'
  <1> SUFFICES ASSUME RingInv, [Next]_vars PROVE RingInv' OBVIOUS
  <1>1. CASE UNCHANGED vars
    BY <1>1 DEF vars, RingInv, TypeOK, Window, Occupied, Vacant, WriterOwnsSlot,
                ReaderOwnsSlot, LocalsFresh, Returned, Writing, Reading
  <1>2. ASSUME NEW t \in Producers,
               \/ \E m \in Msg : PushBegin(t, m)
               \/ DepthLoadHead(t)
               \/ ProducerStep(t)
               \/ Kill(t)
        PROVE  RingInv'
    <2>1. t \in Threads BY DEF Threads
    <2>2. QED
      BY <1>2, <2>1, LocalStep, PushClaimInv, PushWriteInv, PushPublishInv DEF ProducerStep
  <1>3. ASSUME NEW t \in Consumers, PopBegin(t) \/ DurableLoadHead(t) \/ ConsumerStep(t)
        PROVE  RingInv'
    <2>1. t \in Threads BY DEF Threads
    <2>2. QED
      BY <1>3, <2>1, LocalStep, PopClaimInv, PopReadInv, PopReleaseInv, DurableCasInv
      DEF ConsumerStep
  <1> QED BY <1>1, <1>2, <1>3 DEF Next

(* The inductive invariant holds in every reachable state of the ring.     *)
THEOREM RingInvariant == Spec => []RingInv
  BY InitInv, NextInv, PTL DEF Spec

(* Every variable keeps its type.                                          *)
THEOREM TypeCorrect == Spec => []TypeOK
  <1>1. RingInv => TypeOK BY DEF RingInv
  <1> QED BY <1>1, RingInvariant, PTL

(* Whatever pop returns for a position is what push was called with there. *)
THEOREM Delivery == Spec => []DeliveredAsSent
  <1>1. RingInv => DeliveredAsSent BY DEF RingInv, Returned, DeliveredAsSent
  <1> QED BY <1>1, RingInvariant, PTL

(* The non-atomic copies of messages never overlap on a slot, so the plain *)
(* (non-atomic) accesses of push and pop are not a data race.              *)
THEOREM RaceFreedom == Spec => []NoSlotRace
  <1> USE RingAssumption
  <1>1. ASSUME RingInv, NEW t \in Threads, NEW u \in Threads, t # u, Writing(t),
               Writing(u) \/ Reading(u)
        PROVE  Slot(pos[t]) # Slot(pos[u])
    <2>1. /\ pos[t] \in Nat /\ head <= pos[t] /\ pos[t] < tail
          /\ pos[u] \in Nat /\ head \in Nat /\ tail \in Nat /\ tail <= head + Capacity
      BY <1>1 DEF RingInv, TypeOK, WriterOwnsSlot, Window
    <2>2. CASE Writing(u)
      <3>1. head <= pos[u] /\ pos[u] < tail /\ pos[u] # pos[t]
        BY <1>1, <2>2 DEF RingInv, WriterOwnsSlot
      <3>2. QED BY <2>1, <3>1, SlotDistinct
    <2>3. CASE Reading(u)
      <3>1. pos[u] < head /\ tail <= pos[u] + Capacity
        BY <1>1, <2>3 DEF RingInv, ReaderOwnsSlot
      <3>2. QED BY <2>1, <3>1, SlotDistinct
    <2>4. QED BY <1>1, <2>2, <2>3
  <1>2. RingInv => NoSlotRace BY <1>1 DEF NoSlotRace, Writing, Reading
  <1> QED BY <1>2, RingInvariant, PTL

(* head <= tail <= head + Capacity, and depth's subtraction never wraps.   *)
THEOREM Boundedness == Spec => []Bounded
  <1>1. RingInv => Bounded
    BY RingAssumption DEF RingInv, TypeOK, Window, LocalsFresh, Bounded, Threads
  <1> QED BY <1>1, RingInvariant, PTL

(* durable_tail never claims a position that was not popped.               *)
THEOREM DurableIsPopped == Spec => []DurableBehindHead
  <1>1. RingInv => DurableBehindHead BY DEF RingInv, Window, DurableBehindHead
  <1> QED BY <1>1, RingInvariant, PTL

(* head, tail and durable_tail never move backwards.                       *)
THEOREM Monotonicity == Spec => MonotoneCounters
  <1> DEFINE Mono == head' >= head /\ tail' >= tail /\ durable_tail' >= durable_tail
  <1>1. RingInv /\ [Next]_vars => Mono
    <2> SUFFICES ASSUME RingInv, [Next]_vars PROVE Mono OBVIOUS
    <2>t. /\ head \in Nat /\ tail \in Nat /\ durable_tail \in Nat
          /\ \A t \in Threads : pos[t] \in Nat /\ prev[t] \in Nat
      BY DEF RingInv, TypeOK
    <2> USE DEF ring
    <2>1. CASE UNCHANGED vars BY <2>1, <2>t DEF vars
    <2>2. ASSUME NEW t \in Producers,
                 \/ \E m \in Msg : PushBegin(t, m)
                 \/ DepthLoadHead(t)
                 \/ ProducerStep(t)
                 \/ Kill(t)
          PROVE  Mono
      BY <2>2, <2>t
      DEF ProducerStep, PushBegin, DepthLoadHead, DepthLoadTail, Kill, PushFree, PushRefuse,
          PushStale, PushReload, PushClaim, PushLose, PushWrite, PushPublish
    <2>3. ASSUME NEW t \in Consumers, PopBegin(t) \/ DurableLoadHead(t) \/ ConsumerStep(t)
          PROVE  Mono
      BY <2>3, <2>t
      DEF Threads, ConsumerStep, PopBegin, DurableLoadHead, DurableLoadPrev, DurableCas,
          DurableDone, PopReady, PopNull, PopStale, PopReload, PopClaim, PopLose, PopRead,
          PopRelease
    <2>4. QED BY <2>1, <2>2, <2>3 DEF Next
  <1> QED BY <1>1, RingInvariant, PTL DEF Spec, MonotoneCounters

(* The ring implements the bounded FIFO queue of BoundedQueue: push's      *)
(* compare-and-swap is Reserve, pop's is Take, and pop's last store is     *)
(* Return; every other step stutters.                                      *)
THEOREM Refinement == Spec => ImplementsQueue
  <1> USE RingAssumption
  <1>1. Init => Queue!Init BY DEF Init, Queue!Init, Positions, Queue!Positions
  <1>2. RingInv /\ [Next]_vars => [Queue!Next]_(Queue!queueVars)
    <2> SUFFICES ASSUME RingInv, [Next]_vars PROVE Queue!Next \/ UNCHANGED Queue!queueVars
      OBVIOUS
    <2> USE DEF Queue!queueVars
    <2>t. TypeOK /\ head <= tail /\ tail <= head + Capacity /\ tail <= MaxPos
      BY DEF RingInv, Window
    <2>1. CASE UNCHANGED vars BY <2>1 DEF vars
    <2>2. ASSUME NEW t \in Threads, PushClaim(t) PROVE Queue!Next
      <3>1. msg[t] \in Msg BY <2>2 DEF RingInv, LocalsFresh, PushLabels, PushClaim
      <3>2. tail < head + Capacity BY <2>2, ClaimHasRoom
      <3>3. Queue!Reserve(msg[t])
        BY <2>2, <3>2, <2>t DEF PushClaim, Queue!Reserve, Positions, Queue!Positions, TypeOK
      <3>4. QED BY <3>1, <3>3 DEF Queue!Next
    <2>3. ASSUME NEW t \in Threads, PopClaim(t) PROVE Queue!Next
      <3>1. head < tail BY <2>3, ClaimHasMessage
      <3>2. Queue!Take BY <2>3, <3>1 DEF PopClaim, Queue!Take, hist
      <3>3. QED BY <3>2 DEF Queue!Next
    <2>4. ASSUME NEW t \in Threads, PopRelease(t) PROVE Queue!Next
      <3>1. /\ pos[t] \in Nat /\ pos[t] < head
            /\ msg[t] = sent[pos[t]] /\ returned[pos[t]] = None
        BY <2>4 DEF RingInv, TypeOK, ReaderOwnsSlot, Reading, PopRelease
      <3>2. pos[t] \in Queue!Positions BY <3>1, <2>t DEF Queue!Positions, TypeOK
      <3>3. Queue!Return(pos[t]) BY <2>4, <3>1 DEF PopRelease, Queue!Return
      <3>4. QED BY <3>2, <3>3 DEF Queue!Next
    <2>5. ASSUME NEW t \in Producers,
                 \/ \E m \in Msg : PushBegin(t, m)
                 \/ DepthLoadHead(t)
                 \/ ProducerStep(t)
                 \/ Kill(t)
          PROVE  Queue!Next \/ UNCHANGED Queue!queueVars
      BY <2>5, <2>2
      DEF Threads, ring, hist, ProducerStep, PushBegin, DepthLoadHead, DepthLoadTail, Kill,
          PushFree, PushRefuse, PushStale, PushReload, PushLose, PushWrite, PushPublish
    <2>6. ASSUME NEW t \in Consumers, PopBegin(t) \/ DurableLoadHead(t) \/ ConsumerStep(t)
          PROVE  Queue!Next \/ UNCHANGED Queue!queueVars
      BY <2>6, <2>3, <2>4
      DEF Threads, ring, hist, ConsumerStep, PopBegin, DurableLoadHead, DurableLoadPrev,
          DurableCas, DurableDone, PopReady, PopNull, PopStale, PopReload, PopLose, PopRead
    <2>7. QED BY <2>1, <2>5, <2>6 DEF Next
  <1> QED BY <1>1, <1>2, RingInvariant, PTL DEF Spec, ImplementsQueue, Queue!Spec

-----------------------------------------------------------------------------
(* What push and pop may conclude from one sequence number.  RingInv says  *)
(* which numbers a slot may hold; the two parts below say who is behind a  *)
(* number that lags: a producer that has claimed its position, dead or     *)
(* alive, and a message of the previous lap that no pop has returned.      *)

(* An unpublished position between head and tail has its producer.         *)
Claimed ==
    \A p \in head .. tail - 1 :
        seqs[Slot(p)] = p => \E w \in Producers : pos[w] = p /\ pc[w] \in {"push_write", "push_publish", "dead"}

(* A slot that is not free for its next lap still holds a message.         *)
NotReturned ==
    \A p \in tail .. head + Capacity - 1 :
        seqs[Slot(p)] # p => p >= Capacity /\ returned[p - Capacity] = None

LagInv == Claimed /\ NotReturned

(* A whole number of laps leads to the same slot.                          *)
LEMMA ModLaps ==
    ASSUME NEW n \in Nat, n > 0, NEW p \in Nat, NEW k \in Nat
    PROVE  n * k \in Nat /\ (p + n * k) % n = p % n
  <1>0. n * k \in Nat OBVIOUS
  <1> DEFINE q == p + n * k
             a == p \div n
             b == q \div n
             r == p % n
             s == q % n
  <1>1. p = n * a + r /\ r \in 0 .. n - 1 /\ a \in Nat BY DivFacts
  <1>2. q \in Nat BY <1>0
  <1>3. q = n * b + s /\ s \in 0 .. n - 1 /\ b \in Nat
    <2> HIDE DEF q
    <2> QED BY <1>2, DivFacts
  <1>4. n * (a + k) = n * a + n * k BY <1>1
  <1> HIDE DEF a, b, r, s
  <1>5. n * a \in Int /\ n * b \in Int /\ n * (a + k) \in Int BY <1>1, <1>3
  <1>6. n * (a + k) + r = n * b + s BY <1>0, <1>1, <1>3, <1>4, <1>5
  <1>7. ~(a + k < b)
    <2> SUFFICES ASSUME a + k < b PROVE FALSE OBVIOUS
    <2>1. a + k \in Int /\ b \in Int BY <1>1, <1>3
    <2>2. n * b - n * (a + k) >= n BY <2>1, MulGap
    <2> QED BY <1>1, <1>3, <1>5, <1>6, <2>2
  <1>8. ~(b < a + k)
    <2> SUFFICES ASSUME b < a + k PROVE FALSE OBVIOUS
    <2>1. a + k \in Int /\ b \in Int BY <1>1, <1>3
    <2>2. n * (a + k) - n * b >= n BY <2>1, MulGap
    <2> QED BY <1>1, <1>3, <1>5, <1>6, <2>2
  <1>9. a + k = b BY <1>1, <1>3, <1>7, <1>8
  <1>10. r = s BY <1>1, <1>3, <1>5, <1>6, <1>9
  <1> QED BY <1>0, <1>10 DEF r, s

(* A position behind head has a successor, laps later, in the window.      *)
LEMMA LaterLap ==
    ASSUME NEW p \in Nat, NEW h \in Nat, p < h
    PROVE  \E q \in h .. h + Capacity - 1 : Slot(q) = Slot(p) /\ q >= p + Capacity
  <1> USE RingAssumption
  <1> DEFINE d == h - p + Capacity - 1
             k == d \div Capacity
             q == p + Capacity * k
  <1>1. d \in Nat /\ d >= Capacity BY DEF d
  <1>2. d = Capacity * k + (d % Capacity) /\ d % Capacity \in 0 .. Capacity - 1 /\ k \in Nat
    <2> HIDE DEF d
    <2> QED BY <1>1, DivFacts
  <1> HIDE DEF k
  <1>3. k >= 1
    <2> SUFFICES ASSUME k = 0 PROVE FALSE BY <1>2
    <2>1. Capacity * k = 0 OBVIOUS
    <2> HIDE DEF d
    <2> QED BY <1>1, <1>2, <2>1
  <1>4. Capacity * k \in Nat /\ Slot(q) = Slot(p)
    <2>1. Capacity \in Nat /\ Capacity > 0 OBVIOUS
    <2>2. Capacity * k \in Nat /\ (p + Capacity * k) % Capacity = p % Capacity
      BY <1>2, <2>1, ModLaps, Zenon
    <2> QED BY <2>2, Zenon DEF Slot
  <1>5. Capacity * k >= Capacity BY <1>2, <1>3
  <1>6. q \in h .. h + Capacity - 1 /\ q >= p + Capacity
    BY <1>2, <1>4, <1>5
  <1> HIDE DEF q
  <1> QED BY <1>4, <1>6

(* The sequence number of a position behind head has moved past it.        *)
LEMMA PastIsPast ==
    ASSUME RingInv, NEW p \in Nat, p < head
    PROVE  seqs[Slot(p)] > p
  <1> USE RingAssumption
  <1>1. /\ head \in Nat /\ tail \in Nat /\ head <= tail /\ tail <= head + Capacity
    BY DEF RingInv, TypeOK, Window
  <1>2. PICK q \in head .. head + Capacity - 1 : Slot(q) = Slot(p) /\ q >= p + Capacity
    BY <1>1, LaterLap
  <1>3. CASE q < tail
    <2>1. seqs[Slot(q)] \in {q, q + 1} BY <1>1, <1>3 DEF RingInv, Occupied
    <2> QED BY <1>1, <1>2, <2>1
  <1>4. CASE q >= tail
    <2>1. q \in tail .. head + Capacity - 1 BY <1>1, <1>4
    <2>2. seqs[Slot(q)] = q \/ seqs[Slot(q)] = q - Capacity + 1 BY <2>1 DEF RingInv, Vacant
    <2> QED BY <1>1, <1>2, <2>2
  <1> QED BY <1>1, <1>3, <1>4

(* A step of a thread that owns no claim keeps every claim's producer.     *)
LEMMA ClaimsKept ==
    ASSUME RingInv, Claimed, NEW t \in Threads, OthersKept(t), head' >= head, head' \in Nat, tail' = tail,
           \A p \in head' .. tail - 1 : seqs'[Slot(p)] = seqs[Slot(p)],
           \/ pc[t] \notin {"push_write", "push_publish", "dead"}
           \/ pos'[t] = pos[t] /\ pc'[t] \in {"push_write", "push_publish", "dead"}
    PROVE  Claimed'
  <1> USE DEF Claimed
  <1> SUFFICES ASSUME NEW p \in head' .. tail - 1, seqs[Slot(p)] = p
               PROVE  \E w \in Producers : pos'[w] = p /\ pc'[w] \in {"push_write", "push_publish", "dead"}
    OBVIOUS
  <1>1. p \in head .. tail - 1 BY DEF RingInv, TypeOK
  <1>2. PICK w \in Producers : pos[w] = p /\ pc[w] \in {"push_write", "push_publish", "dead"} BY <1>1
  <1>3. pos'[w] = p /\ pc'[w] \in {"push_write", "push_publish", "dead"}
    BY <1>2 DEF OthersKept, Threads
  <1> QED BY <1>3

(* Every step keeps the two parts.                                         *)
LEMMA NextLag == RingInv /\ LagInv /\ [Next]_vars => LagInv'
  <1> SUFFICES ASSUME RingInv, LagInv, [Next]_vars PROVE LagInv' OBVIOUS
  <1> USE RingAssumption
  <1>b. /\ head \in Nat /\ tail \in Nat /\ head <= tail /\ tail <= head + Capacity /\ tail <= MaxPos
        /\ \A t \in Threads : pos[t] \in Nat
    BY DEF RingInv, TypeOK, Window
  <1>t. TypeOK BY DEF RingInv
  <1>1. CASE UNCHANGED vars
    BY <1>1 DEF vars, LagInv, Claimed, NotReturned
  <1>2. ASSUME NEW t \in Threads, UNCHANGED <<head, tail, seqs, returned>>, OthersKept(t),
               \/ pc[t] \notin {"push_write", "push_publish", "dead"}
               \/ pos'[t] = pos[t] /\ pc'[t] \in {"push_write", "push_publish", "dead"}
        PROVE  LagInv'
    <2>1. head' >= head BY <1>2, <1>b
    <2>2. Claimed' BY <1>2, <1>b, <2>1, ClaimsKept DEF LagInv
    <2>3. NotReturned' BY <1>2 DEF LagInv, NotReturned
    <2> QED BY <2>2, <2>3 DEF LagInv
  <1>3. ASSUME NEW t \in Producers, PushClaim(t) PROVE LagInv'
    <2>1. /\ pc[t] = "push_cas" /\ pos[t] = tail /\ tail' = tail + 1 /\ head' = head /\ seqs' = seqs
          /\ returned' = returned /\ pc'[t] = "push_write" /\ pos' = pos
          /\ \A u \in Threads : u # t => pc'[u] = pc[u]
      BY <1>3, <1>t DEF PushClaim, Goto, TypeOK, Threads
    <2>2. ASSUME NEW p \in head .. tail, seqs[Slot(p)] = p
          PROVE  \E w \in Producers : pos'[w] = p /\ pc'[w] \in {"push_write", "push_publish", "dead"}
      <3>1. CASE p = tail BY <2>1, <3>1
      <3>2. CASE p # tail
        <4>1. p \in head .. tail - 1 BY <1>b, <3>2
        <4>2. PICK w \in Producers : pos[w] = p /\ pc[w] \in {"push_write", "push_publish", "dead"}
          BY <2>2, <4>1 DEF LagInv, Claimed
        <4> QED BY <2>1, <4>2 DEF Threads
      <3> QED BY <3>1, <3>2
    <2>3. Claimed' BY <1>b, <2>1, <2>2 DEF Claimed
    <2>4. NotReturned' BY <1>b, <2>1 DEF LagInv, NotReturned
    <2> QED BY <2>3, <2>4 DEF LagInv
  <1>4. ASSUME NEW t \in Producers, PushPublish(t) PROVE LagInv'
    <2>0. t \in Threads BY DEF Threads
    <2>1. /\ pos[t] \in head .. tail - 1 /\ head' = head /\ tail' = tail /\ returned' = returned
          /\ seqs' = [seqs EXCEPT ![Slot(pos[t])] = pos[t] + 1]
          /\ \A u \in Threads : u # t => pc'[u] = pc[u] /\ pos'[u] = pos[u]
      BY <1>4, <1>b, <1>t, <2>0 DEF PushPublish, Leave, hist, RingInv, WriterOwnsSlot, Writing, TypeOK
    <2>2. ASSUME NEW p \in head .. head + Capacity - 1, p # pos[t] PROVE seqs'[Slot(p)] = seqs[Slot(p)]
      <3>1. Slot(p) # Slot(pos[t]) BY <1>b, <2>1, <2>2, SlotDistinct
      <3>2. Slot(p) \in Slots BY <1>b, SlotFacts
      <3> QED BY <1>t, <2>1, <3>1, <3>2 DEF TypeOK
    <2>3. seqs'[Slot(pos[t])] = pos[t] + 1
      BY <1>b, <1>t, <2>0, <2>1, SlotFacts DEF TypeOK
    <2>4. ASSUME NEW p \in head .. tail - 1, seqs'[Slot(p)] = p
          PROVE  \E w \in Producers : pos'[w] = p /\ pc'[w] \in {"push_write", "push_publish", "dead"}
      <3>1. p # pos[t] BY <1>b, <2>0, <2>3, <2>4
      <3>2. seqs[Slot(p)] = p BY <1>b, <2>2, <2>4, <3>1
      <3>3. PICK w \in Producers : pos[w] = p /\ pc[w] \in {"push_write", "push_publish", "dead"}
        BY <3>2 DEF LagInv, Claimed
      <3>4. w # t /\ w \in Threads BY <3>1, <3>3 DEF Threads
      <3> QED BY <2>1, <3>3, <3>4
    <2>5. Claimed' BY <2>1, <2>4 DEF Claimed
    <2>6. NotReturned'
      <3>1. ASSUME NEW p \in tail .. head + Capacity - 1, seqs'[Slot(p)] # p
            PROVE  p >= Capacity /\ returned[p - Capacity] = None
        BY <1>b, <2>1, <2>2, <3>1 DEF LagInv, NotReturned
      <3> QED BY <2>1, <3>1 DEF NotReturned
    <2> QED BY <2>5, <2>6 DEF LagInv
  <1>5. ASSUME NEW t \in Consumers, PopClaim(t) PROVE LagInv'
    <2>0. t \in Threads BY DEF Threads
    <2>1. /\ head' = head + 1 /\ tail' = tail /\ seqs' = seqs /\ returned' = returned /\ OthersKept(t)
          /\ pc[t] = "pop_cas"
      BY <1>5, <1>t, <2>0 DEF PopClaim, Goto, hist, OthersKept, TypeOK
    <2>2. head < tail BY <1>5, <2>0, ClaimHasMessage
    <2>3. Claimed'
      BY <1>b, <2>0, <2>1, ClaimsKept DEF LagInv
    <2>4. ASSUME NEW p \in tail .. head + Capacity, seqs[Slot(p)] # p
          PROVE  p >= Capacity /\ returned[p - Capacity] = None
      <3>1. CASE p = head + Capacity
        <4>1. head \in Positions /\ p - Capacity = head BY <1>b, <2>2, <3>1 DEF Positions
        <4> QED BY <1>b, <3>1, <4>1 DEF RingInv, Returned
      <3>2. CASE p # head + Capacity BY <1>b, <2>4, <3>2 DEF LagInv, NotReturned
      <3> QED BY <3>1, <3>2
    <2>5. NotReturned' BY <1>b, <2>1, <2>4 DEF NotReturned
    <2> QED BY <2>3, <2>5 DEF LagInv
  <1>6. ASSUME NEW t \in Consumers, PopRelease(t) PROVE LagInv'
    <2>0. t \in Threads BY DEF Threads
    <2>1. /\ pos[t] \in Nat /\ pos[t] < head /\ tail <= pos[t] + Capacity
          /\ head' = head /\ tail' = tail /\ pc[t] = "pop_release"
          /\ seqs' = [seqs EXCEPT ![Slot(pos[t])] = pos[t] + Capacity]
          /\ returned' = [returned EXCEPT ![pos[t]] = msg[t]] /\ OthersKept(t)
      BY <1>6, <1>b, <1>t, <2>0 DEF PopRelease, Leave, RingInv, ReaderOwnsSlot, Reading, TypeOK, OthersKept
    <2>2. ASSUME NEW p \in head .. head + Capacity - 1, p # pos[t] + Capacity
          PROVE  seqs'[Slot(p)] = seqs[Slot(p)]
      <3>1. Slot(p) # Slot(pos[t] + Capacity) BY SMTT(60), <1>b, <2>1, <2>2, SlotDistinct
      <3>2. Slot(pos[t] + Capacity) = Slot(pos[t]) /\ Slot(p) \in Slots BY <1>b, <2>1, SlotFacts
      <3> QED BY <1>t, <2>1, <3>1, <3>2 DEF TypeOK
    <2>3. seqs'[Slot(pos[t] + Capacity)] = pos[t] + Capacity
      BY <1>t, <2>1, SlotFacts DEF TypeOK
    <2>4. \A p \in head .. tail - 1 : seqs'[Slot(p)] = seqs[Slot(p)]
      BY <1>b, <2>1, <2>2
    <2>5. Claimed'
      BY <1>b, <2>0, <2>1, <2>4, ClaimsKept DEF LagInv
    <2>6. ASSUME NEW p \in tail .. head + Capacity - 1, seqs'[Slot(p)] # p
          PROVE  p >= Capacity /\ returned'[p - Capacity] = None
      <3>1. p # pos[t] + Capacity /\ p \in head .. head + Capacity - 1 BY <1>b, <2>3, <2>6
      <3>2. p >= Capacity /\ returned[p - Capacity] = None
        BY <2>2, <2>6, <3>1 DEF LagInv, NotReturned
      <3>3. p - Capacity # pos[t] /\ p - Capacity \in Positions
        BY <1>b, <2>1, <3>1, <3>2 DEF Positions
      <3> QED BY <1>t, <2>1, <3>2, <3>3 DEF TypeOK
    <2>7. NotReturned' BY <2>1, <2>6 DEF NotReturned
    <2> QED BY <2>5, <2>7 DEF LagInv
  <1>7. ASSUME NEW t \in Producers,
               \/ \E m \in Msg : PushBegin(t, m)
               \/ DepthLoadHead(t) \/ DepthLoadTail(t) \/ Kill(t)
               \/ PushFree(t) \/ PushRefuse(t) \/ PushStale(t) \/ PushReload(t) \/ PushLose(t) \/ PushWrite(t)
        PROVE  LagInv'
    <2>0. t \in Threads BY DEF Threads
    <2>1. UNCHANGED <<head, tail, seqs, returned>>
      BY <1>7 DEF ring, hist, PushBegin, DepthLoadHead, DepthLoadTail, Kill, PushFree, PushRefuse,
                  PushStale, PushReload, PushLose, PushWrite
    <2>2. /\ OthersKept(t)
          /\ \/ pc[t] \notin {"push_write", "push_publish", "dead"}
             \/ pos'[t] = pos[t] /\ pc'[t] \in {"push_write", "push_publish", "dead"}
      BY <1>7, <1>t, <2>0 DEF OthersKept, TypeOK, Goto, Leave, PushBegin, DepthLoadHead, DepthLoadTail, Kill,
                  PushFree, PushRefuse, PushStale, PushReload, PushLose, PushWrite
    <2> QED BY <1>2, <2>0, <2>1, <2>2
  <1>8. ASSUME NEW t \in Consumers,
               \/ PopBegin(t) \/ DurableLoadHead(t) \/ DurableLoadPrev(t) \/ DurableCas(t) \/ DurableDone(t)
               \/ PopReady(t) \/ PopNull(t) \/ PopStale(t) \/ PopReload(t) \/ PopLose(t) \/ PopRead(t)
        PROVE  LagInv'
    <2>0. t \in Threads BY DEF Threads
    <2>1. UNCHANGED <<head, tail, seqs, returned>>
      BY <1>8 DEF ring, hist, PopBegin, DurableLoadHead, DurableLoadPrev, DurableCas, DurableDone, PopReady,
                  PopNull, PopStale, PopReload, PopLose, PopRead
    <2>2. OthersKept(t) /\ pc[t] \notin {"push_write", "push_publish", "dead"}
      BY <1>8, <1>t, <2>0 DEF OthersKept, TypeOK, Goto, Leave, PopBegin, DurableLoadHead, DurableLoadPrev,
                  DurableCas, DurableDone, PopReady, PopNull, PopStale, PopReload, PopLose, PopRead
    <2> QED BY <1>2, <2>0, <2>1, <2>2
  <1> QED
    BY <1>1, <1>3, <1>4, <1>5, <1>6, <1>7, <1>8 DEF Next, ProducerStep, ConsumerStep

(* The two parts hold in every reachable state.                            *)
THEOREM LagInvariant == Spec => []LagInv
  <1>1. Init => LagInv
    <2> SUFFICES ASSUME Init PROVE LagInv OBVIOUS
    <2>1. \A p \in 0 .. Capacity - 1 : Slot(p) = p BY RingAssumption DEF Slot
    <2> QED BY RingAssumption, <2>1 DEF Init, LagInv, Claimed, NotReturned, Slots
  <1> QED BY <1>1, NextLag, RingInvariant, PTL DEF Spec

(* push answers "full" only while the message one lap earlier has not been *)
(* returned by a pop, for any capacity and any number of threads: losing a *)
(* race to another producer, or a stale `tail`, is never mistaken for it.  *)
THEOREM RefusalsAreTrue == Spec => RefusedOnlyWhenFull
  <1> USE RingAssumption
  <1>1. ASSUME RingInv, LagInv, NEW t \in Producers, PushRefuse(t)
        PROVE  pos[t] >= Capacity /\ returned[pos[t] - Capacity] = None
    <2>0. t \in Threads BY DEF Threads
    <2>1. /\ pos[t] \in Nat /\ head \in Nat /\ tail \in Nat /\ head <= tail /\ tail <= head + Capacity
          /\ pos[t] <= tail /\ seqs[Slot(pos[t])] < pos[t] /\ tail <= MaxPos
          /\ seqs[Slot(pos[t])] \in Nat
      BY <1>1, <2>0, SlotFacts DEF RingInv, TypeOK, Window, LocalsFresh, PushLabels, PushRefuse
    <2>2. pos[t] >= head BY <1>1, <2>1, PastIsPast
    <2>3. ~(pos[t] < tail) BY <1>1, <2>1, <2>2 DEF RingInv, Occupied
    <2>4. pos[t] = tail BY <2>1, <2>3
    <2>5. CASE tail < head + Capacity
      <3>1. pos[t] \in tail .. head + Capacity - 1 BY <2>1, <2>4, <2>5
      <3> QED BY <1>1, <2>1, <3>1 DEF LagInv, NotReturned
    <2>6. CASE tail = head + Capacity
      <3>1. head \in Positions /\ pos[t] - Capacity = head BY <2>1, <2>4, <2>6 DEF Positions
      <3> QED BY <1>1, <2>1, <2>4, <2>6, <3>1 DEF RingInv, Returned
    <2> QED BY <2>1, <2>5, <2>6
  <1>2. RingInv /\ LagInv /\ [Next]_vars
          => [ \A t \in Producers :
                 PushRefuse(t) => /\ pos[t] >= Capacity
                                  /\ returned[pos[t] - Capacity] = None ]_vars
    BY <1>1
  <1> QED BY <1>2, RingInvariant, LagInvariant, PTL DEF Spec, RefusedOnlyWhenFull

(* pop answers null only at the true head, and only if nothing is claimed  *)
(* there or the producer that claimed it has not published it, possibly    *)
(* because its process was killed: never for a message that is there.      *)
THEOREM NullsAreTrue == Spec => NullOnlyWhenUnpublished
  <1> USE RingAssumption
  <1> DEFINE Unpublished(t) ==
          /\ pos[t] = head
          /\ \/ head = tail
             \/ \E w \in Producers : pos[w] = head /\ pc[w] \in {"push_write", "push_publish", "dead"}
  <1>1. ASSUME RingInv, LagInv, NEW t \in Consumers, PopNull(t)
        PROVE  Unpublished(t)
    <2>0. t \in Threads BY DEF Threads
    <2>1. /\ pos[t] \in Nat /\ head \in Nat /\ tail \in Nat /\ head <= tail
          /\ pos[t] <= head /\ seqs[Slot(pos[t])] < pos[t] + 1 /\ seqs[Slot(pos[t])] \in Nat
      BY <1>1, <2>0, SlotFacts DEF RingInv, TypeOK, Window, LocalsFresh, PopNull
    <2>2. pos[t] = head BY <1>1, <2>1, PastIsPast
    <2>3. CASE head < tail
      <3>1. head \in head .. tail - 1 BY <2>1, <2>3
      <3>2. seqs[Slot(head)] = head BY <1>1, <2>1, <2>2, <3>1 DEF RingInv, Occupied
      <3> QED BY <1>1, <2>2, <3>1, <3>2 DEF LagInv, Claimed
    <2> QED BY <2>1, <2>2, <2>3
  <1>2. RingInv /\ LagInv /\ [Next]_vars
          => [ \A t \in Consumers :
                 PopNull(t) =>
                    /\ pos[t] = head
                    /\ \/ head = tail
                       \/ \E w \in Producers :
                             /\ pos[w] = head
                             /\ pc[w] \in {"push_write", "push_publish", "dead"} ]_vars
    BY <1>1
  <1> QED BY <1>2, RingInvariant, LagInvariant, PTL DEF Spec, NullOnlyWhenUnpublished

=============================================================================
