---------------------------- MODULE ReplayProofs ----------------------------
(***************************************************************************)
(* With a daemon, the deltas pushed so far say what memory says: a row     *)
(* none of whose deltas was refused, on whose key no two calls overlapped, *)
(* replays to the offset, number and string pointer it has.                *)
(***************************************************************************)
EXTENDS RowProofs

\* The deltas that set field f of the record at o, those that bind k.
FieldDeltas(o, f) ==
    {i \in 1 .. Len(pushed) : pushed[i].kind = "field" /\ pushed[i].off = o /\ pushed[i].field = f}
IndexDeltas(k) ==
    {i \in 1 .. Len(pushed) : pushed[i].kind = "index" /\ pushed[i].key = k}

\* No delta speaks of the record at o.
Unmentioned(o) == \A i \in 1 .. Len(pushed) : pushed[i].kind = "field" => pushed[i].off # o

-----------------------------------------------------------------------------
(* The inductive invariant. *)

\* Any set of deltas has a last one.
LastOnes == \A S \in SUBSET (1 .. Len(pushed)) : S # {} => \E m \in S : \A j \in S : j <= m

\* Deltas speak only of records that were handed out.
DeltasAllocated ==
    \A i \in 1 .. Len(pushed) : pushed[i].kind = "field" => pushed[i].off \in Slots /\ pushed[i].off < recBump

\* Keys of which the log is to say the truth.
Logged(k) == k \in Keys /\ k \notin raced \cup unlogged

\* Client c works on k and is about to store what a delta said, or to push
\* the delta of what it has stored.
Binds(c, k) == Active(c) /\ Key(c) = k /\ proc[c].pc = "bind"
Counts(c, k) == Active(c) /\ Key(c) = k /\ proc[c].pc = "pushField" /\ Field(c).field = "num"
Points(c, k) ==
    /\ Active(c) /\ Key(c) = k
    /\ \/ proc[c].pc = "setLength"
       \/ proc[c].pc = "pushField" /\ Field(c).field = "str"

\* What a call on such a key knows of the log and of its row.
DeltaInHand(c, k) ==
    LET p == proc[c]
    IN  /\ p.pc \in Binding => Unmentioned(p.off)
        /\ p.pc = "bind" => ReplayedBinding(k) = p.off
        /\ p.pc = "pushField" /\ Field(c).field = "num" => rec[p.off].num = Field(c).value
        /\ p.pc = "pushField" /\ Field(c).field = "str" => rec[p.off].at = p.at /\ rec[p.off].len = p.len

DeltasInHand ==
    \A c \in Clients, k \in Keys : daemon /\ Active(c) /\ Key(c) = k /\ Logged(k) => DeltaInHand(c, k)

\* A bound row and the log agree, but for the step a call is about to take.
RowReplays(k) ==
    LET o == index[k]
    IN  /\ (\E c \in Clients : Binds(c, k)) \/ ReplayedBinding(k) = o
        /\ (\E c \in Clients : Counts(c, k)) \/ <<rec[o].num>> = ReplayedField(o, "num", << 0 >>)
        /\ (\E c \in Clients : Points(c, k)) \/ <<rec[o].at, rec[o].len>> = ReplayedField(o, "str", <<0, 0>>)

RowsReplay == \A k \in Keys : daemon /\ Logged(k) /\ index[k] # 0 => RowReplays(k)

ReplayInv == LastOnes /\ DeltasAllocated /\ DeltasInHand /\ RowsReplay

-----------------------------------------------------------------------------
(* What appending a delta does to what the log replays to.                 *)

LEMMA LastInside ==
    ASSUME LogTyped, LastOnes, NEW S, S \subseteq 1 .. Len(pushed), S # {}
    PROVE  Max(S) \in S
<1>1. PICK m \in S : \A j \in S : j <= m
  BY DEF LastOnes
<1>2. m \in Int /\ \A j \in S : j \in Int
  BY <1>1 DEF LogTyped
<1>3. \A j \in S : m >= j
  BY <1>1, <1>2
<1> QED
  BY <1>1, <1>3 DEF Max

\* The last of a set of positions that ends with the newest one.
LEMMA LastIsNewest ==
    ASSUME NEW n \in Nat, NEW S, S \subseteq 1 .. n + 1, n + 1 \in S
    PROVE  Max(S) = n + 1
<1>1. \A y \in S : n + 1 >= y
  OBVIOUS
<1>2. Max(S) \in S /\ \A y \in S : Max(S) >= y
  BY <1>1 DEF Max
<1> DEFINE m == Max(S)
<1>3. m \in S /\ m >= n + 1
  BY <1>2
<1> HIDE DEF m
<1>4. m = n + 1
  BY <1>3
<1> QED
  BY <1>4 DEF m

LEMMA LastOnesGrow ==
    ASSUME LogTyped, LastOnes, NEW d, pushed' = pushed \/ pushed' = Append(pushed, d)
    PROVE  LastOnes'
<1>1. CASE pushed' = pushed
  BY <1>1 DEF LastOnes
<1>2. CASE pushed' = Append(pushed, d)
  <2> DEFINE n == Len(pushed)
  <2>1. n \in Nat /\ Len(pushed') = n + 1
    BY <1>2, AppendFacts
  <2>2. ASSUME NEW S \in SUBSET (1 .. n + 1), S # {} PROVE \E m \in S : \A j \in S : j <= m
    <3>1. CASE n + 1 \in S
      BY <2>1, <2>2, <3>1
    <3>2. CASE n + 1 \notin S
      <4>1. S \subseteq 1 .. n
        BY <2>1, <2>2, <3>2
      <4> QED
        BY <2>2, <4>1 DEF LastOnes
    <3> QED
      BY <3>1, <3>2
  <2> QED
    BY <2>1, <2>2 DEF LastOnes
<1> QED
  BY <1>1, <1>2

LEMMA BindingStays ==
    ASSUME LogTyped, LastOnes, NEW d, NEW k, ~(d.kind = "index" /\ d.key = k), pushed' = Append(pushed, d)
    PROVE  ReplayedBinding(k)' = ReplayedBinding(k)
<1> DEFINE n == Len(pushed)
<1>1. /\ n \in Nat /\ Len(pushed') = n + 1 /\ pushed'[n + 1] = d
      /\ \A i \in 1 .. n : pushed'[i] = pushed[i]
  BY AppendFacts
<1>2. IndexDeltas(k)' = IndexDeltas(k)
  BY <1>1 DEF IndexDeltas
<1>3. IndexDeltas(k) # {} => Max(IndexDeltas(k)) \in 1 .. n
  BY LastInside DEF IndexDeltas
<1>4. ReplayedBinding(k) = IF IndexDeltas(k) = {} THEN 0 ELSE pushed[Max(IndexDeltas(k))].off
  BY DEF ReplayedBinding, IndexDeltas
<1>5. ReplayedBinding(k)' = IF IndexDeltas(k)' = {} THEN 0 ELSE pushed'[Max(IndexDeltas(k)')].off
  BY DEF ReplayedBinding, IndexDeltas
<1> QED
  BY <1>1, <1>2, <1>3, <1>4, <1>5

LEMMA BindingPushed ==
    ASSUME LogTyped, NEW d, NEW k, d.kind = "index", d.key = k, pushed' = Append(pushed, d)
    PROVE  ReplayedBinding(k)' = d.off
<1> DEFINE n == Len(pushed)
           S == IndexDeltas(k)'
<1>1. n \in Nat /\ Len(pushed') = n + 1 /\ pushed'[n + 1] = d
  BY AppendFacts
<1>2. S \subseteq 1 .. n + 1 /\ n + 1 \in S
  BY <1>1 DEF IndexDeltas
<1>3. Max(S) = n + 1
  BY <1>1, <1>2, LastIsNewest
<1>4. ReplayedBinding(k)' = IF S = {} THEN 0 ELSE pushed'[Max(S)].off
  BY DEF ReplayedBinding, IndexDeltas
<1> QED
  BY <1>1, <1>2, <1>3, <1>4

LEMMA FieldStays ==
    ASSUME LogTyped, LastOnes, NEW d, NEW o, NEW f, NEW zero,
           ~(d.kind = "field" /\ d.off = o /\ d.field = f), pushed' = Append(pushed, d)
    PROVE  ReplayedField(o, f, zero)' = ReplayedField(o, f, zero)
<1> DEFINE n == Len(pushed)
<1>1. /\ n \in Nat /\ Len(pushed') = n + 1 /\ pushed'[n + 1] = d
      /\ \A i \in 1 .. n : pushed'[i] = pushed[i]
  BY AppendFacts
<1>2. FieldDeltas(o, f)' = FieldDeltas(o, f)
  BY <1>1 DEF FieldDeltas
<1>3. FieldDeltas(o, f) # {} => Max(FieldDeltas(o, f)) \in 1 .. n
  BY LastInside DEF FieldDeltas
<1>4. ReplayedField(o, f, zero) = IF FieldDeltas(o, f) = {} THEN zero ELSE pushed[Max(FieldDeltas(o, f))].words
  BY DEF ReplayedField, FieldDeltas
<1>5. ReplayedField(o, f, zero)' =
        IF FieldDeltas(o, f)' = {} THEN zero ELSE pushed'[Max(FieldDeltas(o, f)')].words
  BY DEF ReplayedField, FieldDeltas
<1> QED
  BY <1>1, <1>2, <1>3, <1>4, <1>5

LEMMA FieldPushed ==
    ASSUME LogTyped, NEW d, NEW o, NEW f, NEW zero,
           d.kind = "field", d.off = o, d.field = f, pushed' = Append(pushed, d)
    PROVE  ReplayedField(o, f, zero)' = d.words
<1> DEFINE n == Len(pushed)
           S == FieldDeltas(o, f)'
<1>1. n \in Nat /\ Len(pushed') = n + 1 /\ pushed'[n + 1] = d
  BY AppendFacts
<1>2. S \subseteq 1 .. n + 1 /\ n + 1 \in S
  BY <1>1 DEF FieldDeltas
<1>3. Max(S) = n + 1
  BY <1>1, <1>2, LastIsNewest
<1>4. ReplayedField(o, f, zero)' = IF S = {} THEN zero ELSE pushed'[Max(S)].words
  BY DEF ReplayedField, FieldDeltas
<1> QED
  BY <1>1, <1>2, <1>3, <1>4

\* A record no delta speaks of replays to zeros.
LEMMA UnmentionedIsZero ==
    ASSUME NEW o, Unmentioned(o), NEW f, NEW zero
    PROVE  ReplayedField(o, f, zero) = zero
  BY DEF Unmentioned, ReplayedField

-----------------------------------------------------------------------------
(* What each step pushes. *)

KeyDelta(c) == [kind |-> "index", key |-> Key(c), off |-> proc[c].off]
FieldDelta(c) ==
    [kind |-> "field", off |-> proc[c].off, field |-> Field(c).field,
     words |-> IF Field(c).field = "num" THEN <<Field(c).value>> ELSE <<proc[c].at, proc[c].len>>]

LEMMA StepPushes ==
    ASSUME NEW c \in Clients, Step(c)
    PROVE  \/ pushed' = pushed
           \/ \E d : pushed' = Append(pushed, d) /\ d.kind = "arena"
           \/ PushKey(c) /\ pushed' = Append(pushed, KeyDelta(c))
           \/ PushField(c) /\ pushed' = Append(pushed, FieldDelta(c))
<1>1. CASE Notify(c) \/ NotifyPayload(c)
  BY <1>1 DEF Notify, NotifyPayload, Announcement
<1>2. CASE PushKey(c)
  BY <1>2 DEF PushKey, KeyDelta
<1>3. CASE PushField(c)
  BY <1>3 DEF PushField, FieldDelta
<1> QED
  BY <1>1, <1>2, <1>3, StepFrame

LEMMA UnmentionedStays ==
    ASSUME LogTyped, NEW d, NEW o, ~(d.kind = "field" /\ d.off = o), pushed' = Append(pushed, d), Unmentioned(o)
    PROVE  Unmentioned(o)'
<1> DEFINE n == Len(pushed)
<1>1. /\ n \in Nat /\ Len(pushed') = n + 1 /\ pushed'[n + 1] = d
      /\ \A i \in 1 .. n : pushed'[i] = pushed[i]
  BY AppendFacts
<1> QED
  BY <1>1 DEF Unmentioned

LEMMA StepAllocated ==
    ASSUME BaseInv, OwnedApart, DeltasAllocated, BumpsForward, NEW c \in Clients, Step(c)
    PROVE  DeltasAllocated'
<1>1. Slots' = Slots /\ Slots \subseteq Int /\ recBump \in Int /\ recBump' \in Int
  <2>1. Accepted /\ seg' = seg /\ seg \in Segments
    BY StepConnected, StepFrame DEF BaseInv, TypeOK
  <2>2. recBump \in Int /\ recBump' \in Int
    BY StepBase DEF BaseInv, TypeOK
  <2> QED
    BY <2>1, <2>2, SlotFacts DEF Slots, R
<1>2. ASSUME NEW d, pushed' = Append(pushed, d), d.kind = "field" => d.off \in Slots /\ d.off < recBump
      PROVE  DeltasAllocated'
  <2> DEFINE n == Len(pushed)
  <2>1. /\ n \in Nat /\ Len(pushed') = n + 1 /\ pushed'[n + 1] = d
        /\ \A i \in 1 .. n : pushed'[i] = pushed[i]
    BY <1>2, AppendFacts DEF BaseInv
  <2>2. \A o \in Slots : o < recBump => o < recBump'
    BY <1>1 DEF BumpsForward
  <2>3. ASSUME NEW i \in 1 .. n + 1, pushed'[i].kind = "field"
        PROVE  pushed'[i].off \in Slots /\ pushed'[i].off < recBump
    BY <1>2, <2>1, <2>3 DEF DeltasAllocated
  <2> QED
    BY <1>1, <2>1, <2>2, <2>3 DEF DeltasAllocated
<1>3. CASE pushed' = pushed
  <2>1. \A o \in Slots : o < recBump => o < recBump'
    BY <1>1 DEF BumpsForward
  <2> QED
    BY <1>1, <1>3, <2>1 DEF DeltasAllocated
<1>4. CASE PushField(c) /\ pushed' = Append(pushed, FieldDelta(c))
  <2>1. HoldsRow(c)
    BY <1>4, StoringHolds DEF PushField, Storing
  <2>2. proc[c].off \in Slots /\ proc[c].off < recBump
    BY <2>1 DEF HoldsRow, Owns, OwnedApart
  <2> QED
    BY <1>2, <1>4, <2>2 DEF FieldDelta
<1>5. CASE PushKey(c) /\ pushed' = Append(pushed, KeyDelta(c))
  BY <1>2, <1>5 DEF KeyDelta
<1> QED
  BY <1>2, <1>3, <1>4, <1>5, StepPushes

\* What the log says of a key changes only in a writing call on that key.
LEMMA OnlyOwnDeltas ==
    ASSUME BaseInv, OwnedApart, LastOnes, NEW c \in Clients, Step(c), NEW k \in Keys,
           ~(Active(c) /\ Key(c) = k /\ IsWrite(Op(c)))
    PROVE  /\ ReplayedBinding(k)' = ReplayedBinding(k)
           /\ \A o \in Slots : Owns(k, o) =>
                 /\ Unmentioned(o) => Unmentioned(o)'
                 /\ \A f, zero : ReplayedField(o, f, zero)' = ReplayedField(o, f, zero)
<1>0. CallOK(proc[c]) /\ proc[c].pc \notin Outside /\ ProcTyped /\ LogTyped
  BY StepProceeds DEF BaseInv, CallOK, OpAt, Allocating, Binding, Storing, Saving, Reading, Pointing, SavingPayload, Outside
<1>1. Active(c)
  BY <1>0, InCall DEF Active
<1>2. ASSUME Op(c) \in {"find", "load"}
      PROVE  proc[c].pc \notin Binding \cup Storing
  BY <1>0, <1>2 DEF CallOK, OpAt, Allocating, Binding, Storing, Saving, Reading, Pointing, SavingPayload, Op
<1>3. proc[c].pc \in Binding \cup Storing => Key(c) # k
  BY <1>1, <1>2 DEF IsWrite
<1>4. CASE pushed' = pushed
  BY <1>4 DEF ReplayedBinding, ReplayedField, Unmentioned
<1>5. ASSUME NEW d, pushed' = Append(pushed, d), ~(d.kind = "index" /\ d.key = k),
             \A o \in Slots : Owns(k, o) => ~(d.kind = "field" /\ d.off = o)
      PROVE  /\ ReplayedBinding(k)' = ReplayedBinding(k)
             /\ \A o \in Slots : Owns(k, o) =>
                   /\ Unmentioned(o) => Unmentioned(o)'
                   /\ \A f, zero : ReplayedField(o, f, zero)' = ReplayedField(o, f, zero)
  <2>1. ReplayedBinding(k)' = ReplayedBinding(k)
    BY <1>0, <1>5, BindingStays
  <2>2. ASSUME NEW o \in Slots, Owns(k, o), NEW f, NEW zero
        PROVE  ReplayedField(o, f, zero)' = ReplayedField(o, f, zero)
    BY <1>0, <1>5, <2>2, FieldStays
  <2>3. ASSUME NEW o \in Slots, Owns(k, o), Unmentioned(o) PROVE Unmentioned(o)'
    BY <1>0, <1>5, <2>3, UnmentionedStays
  <2> QED
    BY <2>1, <2>2, <2>3
<1>6. CASE PushKey(c) /\ pushed' = Append(pushed, KeyDelta(c))
  <2>1. Key(c) # k
    BY <1>3, <1>6 DEF PushKey, Binding
  <2>2. KeyDelta(c).kind = "index" /\ KeyDelta(c).key # k
    BY <2>1 DEF KeyDelta
  <2> QED
    BY <1>5, <1>6, <2>2
<1>7. CASE PushField(c) /\ pushed' = Append(pushed, FieldDelta(c))
  <2>1. HoldsRow(c) /\ Key(c) # k
    BY <1>3, <1>7, StoringHolds DEF PushField, Storing
  <2>2. ASSUME NEW o \in Slots, Owns(k, o) PROVE proc[c].off # o
    BY <2>1, <2>2 DEF HoldsRow, Owns, OwnedApart
  <2>3. FieldDelta(c).kind = "field" /\ FieldDelta(c).off = proc[c].off
    BY DEF FieldDelta
  <2> QED
    BY <1>5, <1>7, <2>2, <2>3
<1>8. CASE \E d : pushed' = Append(pushed, d) /\ d.kind = "arena"
  BY <1>5, <1>8
<1> QED
  BY SMTT(60), <1>4, <1>6, <1>7, <1>8, StepPushes

-----------------------------------------------------------------------------
(* What a call knows of the log and of its row. *)

LEMMA StepUnlogged ==
    ASSUME NEW c \in Clients, Step(c)
    PROVE  unlogged \subseteq unlogged'
<1>1. CASE Admit(c) \/ PushTimeout(c)
  BY SMTT(60), <1>1 DEF Admit, PushTimeout
<1>2. CASE ~(Admit(c) \/ PushTimeout(c))
  BY <1>2 DEF Step, SeedRecord, AddRecord, AllocKey, PushKey, Bind, FillDone, FillInvalid,
              SetNumber, SeedString, AddString, Copy, Notify, SetOffset, SetLength, PushField, SaveInvalid,
              SeedPayload, AddPayload, CopyPayload, NotifyPayload, Search, LoadOffset, LoadLength, Decode,
              ReadPayload, DeleteKey, unmirrorPk, RemoveEntry, remove_index, UniqueScan, hist
<1> QED
  BY <1>1, <1>2

\* A call on one key does not touch what another client knows.
LEMMA OthersDeltas ==
    ASSUME BaseInv, Accepted, RacesNoted, RowInv, LastOnes, NEW c \in Clients, Step(c),
           NEW d \in Clients, d # c, Active(d), NEW k \in Keys \ raced, Key(d) = k, DeltaInHand(d, k)
    PROVE  DeltaInHand(d, k)'
<1>1. proc'[d] = proc[d] /\ Field(d)' = Field(d)
  BY OthersStay DEF Field
<1>2. proc[d].pc \notin Outside
  BY DEF BaseInv, ProcTyped, CallOK, OpAt, Active,
         Allocating, Binding, Storing, Saving, Reading, Pointing, SavingPayload, Outside
<1>3. ~(Active(c) /\ Key(c) = k /\ IsWrite(Op(c)))
  BY Alone
<1>4. \A o \in Slots : Owns(k, o) => rec'[o] = rec[o] /\ (Unmentioned(o) => Unmentioned(o)')
  BY <1>3, OnlyOwnCalls, OnlyOwnDeltas DEF RowInv, LastTyped
<1>5. ReplayedBinding(k)' = ReplayedBinding(k)
  BY <1>3, OnlyOwnDeltas DEF RowInv
<1>6. ASSUME proc[d].pc \in Binding \cup {"pushField"}
      PROVE  proc[d].off \in Slots /\ Owns(k, proc[d].off)
  <2>1. HoldsRow(d)
    BY <1>6 DEF HoldsRow, Storing
  <2> QED
    BY <2>1 DEF HoldsRow, Owns, RowInv, OwnedApart
<1>7. ASSUME proc[d].pc \in Binding PROVE Unmentioned(proc[d].off)'
  <2>1. PICK o \in Slots : o = proc[d].off
    BY <1>6, <1>7
  <2>2. Unmentioned(o)'
    BY <1>4, <1>6, <1>7, <2>1 DEF DeltaInHand
  <2> QED
    BY <1>1, <2>1, <2>2 DEF Unmentioned
<1>8. proc[d].pc = "pushField" => rec'[proc[d].off] = rec[proc[d].off]
  BY <1>4, <1>6
<1> QED
  BY <1>1, <1>5, <1>7, <1>8 DEF DeltaInHand

\* A call learns it by allocating, pushing or storing.
LEMMA OwnDeltas ==
    ASSUME BaseInv, Accepted, Seeded, RowInv, DeltasAllocated, DeltasInHand, daemon,
           NEW c \in Clients, Step(c), NEW k \in Keys, k \notin raced, Logged(k), Active(c)', Key(c)' = k
    PROVE  DeltaInHand(c, k)'
<1>0. /\ CallOK(proc[c]) /\ ProcTyped /\ LogTyped /\ proc[c].pc \notin Outside
      /\ rec \in [Slots -> Rows] /\ index \in [IndexKeys -> Nat] /\ seg \in Segments /\ recBump \in Nat
  BY SMTT(60), StepProceeds, ClientAssumption
     DEF BaseInv, TypeOK, CallOK, OpAt, Allocating, Binding, Storing, Saving, Reading, Pointing, SavingPayload, Outside
<1>1. Active(c)
  BY <1>0, InCall DEF Active
<1> DEFINE Other == Binding \cup {"pushField"}
<1>2. CASE proc'[c].pc \notin Other
  BY <1>2 DEF DeltaInHand, Binding
<1>3. CASE proc'[c].pc \in Other
  <2>1. proc'[c].call = proc[c].call /\ Key(c) = k
    BY <1>3, StepMoves DEF Returns, Keeps, Binding, Key
  <2>2. Op(c) \notin {"add", "save", "load"}
    <3>1. proc[c].call \in Calls /\ proc[c].call.key \notin InvalidKeys
      BY <1>0 DEF CallOK
    <3> QED
      BY <2>1, <3>1, CallFacts, NamespaceAssumption DEF Op, Key
  <2>3. DeltaInHand(c, k)
    BY <1>1, <2>1 DEF DeltasInHand
  <2>4. CASE (Admit(c) \/ AllocKey(c)) /\ Keeps(c) /\ proc'[c].pc \in Binding
    <3>1. proc[c].pc \in Binding /\ pushed' = pushed
      BY <2>4 DEF Admit, AllocKey, Binding, mem, ring
    <3>2. proc'[c].pc # "bind"
      <4>1. CASE Admit(c)
        <5>1. \A pc : Goto(c, pc) => proc'[c].pc = pc
          BY <1>0, GotoMoves DEF Moves
        <5>2. \A res, value : Finish(c, res, value) => proc'[c].pc = "idle"
          BY <1>0, FinishReturns DEF Returns
        <5> QED
          BY <4>1, <5>1, <5>2 DEF Admit
      <4>2. CASE AllocKey(c)
        <5>1. \A pc : Goto(c, pc) => proc'[c].pc = pc
          BY <1>0, GotoMoves DEF Moves
        <5>2. \A res, value : Finish(c, res, value) => proc'[c].pc = "idle"
          BY <1>0, FinishReturns DEF Returns
        <5> QED
          BY <4>2, <5>1, <5>2 DEF AllocKey
      <4> QED
        BY <2>4, <4>1, <4>2
    <3>3. Unmentioned(proc[c].off)
      BY <2>3, <3>1 DEF DeltaInHand
    <3> QED
      BY <2>4, <3>1, <3>2, <3>3 DEF DeltaInHand, Keeps, Unmentioned, Binding
  <2>5. CASE PushKey(c) /\ Keeps(c) /\ proc'[c].pc = "bind"
    <3>1. proc[c].pc \in Binding /\ pushed' = Append(pushed, KeyDelta(c))
      BY <2>5 DEF PushKey, Binding, KeyDelta
    <3>2. PICK d, o : d = KeyDelta(c) /\ o = proc[c].off
      OBVIOUS
    <3>3. d.kind = "index" /\ d.key = k /\ d.off = o /\ pushed' = Append(pushed, d)
      BY <2>1, <3>1, <3>2 DEF KeyDelta
    <3>4. ReplayedBinding(k)' = o
      BY <1>0, <3>3, BindingPushed
    <3>5. Unmentioned(o)
      BY <2>3, <3>1, <3>2 DEF DeltaInHand
    <3>6. Unmentioned(o)'
      BY <1>0, <3>3, <3>5, UnmentionedStays
    <3> QED
      BY <2>5, <3>2, <3>4, <3>6 DEF DeltaInHand, Keeps, Unmentioned
  <2>6. CASE AddRecord(c) /\ proc'[c].pc = "admit" /\ proc'[c].off = recBump
    <3>1. pushed' = pushed
      BY <2>6 DEF AddRecord, ring
    <3>2. \A o \in Slots : o < recBump => o # recBump
      BY <1>0, SlotFacts
    <3>3. Unmentioned(recBump)
      BY <3>2 DEF DeltasAllocated, Unmentioned
    <3> QED
      BY <2>6, <3>1, <3>3 DEF DeltaInHand, Unmentioned
  <2>7. CASE UniqueScan(c) \/ NotifyPayload(c)
    BY <1>0, <2>2, <2>7
       DEF CallOK, OpAt, Op, UniqueScan, NotifyPayload, Allocating, Binding, Storing, Saving, Reading, Pointing, SavingPayload
  <2>8. CASE SetNumber(c) /\ Keeps(c) /\ proc'[c].pc = "pushField"
    <3>1. HoldsRow(c)
      BY <2>8, StoringHolds DEF SetNumber, Filling, Storing
    <3>2. proc[c].off \in Slots
      BY <3>1 DEF RowInv, OwnedApart
    <3>3. rec'[proc[c].off].num = Field(c).value /\ Field(c).field = "num"
      BY <1>0, <2>8, <3>2 DEF SetNumber, Filling, Rows
    <3> QED
      BY <2>8, <3>3 DEF DeltaInHand, Keeps, Field, Binding
  <2>9. CASE SetLength(c) /\ Keeps(c) /\ proc'[c].pc = "pushField"
    <3>1. HoldsRow(c) /\ proc[c].pc = "setLength" /\ proc[c].pc \in Storing
      BY <2>9, StoringHolds DEF SetLength, Storing, Pointing
    <3>2. proc[c].off \in Slots
      BY <3>1 DEF RowInv, OwnedApart
    <3>3. proc[c].at = rec[proc[c].off].at
      BY <1>1, <2>1, <3>1 DEF RowInv, RowsInHand, RowInHand
    <3>4. rec'[proc[c].off].at = proc[c].at /\ rec'[proc[c].off].len = proc[c].len
      BY <1>0, <2>9, <3>2, <3>3 DEF SetLength, Rows
    <3>5. Field(c).field = "str"
      BY <1>0, <3>1 DEF CallOK, Pointing, Field
    <3> QED
      BY <2>9, <3>4, <3>5 DEF DeltaInHand, Keeps, Field, Binding
  <2> QED
    BY <1>3, <2>4, <2>5, <2>6, <2>7, <2>8, <2>9, StepMoves DEF Returns, Binding
<1> QED
  BY SMTT(60), <1>2, <1>3

-----------------------------------------------------------------------------
(* A bound row and the log agree. *)

\* The steps at which a call has something pending are left in one way only.
LEMMA PendingEnds ==
    ASSUME NEW c \in Clients, Step(c)
    PROVE  /\ proc[c].pc = "bind" => Bind(c)
           /\ proc[c].pc = "setLength" => SetLength(c)
           /\ proc[c].pc = "pushField" => PushField(c) \/ PushTimeout(c)
<1>1. ASSUME proc[c].pc \in {"bind", "setLength", "pushField"}
      PROVE  ~(SeedRecord(c) \/ AddRecord(c) \/ Admit(c) \/ AllocKey(c) \/ PushKey(c))
  BY <1>1 DEF SeedRecord, AddRecord, Admit, AllocKey, PushKey
<1>2. ASSUME proc[c].pc \in {"bind", "setLength", "pushField"}
      PROVE  ~(FillDone(c) \/ FillInvalid(c) \/ SetNumber(c) \/ SeedString(c) \/ AddString(c) \/ Copy(c) \/ Notify(c))
  BY <1>2 DEF FillDone, FillInvalid, Filling, SetNumber, SeedString, AddString, Copy, Notify
<1>3. ASSUME proc[c].pc \in {"bind", "setLength", "pushField"}
      PROVE  ~(SetOffset(c) \/ SaveInvalid(c) \/ SeedPayload(c) \/ AddPayload(c) \/ CopyPayload(c) \/ NotifyPayload(c))
  BY <1>3 DEF SetOffset, SaveInvalid, SeedPayload, AddPayload, CopyPayload, NotifyPayload
<1>4. ASSUME proc[c].pc \in {"bind", "setLength", "pushField"}
      PROVE  ~(Search(c) \/ LoadOffset(c) \/ LoadLength(c) \/ Decode(c) \/ ReadPayload(c)
               \/ DeleteKey(c) \/ unmirrorPk(c) \/ RemoveEntry(c) \/ UniqueScan(c))
  BY <1>4 DEF Search, LoadOffset, LoadLength, Decode, ReadPayload,
              DeleteKey, unmirrorPk, RemoveEntry, remove_index, UniqueScan
<1>5. Bind(c) \/ SetLength(c) \/ PushField(c) \/ PushTimeout(c) \/ ~(proc[c].pc \in {"bind", "setLength", "pushField"})
  BY <1>1, <1>2, <1>3, <1>4 DEF Step
<1>6. Bind(c) => proc[c].pc = "bind"
  BY DEF Bind
<1>7. SetLength(c) => proc[c].pc = "setLength"
  BY DEF SetLength
<1>8. PushField(c) => proc[c].pc = "pushField"
  BY DEF PushField
<1>9. PushTimeout(c) => proc[c].pc \in {"pushKey", "notify", "pushField", "notifyPayload"}
  BY SMTT(60) DEF PushTimeout
<1> QED
  BY <1>5, <1>6, <1>7, <1>8, <1>9

\* The row of k replays in the next state if what is stored there does.
LEMMA RowReplaysNext ==
    ASSUME NEW k, NEW s, index'[k] = s,
           (\E d \in Clients : Binds(d, k)') \/ ReplayedBinding(k)' = s,
           (\E d \in Clients : Counts(d, k)') \/ <<rec'[s].num>> = ReplayedField(s, "num", << 0 >>)',
           (\E d \in Clients : Points(d, k)') \/ <<rec'[s].at, rec'[s].len>> = ReplayedField(s, "str", <<0, 0>>)'
    PROVE  RowReplays(k)'
  BY DEF RowReplays, ReplayedField

\* Other calls leave a row and what the log says of it as they are.
LEMMA OthersReplay ==
    ASSUME BaseInv, Accepted, RowInv, LastOnes, NEW c \in Clients, Step(c), NEW k \in Keys, index'[k] # 0,
           ~(Active(c) /\ Key(c) = k /\ IsWrite(Op(c))), index[k] # 0 => RowReplays(k)
    PROVE  RowReplays(k)'
<1> DEFINE o == index[k]
<1>1. /\ index'[k] = o
      /\ \A s \in Slots : Owns(k, s) => rec'[s] = rec[s]
  BY OnlyOwnCalls DEF RowInv, LastTyped
<1>2. o # 0 /\ o \in Slots /\ Owns(k, o)
  BY <1>1 DEF RowInv, OwnedApart, Owns
<1>3. rec'[o] = rec[o]
  BY <1>1, <1>2
<1>4. ReplayedBinding(k)' = ReplayedBinding(k)
  BY OnlyOwnDeltas DEF RowInv
<1>5. PICK s \in Slots : s = o
  BY <1>2
<1>6. \A f, zero : ReplayedField(s, f, zero)' = ReplayedField(s, f, zero)
  BY <1>2, <1>5, OnlyOwnDeltas DEF RowInv
<1>7. ASSUME NEW d \in Clients, Active(d), Key(d) = k, proc[d].pc \in {"bind", "setLength", "pushField"}
      PROVE  proc'[d] = proc[d]
  <2>1. Op(d) \in {"insert", "upsert", "update", "save", "add", "mirror"}
    BY <1>7 DEF BaseInv, ProcTyped, CallOK, OpAt, Active, Op,
                Allocating, Binding, Storing, Saving, Reading, Pointing, SavingPayload
  <2>2. d # c
    BY <1>7, <2>1 DEF IsWrite
  <2> QED
    BY <2>2, OthersStay
<1>8. \A d \in Clients : /\ Binds(d, k) => Binds(d, k)'
                         /\ Counts(d, k) => Counts(d, k)'
                         /\ Points(d, k) => Points(d, k)'
  BY <1>7 DEF Binds, Counts, Points, Active, Key, Field
<1>9. RowReplays(k)
  BY <1>2
<1>10. (\E d \in Clients : Binds(d, k)') \/ ReplayedBinding(k)' = s
  BY <1>4, <1>5, <1>8, <1>9 DEF RowReplays
<1>11. (\E d \in Clients : Counts(d, k)') \/ <<rec'[s].num>> = ReplayedField(s, "num", << 0 >>)'
  BY <1>3, <1>5, <1>6, <1>8, <1>9 DEF RowReplays
<1>12. (\E d \in Clients : Points(d, k)') \/ <<rec'[s].at, rec'[s].len>> = ReplayedField(s, "str", <<0, 0>>)'
  BY <1>3, <1>5, <1>6, <1>8, <1>9 DEF RowReplays
<1>13. index'[k] = s
  BY <1>1, <1>5
<1> QED
  BY <1>10, <1>11, <1>12, <1>13, RowReplaysNext

\* A call changes its row and announces the change, one after the other.
LEMMA OwnReplays ==
    ASSUME BaseInv, Accepted, RacesNoted, RowInv, LastOnes, DeltasInHand, daemon, NEW c \in Clients, Step(c),
           NEW k \in Keys, k \notin raced, Logged(k), k \notin unlogged', index'[k] # 0,
           Active(c), Key(c) = k, IsWrite(Op(c)), index[k] # 0 => RowReplays(k)
    PROVE  RowReplays(k)'
<1> DEFINE Pending == {"bind", "setLength", "pushField"}
<1>0. /\ CallOK(proc[c]) /\ LogTyped /\ ProcTyped /\ k \in IndexKeys
      /\ rec \in [Slots -> Rows] /\ index \in [IndexKeys -> Nat]
  BY StepProceeds DEF BaseInv, TypeOK, IndexKeys
<1>1. RowInHand(c) /\ DeltaInHand(c, k)
  BY DEF RowInv, RowsInHand, DeltasInHand
<1>2. \A d \in Clients : Active(d) /\ Key(d) = k => d = c
  BY Alone
<1>3. PICK s : s = index'[k]
  OBVIOUS
<1>4. ASSUME index[k] = s
      PROVE  /\ proc[c].pc = "bind" \/ ReplayedBinding(k) = s
             /\ (proc[c].pc = "pushField" /\ Field(c).field = "num") \/ <<rec[s].num>> = ReplayedField(s, "num", << 0 >>)
             /\ \/ proc[c].pc = "setLength" \/ (proc[c].pc = "pushField" /\ Field(c).field = "str")
                \/ <<rec[s].at, rec[s].len>> = ReplayedField(s, "str", <<0, 0>>)
  BY <1>2, <1>3, <1>4 DEF RowReplays, Binds, Counts, Points
<1>5. ASSUME \/ proc'[c].call = proc[c].call /\ proc'[c].pc = "bind"
             \/ ReplayedBinding(k)' = s,
             \/ proc'[c].call = proc[c].call /\ proc'[c].pc = "pushField" /\ Field(c)'.field = "num"
             \/ <<rec'[s].num>> = ReplayedField(s, "num", << 0 >>)',
             \/ /\ proc'[c].call = proc[c].call
                /\ proc'[c].pc = "setLength" \/ (proc'[c].pc = "pushField" /\ Field(c)'.field = "str")
             \/ <<rec'[s].at, rec'[s].len>> = ReplayedField(s, "str", <<0, 0>>)'
      PROVE  RowReplays(k)'
  <2>1. proc'[c].call = proc[c].call => Active(c)' /\ Key(c)' = k
    BY DEF Active, Key
  <2>2. (\E d \in Clients : Binds(d, k)') \/ ReplayedBinding(k)' = s
    BY <1>5, <2>1 DEF Binds
  <2>3. (\E d \in Clients : Counts(d, k)') \/ <<rec'[s].num>> = ReplayedField(s, "num", << 0 >>)'
    BY <1>5, <2>1 DEF Counts
  <2>4. (\E d \in Clients : Points(d, k)') \/ <<rec'[s].at, rec'[s].len>> = ReplayedField(s, "str", <<0, 0>>)'
    BY <1>5, <2>1 DEF Points
  <2> QED
    BY <1>3, <2>2, <2>3, <2>4, RowReplaysNext
<1>6. pushed' = pushed => /\ ReplayedBinding(k)' = ReplayedBinding(k)
                          /\ \A f, zero : ReplayedField(s, f, zero)' = ReplayedField(s, f, zero)
  BY DEF ReplayedBinding, ReplayedField
<1>7. ASSUME index' = index, proc[c].pc \in Storing PROVE proc[c].off = s /\ s \in Slots
  <2>1. index[k] = proc[c].off /\ index[k] # 0
    BY <1>1, <1>7 DEF RowInHand
  <2> QED
    BY <1>3, <1>7, <2>1 DEF RowInv, OwnedApart
<1>8. CASE Bind(c)
  <2>1. proc[c].pc = "bind" /\ rec' = rec /\ pushed' = pushed
    BY <1>8 DEF Bind, ring
  <2>2. index' = [index EXCEPT ![k] = proc[c].off]
    BY <1>8 DEF Bind
  <2>3. s = proc[c].off
    BY <1>0, <1>3, <2>2
  <2>4. rec[s] = ZeroRow /\ Unmentioned(s) /\ ReplayedBinding(k) = s
    BY <1>1, <2>1, <2>3 DEF RowInHand, DeltaInHand, Binding
  <2>5. ReplayedField(s, "num", << 0 >>) = << 0 >> /\ ReplayedField(s, "str", <<0, 0>>) = <<0, 0>>
    BY <2>4, UnmentionedIsZero
  <2> QED
    BY <1>5, <1>6, <2>1, <2>4, <2>5 DEF ZeroRow
<1>9. CASE remove_index(c)
  <2>1. Key(c) \notin OverlongKeys
    BY <1>0, NamespaceAssumption
  <2> QED
    BY <1>0, <1>9, <2>1 DEF remove_index
<1>10. CASE SetNumber(c)
  <2>1. /\ proc[c].pc = "fill" /\ proc[c].pc \in Storing /\ index' = index /\ pushed' = pushed
        /\ Goto(c, "pushField") /\ Field(c).field = "num"
    BY <1>10 DEF SetNumber, Filling, Storing, ring
  <2>2. rec'[s].at = rec[s].at /\ rec'[s].len = rec[s].len
    BY <1>0, <1>7, <1>10, <2>1 DEF SetNumber, Rows
  <2>3. proc'[c].call = proc[c].call /\ proc'[c].pc = "pushField" /\ Field(c)' = Field(c)
    BY <1>0, <2>1, GotoMoves DEF Moves, Field
  <2> QED
    BY <1>3, <1>4, <1>5, <1>6, <2>1, <2>2, <2>3
<1>11. CASE SetOffset(c)
  <2>1. /\ proc[c].pc = "setOffset" /\ proc[c].pc \in Storing /\ index' = index /\ pushed' = pushed
        /\ Goto(c, "setLength")
    BY <1>11 DEF SetOffset, Storing, Pointing, ring
  <2>2. rec'[s].num = rec[s].num
    BY <1>0, <1>7, <1>11, <2>1 DEF SetOffset, Rows
  <2>3. proc'[c].call = proc[c].call /\ proc'[c].pc = "setLength"
    BY <1>0, <2>1, GotoMoves DEF Moves
  <2> QED
    BY <1>3, <1>4, <1>5, <1>6, <2>1, <2>2, <2>3
<1>12. CASE SetLength(c)
  <2>1. /\ proc[c].pc = "setLength" /\ proc[c].pc \in Storing /\ index' = index /\ pushed' = pushed
        /\ Goto(c, "pushField")
    BY <1>12 DEF SetLength, Storing, Pointing, ring
  <2>2. rec'[s].num = rec[s].num
    BY <1>0, <1>7, <1>12, <2>1 DEF SetLength, Rows
  <2>3. proc'[c].call = proc[c].call /\ proc'[c].pc = "pushField" /\ Field(c)' = Field(c)
    BY <1>0, <2>1, GotoMoves DEF Moves, Field
  <2>4. Field(c).field = "str"
    BY <1>0, <2>1 DEF CallOK, Pointing, Field
  <2> QED
    BY <1>3, <1>4, <1>5, <1>6, <2>1, <2>2, <2>3, <2>4
<1>13. CASE PushKey(c)
  <2>1. /\ proc[c].pc = "pushKey" /\ index' = index /\ rec' = rec /\ pushed' = Append(pushed, KeyDelta(c))
        /\ Goto(c, "bind")
    BY <1>13 DEF PushKey, KeyDelta, mem
  <2>2. \A f, zero : ReplayedField(s, f, zero)' = ReplayedField(s, f, zero)
    <3>1. PICK d : d = KeyDelta(c)
      OBVIOUS
    <3>2. d.kind = "index" /\ pushed' = Append(pushed, d)
      BY <2>1, <3>1 DEF KeyDelta
    <3> QED
      BY <1>0, <3>2, FieldStays
  <2>3. proc'[c].call = proc[c].call /\ proc'[c].pc = "bind"
    BY <1>0, <2>1, GotoMoves DEF Moves
  <2> QED
    BY <1>3, <1>4, <1>5, <2>1, <2>2, <2>3
<1>14. CASE PushField(c)
  <2>1. /\ proc[c].pc = "pushField" /\ proc[c].pc \in Storing /\ index' = index /\ rec' = rec
        /\ pushed' = Append(pushed, FieldDelta(c))
    BY <1>14 DEF PushField, Storing, FieldDelta, mem
  <2>2. PICK d : d = FieldDelta(c)
    OBVIOUS
  <2>3. d.kind = "field" /\ d.off = s /\ d.field = Field(c).field /\ pushed' = Append(pushed, d)
    BY <1>7, <2>1, <2>2 DEF FieldDelta
  <2>4. ReplayedBinding(k)' = ReplayedBinding(k)
    BY <1>0, <2>3, BindingStays
  <2>5. Field(c).field \in {"num", "str"}
    <3>1. proc[c].todo \in Seq(Assignments) /\ proc[c].todo # <<>>
      BY <1>0, <2>1 DEF CallOK, OpAt, Allocating, Binding, Storing, Saving, Reading, Pointing, SavingPayload
    <3> QED
      BY <3>1, FirstAssignment DEF Field
  <2>6. CASE Field(c).field = "num"
    <3>1. d.words = <<rec[s].num>>
      BY <1>1, <1>7, <2>1, <2>2, <2>6 DEF FieldDelta, DeltaInHand
    <3>2. ReplayedField(s, "num", << 0 >>)' = d.words
      BY <1>0, <2>3, <2>6, FieldPushed
    <3>3. ReplayedField(s, "str", <<0, 0>>)' = ReplayedField(s, "str", <<0, 0>>)
      BY <1>0, <2>3, <2>6, FieldStays
    <3> QED
      BY <1>3, <1>4, <1>5, <2>1, <2>4, <2>6, <3>1, <3>2, <3>3
  <2>7. CASE Field(c).field = "str"
    <3>1. d.words = <<rec[s].at, rec[s].len>>
      BY <1>1, <1>7, <2>1, <2>2, <2>7 DEF FieldDelta, DeltaInHand
    <3>2. ReplayedField(s, "str", <<0, 0>>)' = d.words
      BY <1>0, <2>3, <2>7, FieldPushed
    <3>3. ReplayedField(s, "num", << 0 >>)' = ReplayedField(s, "num", << 0 >>)
      BY <1>0, <2>3, <2>7, FieldStays
    <3> QED
      BY <1>3, <1>4, <1>5, <2>1, <2>4, <2>7, <3>1, <3>2, <3>3
  <2> QED
    BY <2>5, <2>6, <2>7
<1>15. CASE PushTimeout(c) /\ proc[c].pc = "pushField"
  BY <1>15 DEF PushTimeout
<1>16. CASE /\ index' = index /\ rec' = rec /\ proc[c].pc \notin Pending
            /\ pushed' = pushed \/ \E d : pushed' = Append(pushed, d) /\ d.kind = "arena"
  <2>1. /\ ReplayedBinding(k)' = ReplayedBinding(k)
        /\ \A f, zero : ReplayedField(s, f, zero)' = ReplayedField(s, f, zero)
    <3>1. ASSUME NEW d, pushed' = Append(pushed, d), d.kind = "arena"
          PROVE  /\ ReplayedBinding(k)' = ReplayedBinding(k)
                 /\ \A f, zero : ReplayedField(s, f, zero)' = ReplayedField(s, f, zero)
      BY <1>0, <3>1, BindingStays, FieldStays
    <3> QED
      BY <1>6, <1>16, <3>1
  <2> QED
    BY <1>3, <1>4, <1>5, <1>16, <2>1
<1> QED
  BY <1>8, <1>9, <1>10, <1>11, <1>12, <1>13, <1>14, <1>15, <1>16, StepFrame, StepPushes, PendingEnds

LEMMA StepReplay ==
    ASSUME BaseInv, RowsInvariant, ReplayInv, BumpsForward, NEW c \in Clients, Step(c)
    PROVE  ReplayInv'
<1>0. /\ Accepted /\ Seeded /\ RacesNoted /\ LogTyped /\ RowInv /\ OwnedApart
      /\ raced' = raced /\ daemon' = daemon /\ unlogged \subseteq unlogged'
  BY StepConnected, StepFrame, StepUnlogged DEF BaseInv, RowsInvariant, GrantInv, UniqueInv, RowInv
<1>1. LastOnes'
  <2>1. pushed' = pushed \/ \E d : pushed' = Append(pushed, d)
    BY StepPushes
  <2> QED
    BY <1>0, <2>1, LastOnesGrow DEF ReplayInv
<1>2. DeltasAllocated'
  BY <1>0, StepAllocated DEF ReplayInv
<1>3. \A k : Logged(k)' => Logged(k) /\ k \in Keys /\ k \notin raced /\ k \notin unlogged'
  BY <1>0 DEF Logged
<1>4. ASSUME NEW d \in Clients, NEW k \in Keys, daemon, Active(d)', Key(d)' = k, Logged(k)'
      PROVE  DeltaInHand(d, k)'
  <2>1. CASE d = c
    BY <1>0, <1>3, <1>4, <2>1, OwnDeltas DEF ReplayInv
  <2>2. CASE d # c
    <3>1. Active(d) /\ Key(d) = k
      BY <1>4, <2>2, OthersStay DEF Active, Key
    <3>2. DeltaInHand(d, k)
      BY <1>3, <1>4, <3>1 DEF ReplayInv, DeltasInHand
    <3> QED
      BY <1>0, <1>3, <1>4, <2>2, <3>1, <3>2, OthersDeltas DEF ReplayInv
  <2> QED
    BY <2>1, <2>2
<1>5. DeltasInHand'
  BY <1>0, <1>4 DEF DeltasInHand
<1>6. ASSUME NEW k \in Keys, daemon, Logged(k)', index'[k] # 0 PROVE RowReplays(k)'
  <2>1. index[k] # 0 => RowReplays(k)
    BY <1>3, <1>6 DEF ReplayInv, RowsReplay
  <2>2. CASE Active(c) /\ Key(c) = k /\ IsWrite(Op(c))
    BY <1>0, <1>3, <1>6, <2>1, <2>2, OwnReplays DEF ReplayInv
  <2>3. CASE ~(Active(c) /\ Key(c) = k /\ IsWrite(Op(c)))
    BY <1>0, <1>6, <2>1, <2>3, OthersReplay DEF ReplayInv
  <2> QED
    BY <2>2, <2>3
<1>7. RowsReplay'
  BY <1>0, <1>6 DEF RowsReplay
<1> QED
  BY <1>1, <1>2, <1>5, <1>7 DEF ReplayInv

\* A step that pushes nothing, stores nothing and takes nothing in hand.
LEMMA IdleReplay ==
    ASSUME ReplayInv, UNCHANGED <<seg, daemon, recBump, index, rec, pushed, unlogged>>, raced \subseteq raced',
           \A d \in Clients :
              \/ proc'[d] = proc[d]
              \/ /\ proc[d].pc \in Outside /\ proc'[d].pc \notin Storing \cup Reading \cup {"copyPayload"}
                 /\ proc'[d].pc \in Binding => ~Active(d)' \/ Key(d)' \notin Keys
    PROVE  ReplayInv'
<1> DEFINE Same(d) == proc'[d] = proc[d]
<1>1. ASSUME NEW d \in Clients, ~Same(d), NEW k \in Keys
      PROVE  /\ ~Binds(d, k) /\ ~Counts(d, k) /\ ~Points(d, k)
             /\ Active(d)' /\ Key(d)' = k => DeltaInHand(d, k)'
  BY <1>1 DEF Binds, Counts, Points, DeltaInHand, Storing, Pointing, Binding, Outside
<1>2. LastOnes' /\ DeltasAllocated'
  BY DEF ReplayInv, LastOnes, DeltasAllocated, Slots, R
<1>3. \A k : Logged(k)' => Logged(k)
  BY DEF Logged
<1>4. \A k : ReplayedBinding(k)' = ReplayedBinding(k)
  BY DEF ReplayedBinding
<1>5. \A o, f, zero : ReplayedField(o, f, zero)' = ReplayedField(o, f, zero)
  BY DEF ReplayedField
<1>6. DeltasInHand'
  <2>1. ASSUME NEW d \in Clients, NEW k \in Keys, daemon, Active(d)', Key(d)' = k, Logged(k)', Same(d)
        PROVE  DeltaInHand(d, k)'
    <3>1. DeltaInHand(d, k)
      BY <1>3, <2>1 DEF ReplayInv, DeltasInHand, Active, Key
    <3> QED
      BY <1>4, <2>1, <3>1 DEF DeltaInHand, Unmentioned, Field
  <2> QED
    BY <1>1, <2>1 DEF DeltasInHand
<1>7. RowsReplay'
  <2>1. ASSUME NEW k \in Keys, daemon, Logged(k)', index'[k] # 0 PROVE RowReplays(k)'
    <3>1. RowReplays(k)
      BY <1>3, <2>1 DEF ReplayInv, RowsReplay
    <3>2. \A d \in Clients : /\ Binds(d, k) => Binds(d, k)'
                             /\ Counts(d, k) => Counts(d, k)'
                             /\ Points(d, k) => Points(d, k)'
      BY <1>1 DEF Binds, Counts, Points, Active, Key, Field
    <3>3. PICK s : s = index[k]
      OBVIOUS
    <3>4. ReplayedField(s, "num", << 0 >>)' = ReplayedField(s, "num", << 0 >>)
      BY <1>5
    <3>5. ReplayedField(s, "str", <<0, 0>>)' = ReplayedField(s, "str", <<0, 0>>)
      BY <1>5
    <3>6. (\E d \in Clients : Binds(d, k)') \/ ReplayedBinding(k)' = s
      BY <1>4, <3>1, <3>2, <3>3 DEF RowReplays
    <3>7. (\E d \in Clients : Counts(d, k)') \/ <<rec'[s].num>> = ReplayedField(s, "num", << 0 >>)'
      BY <3>1, <3>2, <3>3, <3>4 DEF RowReplays
    <3>8. (\E d \in Clients : Points(d, k)') \/ <<rec'[s].at, rec'[s].len>> = ReplayedField(s, "str", <<0, 0>>)'
      BY <3>1, <3>2, <3>3, <3>5 DEF RowReplays
    <3>9. index'[k] = s
      BY <3>3
    <3> QED
      BY <3>6, <3>7, <3>8, <3>9, RowReplaysNext
  <2> QED
    BY <2>1 DEF RowsReplay
<1> QED
  BY <1>2, <1>6, <1>7 DEF ReplayInv

LEMMA CallReplay ==
    ASSUME BaseInv, ReplayInv, NEW c \in Clients, Call(c)
    PROVE  ReplayInv'
<1> DEFINE call == Head(script[c])
<1>1. /\ UNCHANGED <<seg, daemon, recBump, index, rec, pushed, unlogged>> /\ raced \subseteq raced'
      /\ proc[c].pc \in Outside
      /\ \A d \in Clients : d # c => proc'[d] = proc[d]
  BY ZenonT(60), CallShape DEF BaseInv, ProcTyped
<1>2. CASE Returns(c)
  BY <1>1, <1>2, IdleReplay DEF Returns, Storing, Pointing, Reading, Binding
<1>3. CASE proc'[c].call = call /\ CallOK(proc'[c]) /\ proc'[c].pc = FirstStep(call)
  <2>1. call \in Calls /\ call.key \notin InvalidKeys
    BY <1>3 DEF CallOK
  <2>2. proc'[c].pc \notin Storing \cup Reading \cup {"copyPayload"}
    BY <1>3, <2>1, CallFacts DEF FirstStep, Storing, Pointing, Reading
  <2>3. proc'[c].pc \in Binding => call.op = "mirror"
    BY <1>3, <2>1, CallFacts DEF FirstStep, Binding
  <2>4. call.op = "mirror" => Key(c)' \notin Keys
    BY <1>3, <2>1, CallFacts, NamespaceAssumption DEF Key
  <2> QED
    BY <1>1, <2>2, <2>3, <2>4, IdleReplay
<1> QED
  BY <1>2, <1>3, CallShape

LEMMA NextReplay ==
    BaseInv /\ RowsInvariant /\ ReplayInv /\ [Next]_vars /\ [BumpsForward]_vars => ReplayInv'
<1> SUFFICES ASSUME BaseInv, RowsInvariant, ReplayInv, [Next]_vars, [BumpsForward]_vars
             PROVE  ReplayInv'
  OBVIOUS
<1>1. CASE Drain \/ UNCHANGED vars
  BY <1>1, IdleReplay DEF Drain, vars, mem, ring, hist
<1>2. ASSUME NEW c \in Clients, Connect(c) PROVE ReplayInv'
  <2>1. /\ UNCHANGED <<seg, daemon, recBump, index, rec, pushed, unlogged, raced>>
        /\ proc[c].pc \in Outside /\ proc'[c].pc \in Outside
    BY <1>2 DEF Connect, Goto, mem, ring, hist, BaseInv, ProcTyped, ProcFields, Outside
  <2>2. proc'[c].pc \notin Storing \cup Reading \cup {"copyPayload"} \cup Binding
    BY <2>1 DEF Outside, Storing, Pointing, Reading, Binding
  <2>3. \A d \in Clients : d # c => proc'[d] = proc[d]
    BY <1>2, OthersStay
  <2> QED
    BY <2>1, <2>2, <2>3, IdleReplay
<1>3. ASSUME NEW c \in Clients, Call(c) PROVE ReplayInv'
  BY <1>3, CallReplay
<1>4. ASSUME NEW c \in Clients, Step(c) PROVE ReplayInv'
  BY <1>1, <1>4, StepReplay
<1> QED
  BY <1>1, <1>2, <1>3, <1>4 DEF Next

LEMMA InitReplay == Init => ReplayInv
  BY DEF Init, ReplayInv, LastOnes, DeltasAllocated, DeltasInHand, RowsReplay, Idle, Active, IndexKeys

\* With a daemon, the log that the ring carries says what memory says: a row
\* on whose key no two calls overlapped and none of whose deltas a full ring
\* refused replays to the offset, the number and the string pointer it has.
\* insert_index and the set trap push the deltas one by one, between their
\* stores; the theorem says that nothing comes in between that another
\* client's calls on other keys could spoil.
THEOREM LogIsFaithful == Spec /\ [][BumpsForward]_vars => []LogAgreesWithMemory
<1>1. ReplayInv => LogAgreesWithMemory
  <2> SUFFICES ASSUME ReplayInv, NEW k \in Keys, daemon, index[k] # 0, Quiet(k), k \notin unlogged
               PROVE  LET o == ReplayedBinding(k)
                      IN  /\ o = index[k]
                          /\ <<rec[o].num>> = ReplayedField(o, "num", << 0 >>)
                          /\ <<rec[o].at, rec[o].len>> = ReplayedField(o, "str", <<0, 0>>)
    BY DEF LogAgreesWithMemory
  <2>1. RowReplays(k)
    BY DEF ReplayInv, RowsReplay, Logged, Quiet
  <2>2. \A d \in Clients : ~Binds(d, k) /\ ~Counts(d, k) /\ ~Points(d, k)
    BY DEF Quiet, Binds, Counts, Points
  <2> QED
    BY <2>1, <2>2 DEF RowReplays
<1> QED
  BY <1>1, InitInvariant, NextInvariant, InitReplay, NextReplay, BaseInvariant, PTL DEF Spec

=============================================================================
