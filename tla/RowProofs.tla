------------------------------ MODULE RowProofs ------------------------------
(***************************************************************************)
(* A row holds what was last stored in it, and a table's descriptor is     *)
(* always whole.  Clients that work on different keys share the two        *)
(* allocators, the index and the string region, and every write to a row   *)
(* or a descriptor is several steps; the theorems say that no client       *)
(* disturbs another one's row and none reads half a descriptor, for any    *)
(* number of clients and keys, as long as neither bump word wraps          *)
(* (BumpsForward).  A section of its own says what the bytes of a          *)
(* descriptor encode (catalog_record.ts).                                  *)
(***************************************************************************)
EXTENDS ClientProofs, FiniteSetTheorems

\* Client c has a record in its hands, to bind it to a key or to fill it.
HoldsRow(c) == Active(c) /\ Key(c) \in Keys /\ proc[c].pc \in Binding \cup Storing

\* The record at o belongs to k: k is bound to it, or a call on k holds it.
Owns(k, o) ==
    \/ index[k] = o /\ o # 0
    \/ \E c \in Clients : HoldsRow(c) /\ Key(c) = k /\ proc[c].off = o

-----------------------------------------------------------------------------
(* The inductive invariant: records. *)

\* The record bump word stands at a slot while there is one left, and the
\* slots from there on are as the daemon zeroed them.
FreshRecords ==
    /\ recBump # 0 /\ recBump + Stride <= recordEnd(R) => recBump \in Slots
    /\ \A o \in Slots : recBump <= o => rec[o] = ZeroRow

\* Rows are slots below the bump word, and no two keys share one.
OwnedApart ==
    /\ \A k \in Keys : index[k] # 0 => index[k] \in Slots
    /\ \A c \in Clients : HoldsRow(c) => proc[c].off \in Slots
    /\ \A k \in Keys, o \in Slots : Owns(k, o) => o < recBump
    /\ \A k, l \in Keys, o \in Slots : Owns(k, o) /\ Owns(l, o) => k = l

-----------------------------------------------------------------------------
(* The inductive invariant: the string region. *)

Copying(c) == proc[c].pc \in {"copy", "copyPayload"}

\* A span of bytes written or about to be.
InBytes(lo, hi) == lo \in Nat /\ hi \in Nat /\ lo <= hi /\ hi <= strBump /\ hi <= seg.mapped

\* Written spans and spans about to be written are apart.
BytesApart ==
    /\ \A s \in heap : InBytes(s.lo, s.hi) /\ s.lo < s.hi
    /\ \A s, t \in heap : s # t => s.hi <= t.lo \/ t.hi <= s.lo
    /\ \A c \in Clients : Copying(c) =>
          /\ InBytes(proc[c].at, proc[c].at + proc[c].len)
          /\ \A s \in heap : s.hi <= proc[c].at \/ proc[c].at + proc[c].len <= s.lo
          /\ \A d \in Clients \ {c} : Copying(d) =>
                proc[c].at + proc[c].len <= proc[d].at \/ proc[d].at + proc[d].len <= proc[c].at

\* The bytes of v are at the fat pointer <<at, n>>.
Stored(at, n, v) ==
    \/ at = 0 /\ n = 0 /\ v = Empty
    \/ [lo |-> at, hi |-> at + n, val |-> v] \in heap

\* A client stores a pointer only to bytes it has copied.
BytesCopied ==
    \A c \in Clients :
        (proc[c].pc = "notify" /\ proc[c].len > 0) \/ proc[c].pc \in {"setOffset", "setLength"} =>
            [lo |-> proc[c].at, hi |-> proc[c].at + proc[c].len, val |-> Field(c).value] \in heap

-----------------------------------------------------------------------------
(* The inductive invariant: calls and rows of a key no two calls raced on. *)

\* What a call on such a key knows of its row.
RowInHand(c) ==
    LET p == proc[c]
    IN  /\ p.pc \in Binding => rec[p.off] = ZeroRow
        /\ p.pc \in Storing \cup Reading => index[Key(c)] = p.off /\ p.off # 0
        /\ p.pc \in {"setLength", "loadLength", "decode"} => p.at = rec[p.off].at
        /\ p.pc = "decode" => p.len = rec[p.off].len

RowsInHand == \A c \in Clients : Active(c) /\ Key(c) \in Keys \ raced => RowInHand(c)

\* Between its two words a pointer is neither the old nor the new one.
HalfStored(k) == \E c \in Clients : Active(c) /\ Key(c) = k /\ proc[c].pc = "setLength"

RowAgrees(k) ==
    /\ rec[index[k]].num = last[k].num
    /\ HalfStored(k) \/ Stored(rec[index[k]].at, rec[index[k]].len, last[k].str)

RowsAgree == \A k \in Keys \ raced : index[k] # 0 => RowAgrees(k)

ReadersKnown == \A c \in Clients : proc[c].pc \in Reading => Key(c) \in Keys

LastTyped == DOMAIN last = IndexKeys /\ \A k \in IndexKeys : DOMAIN last[k] = {"num", "str"}

RowInv ==
    /\ FreshRecords /\ OwnedApart /\ BytesApart /\ BytesCopied
    /\ RowsInHand /\ RowsAgree /\ ReadersKnown /\ LastTyped

-----------------------------------------------------------------------------
(* Where each step leads, and what it brings along.                        *)

LEMMA StepMoves ==
    ASSUME BaseInv, NEW c \in Clients, Step(c)
    PROVE  \/ Returns(c)
           \/ /\ Keeps(c)
              /\ \/ SeedRecord(c) /\ proc'[c].pc = "addRecord"
                 \/ Admit(c) /\ proc'[c].pc \in {"bind", "allocKey"}
                 \/ AllocKey(c) /\ proc'[c].pc = "pushKey"
                 \/ PushKey(c) /\ proc'[c].pc = "bind"
                 \/ UniqueScan(c) /\ proc'[c].pc = "admit"
                 \/ Bind(c) /\ proc'[c].pc = "fill"
                 \/ SetNumber(c) /\ proc'[c].pc = "pushField"
                 \/ SeedString(c) /\ proc'[c].pc = "addString"
                 \/ Copy(c) /\ proc'[c].pc = "notify"
                 \/ Notify(c) /\ proc'[c].pc = "setOffset" /\ proc[c].len # 0
                 \/ SetOffset(c) /\ proc'[c].pc = "setLength"
                 \/ SetLength(c) /\ proc'[c].pc = "pushField"
                 \/ SeedPayload(c) /\ proc'[c].pc = "addPayload"
                 \/ CopyPayload(c) /\ proc'[c].pc = "notifyPayload"
           \/ /\ proc'[c].call = proc[c].call
              /\ \/ /\ AddRecord(c) /\ proc'[c].pc = "admit" /\ proc'[c].off = recBump
                    /\ ~(recBump + Stride > recordEnd(R))
                 \/ /\ AddString(c) /\ proc'[c].pc = "copy" /\ proc'[c].off = proc[c].off
                    /\ proc'[c].at = strBump /\ proc'[c].len = ByteLength[Field(c).value]
                    /\ ~(strBump + ByteLength[Field(c).value] > stringEnd(R))
                 \/ /\ AddPayload(c) /\ proc'[c].pc = "copyPayload"
                    /\ proc'[c].at = strBump /\ proc'[c].len = catalogEncodedLen(Len(Field(c).value))
                    /\ ~(strBump + catalogEncodedLen(Len(Field(c).value)) > seg.mapped)
                 \/ NotifyPayload(c) /\ proc'[c].pc = "admit"
                 \/ PushField(c) /\ proc'[c].pc = "fill" /\ proc'[c].off = proc[c].off
                 \/ Search(c) /\ proc'[c].pc \in {"seedRecord", "payload"}
                 \/ /\ Search(c) /\ proc'[c].pc \in {"loadOffset", "fill"} /\ Key(c) \notin OverlongKeys
                    /\ proc'[c].off = index[Key(c)] /\ proc'[c].off # 0
                 \/ /\ LoadOffset(c) /\ proc'[c].pc = "loadLength" /\ proc'[c].off = proc[c].off
                    /\ proc'[c].at = rec[proc[c].off].at
                 \/ /\ LoadLength(c) /\ proc'[c].pc = "decode" /\ proc'[c].off = proc[c].off
                    /\ proc'[c].at = proc[c].at /\ proc'[c].len = rec[proc[c].off].len
<1>0. ProcTyped
  BY DEF BaseInv
<1>1. ASSUME NEW res, NEW value, Finish(c, res, value) PROVE Returns(c)
  BY <1>0, <1>1, FinishReturns
<1>2. ASSUME NEW pc, Goto(c, pc) PROVE proc'[c].pc = pc /\ Keeps(c)
  BY <1>0, <1>2, GotoMoves DEF Moves, Keeps
<1>3. CASE SeedRecord(c) \/ Admit(c) \/ AllocKey(c) \/ PushKey(c) \/ UniqueScan(c)
  BY <1>1, <1>2, <1>3 DEF SeedRecord, Admit, AllocKey, PushKey, UniqueScan
<1>4. CASE Bind(c) \/ SetNumber(c) \/ SeedString(c) \/ Copy(c) \/ Notify(c) \/ SetOffset(c) \/ SetLength(c)
  BY <1>1, <1>2, <1>4 DEF Bind, SetNumber, SeedString, Copy, Notify, SetOffset, SetLength
<1>5. CASE SeedPayload(c) \/ CopyPayload(c)
  BY <1>2, <1>5 DEF SeedPayload, CopyPayload
<1>6. CASE PushTimeout(c) \/ FillDone(c) \/ FillInvalid(c) \/ SaveInvalid(c) \/ Decode(c) \/ ReadPayload(c) \/ remove_index(c)
  BY <1>1, <1>6 DEF PushTimeout, FillDone, FillInvalid, SaveInvalid, Decode, ReadPayload, remove_index
<1>7. CASE AddRecord(c)
  <2>1. \/ Finish(c, "OutOfRecords", None)
        \/ /\ ~(recBump + Stride > recordEnd(R))
           /\ proc' = [proc EXCEPT ![c].pc = "admit", ![c].off = recBump]
    BY <1>7, Zenon DEF AddRecord
  <2>2. ASSUME proc' = [proc EXCEPT ![c].pc = "admit", ![c].off = recBump]
        PROVE  proc'[c].call = proc[c].call /\ proc'[c].pc = "admit" /\ proc'[c].off = recBump
    BY <1>0, <2>2 DEF ProcTyped, ProcFields
  <2> QED
    BY <1>1, <1>7, <2>1, <2>2, Zenon
<1>8. CASE AddString(c)
  <2> DEFINE n == ByteLength[Field(c).value]
  <2>1. \/ Finish(c, "OutOfStrings", None)
        \/ /\ ~(strBump + n > stringEnd(R))
           /\ proc' = [proc EXCEPT ![c].pc = "copy", ![c].at = strBump, ![c].len = n]
    BY <1>8, Zenon DEF AddString
  <2> HIDE DEF n
  <2>2. ASSUME proc' = [proc EXCEPT ![c].pc = "copy", ![c].at = strBump, ![c].len = n]
        PROVE  /\ proc'[c].call = proc[c].call /\ proc'[c].pc = "copy" /\ proc'[c].off = proc[c].off
               /\ proc'[c].at = strBump /\ proc'[c].len = n
    BY <1>0, <2>2 DEF ProcTyped, ProcFields
  <2> USE DEF n
  <2> QED
    BY <1>1, <1>8, <2>1, <2>2, Zenon
<1>9. CASE AddPayload(c)
  <2> DEFINE n == catalogEncodedLen(Len(Field(c).value))
  <2>1. \/ Finish(c, "OutOfStrings", None)
        \/ /\ ~(strBump + n > seg.mapped)
           /\ proc' = [proc EXCEPT ![c].pc = "copyPayload", ![c].at = strBump, ![c].len = n]
    BY <1>9, Zenon DEF AddPayload
  <2> HIDE DEF n
  <2>2. ASSUME proc' = [proc EXCEPT ![c].pc = "copyPayload", ![c].at = strBump, ![c].len = n]
        PROVE  /\ proc'[c].call = proc[c].call /\ proc'[c].pc = "copyPayload"
               /\ proc'[c].at = strBump /\ proc'[c].len = n
    BY <1>0, <2>2 DEF ProcTyped, ProcFields
  <2> USE DEF n
  <2> QED
    BY <1>1, <1>9, <2>1, <2>2, Zenon
<1>10. CASE NotifyPayload(c)
  BY <1>0, <1>10 DEF NotifyPayload, ProcTyped, ProcFields
<1>11. CASE PushField(c)
  BY <1>0, <1>11 DEF PushField, ProcTyped, ProcFields
<1>12. CASE LoadOffset(c)
  BY <1>0, <1>12 DEF LoadOffset, ProcTyped, ProcFields
<1>13. CASE LoadLength(c)
  BY <1>0, <1>13 DEF LoadLength, ProcTyped, ProcFields
<1>14. CASE Search(c)
  <2> DEFINE off == index[Key(c)]
             next == IF Op(c) = "find" THEN "loadOffset" ELSE "fill"
  <2>1. \/ \E res \in {"Error", "null"} : Finish(c, res, None)
        \/ proc' = [proc EXCEPT ![c].pc = "seedRecord", ![c].value = "created"]
        \/ proc' = [proc EXCEPT ![c].pc = "payload", ![c].off = off]
        \/ Key(c) \notin OverlongKeys /\ off # 0 /\ proc' = [proc EXCEPT ![c].off = off, ![c].pc = next]
    BY <1>14 DEF Search
  <2>2. next \in {"loadOffset", "fill"}
    OBVIOUS
  <2> HIDE DEF off, next
  <2>3. CASE proc' = [proc EXCEPT ![c].pc = "seedRecord", ![c].value = "created"]
    BY <1>0, <1>14, <2>3 DEF ProcTyped, ProcFields
  <2>4. CASE proc' = [proc EXCEPT ![c].pc = "payload", ![c].off = off]
    BY <1>0, <1>14, <2>4 DEF ProcTyped, ProcFields
  <2>5. CASE Key(c) \notin OverlongKeys /\ off # 0 /\ proc' = [proc EXCEPT ![c].off = off, ![c].pc = next]
    <3>1. proc'[c].call = proc[c].call /\ proc'[c].pc = next /\ proc'[c].off = off
      BY <1>0, <2>5 DEF ProcTyped, ProcFields
    <3> QED
      BY <1>14, <2>2, <2>5, <3>1 DEF off
  <2> QED
    BY <1>1, <2>1, <2>3, <2>4, <2>5
<1> QED
  BY <1>3, <1>4, <1>5, <1>6, <1>7, <1>8, <1>9, <1>10, <1>11, <1>12, <1>13, <1>14
     DEF Step, DeleteKey, unmirrorPk, RemoveEntry

\* What a step leaves alone, beside StepFrame.
LEMMA StepStores ==
    ASSUME NEW c \in Clients, Step(c)
    PROVE  /\ heap' = heap \/ AllocKey(c) \/ Copy(c) \/ CopyPayload(c)
           /\ last' = last \/ Bind(c) \/ SetNumber(c) \/ SetLength(c)
<1> USE DEF mem, hist
<1>1. CASE SeedRecord(c) \/ AddRecord(c) \/ Admit(c) \/ AllocKey(c) \/ PushKey(c) \/ PushTimeout(c) \/ Bind(c)
  BY <1>1 DEF SeedRecord, AddRecord, Admit, AllocKey, PushKey, PushTimeout, Bind
<1>2. CASE FillDone(c) \/ FillInvalid(c) \/ SetNumber(c) \/ SeedString(c) \/ AddString(c) \/ Copy(c) \/ Notify(c)
  BY <1>2 DEF FillDone, FillInvalid, SetNumber, SeedString, AddString, Copy, Notify
<1>3. CASE SetOffset(c) \/ SetLength(c) \/ PushField(c) \/ SaveInvalid(c) \/ SeedPayload(c)
  BY <1>3 DEF SetOffset, SetLength, PushField, SaveInvalid, SeedPayload
<1>4. CASE AddPayload(c) \/ CopyPayload(c) \/ NotifyPayload(c) \/ Search(c) \/ LoadOffset(c) \/ LoadLength(c)
  BY <1>4 DEF AddPayload, CopyPayload, NotifyPayload, Search, LoadOffset, LoadLength
<1>5. CASE Decode(c) \/ ReadPayload(c) \/ remove_index(c) \/ UniqueScan(c)
  BY <1>5 DEF Decode, ReadPayload, remove_index, UniqueScan
<1> QED
  BY <1>1, <1>2, <1>3, <1>4, <1>5 DEF Step, DeleteKey, unmirrorPk, RemoveEntry

-----------------------------------------------------------------------------
(* Records. *)

LEMMA SixteenFacts ==
    ASSUME NEW b \in Nat
    PROVE  b \div 16 \in Nat /\ 16 * (b \div 16) <= b /\ b < 16 * (b \div 16) + 16
  OBVIOUS

\* The slots of an accepted table: the first one, and the one after another.
LEMMA SlotFacts ==
    ASSUME seg \in Segments, Accepted
    PROVE  /\ \A o \in Slots : o \in Nat /\ R.recordStart <= o /\ o # 0
           /\ R.recordStart + 16 <= recordEnd(R) => R.recordStart \in Slots
           /\ \A o \in Slots : o + 32 <= recordEnd(R) => o + 16 \in Slots
<1> DEFINE s == R.recordStart
           b == R.recordBytes
           q == b \div 16
<1>1. s \in Nat \ {0} /\ b \in Nat /\ recordEnd(R) = s + b
  BY LayoutFacts DEF recordEnd
<1>2. Slots = {s + i * 16 : i \in 0 .. q - 1}
  BY StrideValue DEF Slots
<1>3. q \in Nat /\ 16 * q <= b /\ b < 16 * q + 16
  BY <1>1, SixteenFacts
<1> HIDE DEF s, b, q
<1>4. \A o \in Slots : o \in Nat /\ s <= o /\ o # 0
  BY <1>1, <1>2, <1>3
<1>5. s + 16 <= recordEnd(R) => s \in Slots
  <2>1. s + 16 <= recordEnd(R) => 0 \in 0 .. q - 1
    BY <1>1, <1>3
  <2>2. s = s + 0 * 16
    BY <1>1
  <2> QED
    BY <1>2, <2>1, <2>2
<1>6. ASSUME NEW o \in Slots, o + 32 <= recordEnd(R) PROVE o + 16 \in Slots
  <2>1. PICK i \in 0 .. q - 1 : o = s + i * 16
    BY <1>2
  <2>2. i + 1 \in 0 .. q - 1 /\ o + 16 = s + (i + 1) * 16
    BY <1>1, <1>3, <1>6, <2>1
  <2> QED
    BY <1>2, <2>2
<1> USE DEF s
<1> QED
  BY <1>4, <1>5, <1>6

\* A client that stores into a record holds it.
LEMMA StoringHolds ==
    ASSUME BaseInv, NEW c \in Clients, proc[c].pc \in Storing
    PROVE  HoldsRow(c)
<1>1. proc[c].pc \notin Outside /\ ProcTyped
  BY DEF Storing, Pointing, Outside, BaseInv
<1>2. proc[c].call # None /\ CallOK(proc[c])
  BY <1>1, InCall
<1>3. proc[c].call \in Calls /\ proc[c].call.key \notin InvalidKeys \cup OverlongKeys
  BY <1>2 DEF CallOK
<1>4. proc[c].call.op \in {"insert", "upsert", "update"}
  BY <1>2 DEF CallOK, OpAt, Allocating, Binding, Storing, Pointing, Saving, SavingPayload, Reading
<1> QED
  BY <1>2, <1>3, <1>4, CallFacts DEF HoldsRow, Active, Key

\* A step stores into at most one record, one that its client holds.
LEMMA StepWrites ==
    ASSUME BaseInv, NEW c \in Clients, Step(c)
    PROVE  \/ rec' = rec
           \/ /\ HoldsRow(c) /\ proc[c].pc \in Storing
              /\ \A o \in Slots : o # proc[c].off => rec'[o] = rec[o]
<1>1. rec \in [Slots -> Rows]
  BY DEF BaseInv, TypeOK
<1>2. CASE SetNumber(c) \/ SetOffset(c) \/ SetLength(c)
  <2>1. proc[c].pc \in Storing
    BY <1>2 DEF SetNumber, Filling, SetOffset, SetLength, Storing, Pointing
  <2>2. \A o \in Slots : o # proc[c].off => rec'[o] = rec[o]
    BY <1>1, <1>2 DEF SetNumber, SetOffset, SetLength
  <2> QED
    BY <2>1, <2>2, StoringHolds
<1> QED
  BY <1>2, StepFrame

\* A call holds a record once it has allocated or found one.
LEMMA HoldsComes ==
    ASSUME BaseInv, NEW c \in Clients, Step(c), NEW d \in Clients, HoldsRow(d)'
    PROVE  /\ Active(d) /\ Key(d)' = Key(d) /\ Key(d) \in Keys
           /\ \/ HoldsRow(d) /\ proc'[d].off = proc[d].off
              \/ d = c /\ AddRecord(c) /\ proc'[c].off = recBump /\ ~(recBump + Stride > recordEnd(R))
              \/ d = c /\ Search(c) /\ proc'[c].off = index[Key(c)] /\ proc'[c].off # 0
<1>1. CASE d # c
  <2>1. proc'[d] = proc[d]
    BY <1>1, OthersStay
  <2> QED
    BY <2>1 DEF HoldsRow, Active, Key
<1>2. CASE d = c
  <2>1. proc'[c].pc \in Binding \cup Storing /\ proc'[c].call # None /\ proc'[c].call.key \in Keys
    BY <1>2 DEF HoldsRow, Active, Key
  <2>2. CallOK(proc[c])
    BY StepProceeds DEF BaseInv
  <2>3. proc[c].call \in Calls /\ proc[c].call.key \notin InvalidKeys /\ OpAt(proc[c].pc, proc[c].call.op)
    BY <2>2 DEF CallOK
  <2> USE DEF Binding, Storing, Pointing
  <2>4. proc'[c].call = proc[c].call
    BY <2>1, StepMoves DEF Returns, Keeps
  <2>5. Active(c) /\ Key(c)' = Key(c) /\ Key(c) \in Keys
    BY <2>1, <2>4 DEF Active, Key
  <2>6. Op(c) \notin {"add", "save"}
    BY <2>3, <2>5, CallFacts, NamespaceAssumption DEF Op, Key
  <2>7. CASE UniqueScan(c) \/ NotifyPayload(c)
    BY <2>3, <2>6, <2>7 DEF UniqueScan, NotifyPayload, Op, OpAt, Allocating, Saving, SavingPayload, Reading
  <2>8. CASE Keeps(c) /\ (Admit(c) \/ AllocKey(c) \/ PushKey(c) \/ Bind(c))
    <3>1. proc[c].pc \in Binding
      BY <2>8 DEF Admit, AllocKey, PushKey, Bind
    <3> QED
      BY <1>2, <2>5, <2>8, <3>1 DEF HoldsRow, Keeps
  <2>9. CASE Keeps(c) /\ (SetNumber(c) \/ SeedString(c) \/ Copy(c) \/ Notify(c) \/ SetOffset(c) \/ SetLength(c))
    <3>1. proc[c].pc \in Storing
      BY <2>9 DEF SetNumber, SeedString, Filling, Copy, Notify, SetOffset, SetLength
    <3> QED
      BY <1>2, <2>5, <2>9, <3>1 DEF HoldsRow, Keeps
  <2>10. CASE proc'[c].off = proc[c].off /\ (AddString(c) \/ PushField(c))
    <3>1. proc[c].pc \in Storing
      BY <2>10 DEF AddString, PushField
    <3> QED
      BY <1>2, <2>5, <2>10, <3>1 DEF HoldsRow
  <2>11. CASE AddRecord(c) /\ proc'[c].off = recBump /\ ~(recBump + Stride > recordEnd(R))
    BY <1>2, <2>5, <2>11
  <2>12. CASE Search(c) /\ proc'[c].off = index[Key(c)] /\ proc'[c].off # 0
    BY <1>2, <2>5, <2>12
  <2> QED
    BY <2>1, <2>7, <2>8, <2>9, <2>10, <2>11, <2>12, StepMoves DEF Returns
<1> QED
  BY <1>1, <1>2

\* How a step changes what a key is bound to.
LEMMA BindingMoves ==
    ASSUME BaseInv, NEW c \in Clients, Step(c), NEW k \in IndexKeys
    PROVE  \/ index'[k] = index[k]
           \/ remove_index(c) /\ Key(c) = k /\ index'[k] = 0
           \/ Bind(c) /\ Key(c) = k /\ index'[k] = proc[c].off
<1>1. index \in [IndexKeys -> Nat]
  BY DEF BaseInv, TypeOK
<1>2. CASE Bind(c)
  BY <1>1, <1>2 DEF Bind
<1>3. CASE remove_index(c)
  BY <1>1, <1>3 DEF remove_index
<1> QED
  BY <1>2, <1>3, StepFrame

\* A record comes to a key only from the allocator.
LEMMA OwnersCome ==
    ASSUME BaseInv, NEW c \in Clients, Step(c), NEW k \in Keys, NEW o \in Slots, o # 0, Owns(k, o)'
    PROVE  \/ Owns(k, o)
           \/ AddRecord(c) /\ k = Key(c) /\ o = recBump /\ ~(recBump + Stride > recordEnd(R))
<1>1. CASE index'[k] = o
  <2>1. CASE index'[k] = index[k]
    BY <1>1, <2>1 DEF Owns
  <2>2. CASE Bind(c) /\ Key(c) = k /\ index'[k] = proc[c].off
    <3>1. proc[c].pc \in Binding /\ proc[c].pc \notin Outside
      BY <2>2 DEF Bind, Binding, Outside
    <3>2. HoldsRow(c)
      BY <2>2, <3>1, InCall DEF BaseInv, HoldsRow, Active
    <3> QED
      BY <1>1, <2>2, <3>2 DEF Owns
  <2> QED
    BY <1>1, <2>1, <2>2, BindingMoves DEF IndexKeys
<1>2. ASSUME NEW d \in Clients, HoldsRow(d)', Key(d)' = k, proc'[d].off = o
      PROVE  \/ Owns(k, o)
             \/ AddRecord(c) /\ k = Key(c) /\ o = recBump /\ ~(recBump + Stride > recordEnd(R))
  <2>1. Key(d) = k
    BY <1>2, HoldsComes
  <2>2. CASE HoldsRow(d) /\ proc'[d].off = proc[d].off
    BY <1>2, <2>1, <2>2 DEF Owns
  <2>3. CASE d = c /\ AddRecord(c) /\ proc'[c].off = recBump /\ ~(recBump + Stride > recordEnd(R))
    BY <1>2, <2>1, <2>3
  <2>4. CASE d = c /\ Search(c) /\ proc'[c].off = index[Key(c)] /\ proc'[c].off # 0
    BY <1>2, <2>1, <2>4 DEF Owns
  <2> QED
    BY <1>2, <2>2, <2>3, <2>4, HoldsComes
<1> QED
  BY <1>1, <1>2 DEF Owns

\* What allocateRecordOffset hands out is the slot at the bump word.
LEMMA RecordGranted ==
    ASSUME BaseInv, Accepted, Seeded, FreshRecords, NEW c \in Clients, AddRecord(c),
           ~(recBump + Stride > recordEnd(R))
    PROVE  recBump \in Slots /\ recBump' = recBump + 16
<1>1. recBump \in Nat /\ recBump # 0 /\ Word \in Nat \ {0} /\ seg \in Segments
  BY ClientAssumption DEF BaseInv, TypeOK, Seeded, AddRecord
<1>2. recordEnd(R) \in Nat /\ recordEnd(R) < Word
  <2>1. /\ R.recordStart \in Nat /\ R.recordBytes \in Nat /\ R.artRoot \in Nat /\ R.artBytes \in Nat
        /\ R.stringStart \in Nat /\ R.stringBytes \in Nat /\ seg.mapped \in Nat /\ seg.mapped < Word
        /\ recordEnd(R) <= R.artRoot /\ R.artRoot + R.artBytes <= R.stringStart /\ stringEnd(R) <= seg.mapped
    BY <1>1, LayoutFacts
  <2> QED
    BY <1>1, <2>1 DEF recordEnd, stringEnd
<1>3. recBump + 16 <= recordEnd(R)
  BY <1>1, <1>2, StrideValue
<1>4. recBump \in Slots
  BY <1>1, <1>3, StrideValue DEF FreshRecords
<1>5. recBump + 16 \in Nat /\ recBump + 16 < Word
  BY <1>1, <1>2, <1>3
<1>6. (recBump + 16) % Word = recBump + 16
  BY <1>1, <1>5, ModFacts
<1> QED
  BY <1>4, <1>6, StrideValue DEF AddRecord

LEMMA StepOwned ==
    ASSUME BaseInv, Accepted, Seeded, BumpsForward, FreshRecords, OwnedApart, NEW c \in Clients, Step(c)
    PROVE  OwnedApart'
<1>0. seg \in Segments /\ seg' = seg /\ recBump \in Nat /\ recBump' \in Nat
  <2>1. TypeOK'
    BY StepBase DEF BaseInv
  <2> QED
    BY <2>1, StepFrame, ClientAssumption DEF BaseInv, TypeOK
<1>1. Slots' = Slots /\ \A o \in Slots : o \in Nat /\ o # 0
  BY <1>0, SlotFacts DEF Slots, R
<1>2. ASSUME NEW k \in Keys, index'[k] # 0 PROVE index'[k] \in Slots
  <2>1. CASE index'[k] = index[k]
    BY <1>2, <2>1 DEF OwnedApart
  <2>2. CASE Bind(c) /\ Key(c) = k /\ index'[k] = proc[c].off
    <3>1. proc[c].pc \in Binding /\ proc[c].pc \notin Outside
      BY <2>2 DEF Bind, Binding, Outside
    <3>2. HoldsRow(c)
      BY <2>2, <3>1, InCall DEF BaseInv, HoldsRow, Active
    <3> QED
      BY <2>2, <3>2 DEF OwnedApart
  <2> QED
    BY <1>2, <2>1, <2>2, BindingMoves DEF IndexKeys
<1>3. ASSUME NEW d \in Clients, HoldsRow(d)' PROVE proc'[d].off \in Slots
  <2>1. CASE HoldsRow(d) /\ proc'[d].off = proc[d].off
    BY <2>1 DEF OwnedApart
  <2>2. CASE AddRecord(c) /\ proc'[d].off = recBump /\ ~(recBump + Stride > recordEnd(R))
    BY <2>2, RecordGranted
  <2>3. CASE d = c /\ Search(c) /\ proc'[c].off = index[Key(c)] /\ proc'[c].off # 0
    BY <1>3, <2>3, HoldsComes DEF OwnedApart
  <2> QED
    BY <1>3, <2>1, <2>2, <2>3, HoldsComes
<1>4. ASSUME NEW k \in Keys, NEW o \in Slots, Owns(k, o)'
      PROVE  o < recBump' /\ (Owns(k, o) \/ (o = recBump /\ k = Key(c)))
  <2>1. CASE Owns(k, o)
    <3>1. o < recBump /\ o \in Nat
      BY <1>1, <2>1 DEF OwnedApart
    <3>2. o < recBump'
      BY <1>0, <3>1 DEF BumpsForward
    <3> QED
      BY <2>1, <3>2
  <2>2. CASE AddRecord(c) /\ k = Key(c) /\ o = recBump /\ ~(recBump + Stride > recordEnd(R))
    <3>1. recBump' = recBump + 16
      BY <2>2, RecordGranted
    <3> QED
      BY <1>0, <2>2, <3>1
  <2> QED
    BY <1>1, <1>4, <2>1, <2>2, OwnersCome
<1>5. ASSUME NEW k \in Keys, NEW l \in Keys, NEW o \in Slots, Owns(k, o)', Owns(l, o)' PROVE k = l
  <2>1. \A m \in Keys : Owns(m, o) => o < recBump
    BY DEF OwnedApart
  <2>2. Owns(k, o) <=> Owns(l, o)
    BY <1>0, <1>4, <1>5, <2>1
  <2> QED
    BY <1>4, <1>5, <2>2 DEF OwnedApart
<1> QED
  BY <1>1, <1>2, <1>3, <1>4, <1>5 DEF OwnedApart

LEMMA StepFresh ==
    ASSUME BaseInv, Accepted, Seeded, BumpsForward, FreshRecords, OwnedApart, NEW c \in Clients, Step(c)
    PROVE  FreshRecords'
<1>0. seg \in Segments /\ seg' = seg /\ recBump \in Nat /\ recBump' \in Nat
  <2>1. TypeOK'
    BY StepBase DEF BaseInv
  <2> QED
    BY <2>1, StepFrame, ClientAssumption DEF BaseInv, TypeOK
<1>1. Slots' = Slots /\ R' = R /\ recordEnd(R) \in Nat /\ \A o \in Slots : o \in Nat
  <2>1. R.recordStart \in Nat /\ R.recordBytes \in Nat
    BY <1>0, LayoutFacts
  <2> QED
    BY <1>0, <2>1, SlotFacts DEF Slots, R, recordEnd
<1>2. recBump' # 0 /\ recBump' + 16 <= recordEnd(R) => recBump' \in Slots
  <2>1. CASE SeedRecord(c)
    <3>1. recBump' = recBump \/ recBump' = R.recordStart
      BY <2>1 DEF SeedRecord
    <3> QED
      BY <1>0, <3>1, SlotFacts, StrideValue DEF FreshRecords
  <2>2. CASE AddRecord(c) /\ recBump + 16 > recordEnd(R)
    BY <1>0, <1>1, <2>2 DEF BumpsForward
  <2>3. CASE AddRecord(c) /\ ~(recBump + 16 > recordEnd(R))
    <3>1. recBump \in Slots /\ recBump' = recBump + 16
      BY <2>3, RecordGranted, StrideValue
    <3>2. recBump' + 16 <= recordEnd(R) => recBump + 32 <= recordEnd(R)
      BY <1>0, <1>1, <3>1
    <3> QED
      BY <1>0, <3>1, <3>2, SlotFacts
  <2> QED
    BY <2>1, <2>2, <2>3, StepFrame, StrideValue DEF FreshRecords
<1>3. ASSUME NEW o \in Slots, recBump' <= o PROVE rec'[o] = ZeroRow
  <2>1. recBump <= o
    BY <1>0, <1>1, <1>3 DEF BumpsForward
  <2>2. ASSUME HoldsRow(c) PROVE proc[c].off # o
    <3>1. Key(c) \in Keys /\ Owns(Key(c), proc[c].off) /\ proc[c].off \in Slots
      BY <2>2 DEF HoldsRow, Owns, OwnedApart
    <3>2. proc[c].off < recBump
      BY <3>1 DEF OwnedApart
    <3> QED
      BY <1>0, <1>1, <2>1, <3>1, <3>2
  <2> QED
    BY <2>1, <2>2, StepWrites DEF FreshRecords
<1> QED
  BY <1>1, <1>2, <1>3, StrideValue DEF FreshRecords, ZeroRow

-----------------------------------------------------------------------------
(* The string region. *)

\* Writing where nothing is written adds a span and destroys none.
LEMMA WrittenAdds ==
    ASSUME NEW lo \in Nat, NEW n \in Nat \ {0}, NEW v,
           \A t \in heap : t.lo \in Nat /\ t.hi \in Nat /\ t.lo < t.hi /\ (t.hi <= lo \/ lo + n <= t.lo)
    PROVE  Written(lo, n, v) = heap \cup {[lo |-> lo, hi |-> lo + n, val |-> v]}
<1> DEFINE s == [lo |-> lo, hi |-> lo + n, val |-> v]
<1>1. \A t \in heap : ~Overlap(s, t)
  BY DEF Overlap
<1> QED
  BY <1>1 DEF Written

\* The span a step is about to add, if it adds one: fresh bytes of
\* allocString, or what its client allocated before.
Adds(c, s) ==
    /\ heap' = heap \cup {s}
    /\ s.lo \in Nat /\ s.hi \in Nat /\ s.lo < s.hi /\ s.hi <= seg.mapped
    /\ \/ AllocKey(c) /\ strBump <= s.lo /\ s.hi <= strBump'
       \/ Copying(c) /\ s.lo = proc[c].at /\ s.hi = proc[c].at + proc[c].len

LEMMA StringLayout ==
    ASSUME BaseInv, Accepted
    PROVE  /\ seg \in Segments /\ strBump \in Nat /\ Word \in Nat \ {0}
           /\ stringDataStart(R) \in Nat /\ stringEnd(R) \in Nat /\ seg.mapped \in Nat
           /\ stringEnd(R) <= seg.mapped /\ seg.mapped < Word
<1>1. seg \in Segments /\ strBump \in Nat /\ Word \in Nat \ {0}
  BY ClientAssumption DEF BaseInv, TypeOK
<1>2. R.stringStart \in Nat /\ R.stringBytes \in Nat /\ seg.mapped \in Nat /\ stringEnd(R) <= seg.mapped /\ seg.mapped < Word
  BY <1>1, LayoutFacts
<1> QED
  BY <1>1, <1>2 DEF stringDataStart, stringEnd

LEMMA StepHeap ==
    ASSUME BaseInv, Accepted, LogInv, BytesApart, NEW c \in Clients, Step(c)
    PROVE  heap' = heap \/ \E s : Adds(c, s)
<1>0. /\ strBump \in Nat /\ stringDataStart(R) \in Nat /\ stringEnd(R) \in Nat /\ seg.mapped \in Nat
      /\ stringEnd(R) <= seg.mapped
  BY StringLayout
<1>1. \A t \in heap : t.lo \in Nat /\ t.hi \in Nat /\ t.lo < t.hi /\ t.hi <= strBump
  BY DEF BytesApart, InBytes
<1>2. CASE AllocKey(c)
  <2> DEFINE at == IF strBump = 0 THEN stringDataStart(R) ELSE strBump
             n  == alignUp(KeyLen, Unit)
             s  == [lo |-> at, hi |-> at + KeyLen, val |-> Key(c)]
  <2>1. KeyLen \in Nat \ {0} /\ n \in Nat /\ KeyLen <= n
    BY AlignFacts, ClientAssumption
  <2>2. at \in Nat /\ strBump <= at
    BY <1>0
  <2>3. \/ heap' = heap
        \/ ~(at + n > stringEnd(R)) /\ strBump' = at + n /\ heap' = Written(at, KeyLen, Key(c))
    BY <1>2, Zenon DEF AllocKey
  <2> HIDE DEF at, n
  <2>4. ASSUME ~(at + n > stringEnd(R)), strBump' = at + n, heap' = Written(at, KeyLen, Key(c))
        PROVE  Adds(c, s)
    <3>1. \A t \in heap : t.lo \in Nat /\ t.hi \in Nat /\ t.lo < t.hi /\ (t.hi <= at \/ at + KeyLen <= t.lo)
      BY <1>0, <1>1, <2>2
    <3>2. heap' = heap \cup {s}
      BY <2>1, <2>2, <2>4, <3>1, WrittenAdds
    <3>3. s.lo = at /\ s.hi = at + KeyLen
      OBVIOUS
    <3> HIDE DEF s
    <3> QED
      BY <1>0, <1>2, <2>1, <2>2, <2>4, <3>2, <3>3 DEF Adds
  <2> QED
    BY <2>3, <2>4
<1>3. ASSUME NEW v, Copying(c), proc[c].len # 0, heap' = Written(proc[c].at, proc[c].len, v)
      PROVE  Adds(c, [lo |-> proc[c].at, hi |-> proc[c].at + proc[c].len, val |-> v])
  <2> DEFINE at == proc[c].at
             n  == proc[c].len
             s  == [lo |-> at, hi |-> at + n, val |-> v]
  <2>1. /\ InBytes(at, at + n)
        /\ \A t \in heap : t.hi <= at \/ at + n <= t.lo
    BY <1>3 DEF BytesApart
  <2>2. CallOK(proc[c]) /\ proc[c].pc \in Pointing \cup SavingPayload
    BY <1>3, StepProceeds DEF BaseInv, Copying, Pointing, SavingPayload
  <2>3. at \in Nat /\ n \in Nat \ {0}
    BY <1>3, <2>2 DEF CallOK
  <2> HIDE DEF at, n
  <2>4. heap' = heap \cup {s}
    BY <1>1, <1>3, <2>1, <2>3, WrittenAdds DEF at, n
  <2>5. s.lo = at /\ s.hi = at + n
    OBVIOUS
  <2> HIDE DEF s
  <2>6. Adds(c, s)
    BY <1>3, <2>1, <2>3, <2>4, <2>5 DEF Adds, InBytes, at, n
  <2> QED
    BY <2>6 DEF s, at, n
<1>4. CASE Copy(c)
  <2>1. /\ Copying(c)
        /\ heap' = heap \/ (proc[c].len # 0 /\ heap' = Written(proc[c].at, proc[c].len, Field(c).value))
    BY <1>4 DEF Copy, Copying
  <2> QED
    BY <1>3, <2>1, Zenon
<1>5. CASE CopyPayload(c)
  <2>1. proc[c].len # 0
    BY <1>5 DEF CopyPayload, LogInv, ReferencesAnnounced, SavingPayload, PayloadLengths
  <2>2. /\ Copying(c)
        /\ heap' = Written(proc[c].at, proc[c].len,
                           [payload |-> encodeCatalogRecord(NameOf[Key(c)], Field(c).value)])
    BY <1>5 DEF CopyPayload, Copying
  <2> QED
    BY <1>3, <2>1, <2>2, Zenon
<1> QED
  BY <1>2, <1>4, <1>5, StepStores

\* Bytes are allocated before they are copied.
LEMMA CopyingComes ==
    ASSUME BaseInv, Accepted, NEW c \in Clients, Step(c), Copying(c)'
    PROVE  /\ ~Copying(c) /\ ~AllocKey(c) /\ heap' = heap
           /\ proc'[c].at = strBump /\ proc'[c].len \in Nat
           /\ strBump' = strBump + proc'[c].len /\ strBump' <= seg.mapped
<1>0. /\ strBump \in Nat /\ Word \in Nat \ {0} /\ stringEnd(R) \in Nat /\ seg.mapped \in Nat
      /\ stringEnd(R) <= seg.mapped /\ seg.mapped < Word
  BY StringLayout
<1>1. CallOK(proc[c])
  BY StepProceeds DEF BaseInv
<1>2. ASSUME NEW n \in Nat, strBump + n <= seg.mapped, strBump' = (strBump + n) % Word
      PROVE  strBump' = strBump + n
  <2>1. strBump + n \in Nat /\ strBump + n < Word
    BY <1>0, <1>2
  <2> QED
    BY <1>0, <1>2, <2>1, ModFacts
<1>3. CASE AddString(c) /\ proc'[c].at = strBump /\ proc'[c].len = ByteLength[Field(c).value]
           /\ ~(strBump + ByteLength[Field(c).value] > stringEnd(R))
  <2> DEFINE n == ByteLength[Field(c).value]
  <2>1. n \in Nat
    BY <1>1, <1>3, ClientAssumption DEF AddString, CallOK, Field
  <2>2. strBump' = (strBump + n) % Word /\ heap' = heap /\ proc[c].pc = "addString"
    BY <1>3 DEF AddString
  <2>3. ~(strBump + n > stringEnd(R)) /\ proc'[c].at = strBump /\ proc'[c].len = n
    BY <1>3
  <2> HIDE DEF n
  <2>4. strBump + n <= seg.mapped
    BY <1>0, <2>1, <2>3
  <2> QED
    BY <1>0, <1>2, <2>1, <2>2, <2>3, <2>4 DEF Copying, AllocKey
<1>4. CASE AddPayload(c) /\ proc'[c].at = strBump /\ proc'[c].len = catalogEncodedLen(Len(Field(c).value))
           /\ ~(strBump + catalogEncodedLen(Len(Field(c).value)) > seg.mapped)
  <2> DEFINE n == catalogEncodedLen(Len(Field(c).value))
  <2>1. n \in Nat
    BY <1>1, <1>4, PayloadLength
       DEF AddPayload, CallOK, OpAt, Allocating, Binding, Storing, Saving, Reading, Pointing, SavingPayload, Field
  <2>2. strBump' = (strBump + n) % Word /\ heap' = heap /\ proc[c].pc = "addPayload"
    BY <1>4 DEF AddPayload
  <2>3. ~(strBump + n > seg.mapped) /\ proc'[c].at = strBump /\ proc'[c].len = n
    BY <1>4
  <2> HIDE DEF n
  <2>4. strBump + n <= seg.mapped
    BY <1>0, <2>1, <2>3
  <2> QED
    BY <1>0, <1>2, <2>1, <2>2, <2>3, <2>4 DEF Copying, AllocKey
<1> QED
  BY <1>3, <1>4, StepMoves DEF Copying, Returns

LEMMA StepBytes ==
    ASSUME BaseInv, Accepted, LogInv, BytesApart, BumpsForward, NEW c \in Clients, Step(c)
    PROVE  BytesApart'
<1>0. /\ strBump \in Nat /\ strBump' \in Nat /\ strBump <= strBump' /\ seg' = seg /\ seg.mapped \in Nat
  <2>1. TypeOK'
    BY StepBase DEF BaseInv
  <2> QED
    BY <2>1, StepFrame, StringLayout DEF TypeOK, BumpsForward
<1>1. /\ \A t \in heap : t.lo \in Nat /\ t.hi \in Nat /\ t.lo < t.hi /\ t.hi <= strBump /\ t.hi <= seg.mapped
      /\ \A t, u \in heap : t # u => t.hi <= u.lo \/ u.hi <= t.lo
  BY DEF BytesApart, InBytes
<1> DEFINE lo(d) == proc[d].at
           hi(d) == proc[d].at + proc[d].len
<1>2. ASSUME NEW d \in Clients, Copying(d)
      PROVE  /\ lo(d) \in Nat /\ hi(d) \in Nat /\ lo(d) <= hi(d) /\ hi(d) <= strBump /\ hi(d) <= seg.mapped
             /\ \A t \in heap : t.hi <= lo(d) \/ hi(d) <= t.lo
             /\ \A e \in Clients \ {d} : Copying(e) => hi(d) <= lo(e) \/ hi(e) <= lo(d)
  BY <1>2 DEF BytesApart, InBytes
<1>3. \A d \in Clients : d # c => proc'[d] = proc[d] /\ (Copying(d)' <=> Copying(d))
  BY OthersStay DEF Copying
<1>4. /\ \A t \in heap' : t.lo \in Nat /\ t.hi \in Nat /\ t.lo < t.hi /\ t.hi <= strBump' /\ t.hi <= seg.mapped
      /\ \A t, u \in heap' : t # u => t.hi <= u.lo \/ u.hi <= t.lo
      /\ \A d \in Clients : d # c /\ Copying(d) => \A t \in heap' : t.hi <= lo(d) \/ hi(d) <= t.lo
  <2>1. CASE heap' = heap
    BY <1>0, <1>1, <1>2, <2>1
  <2>2. ASSUME NEW s, Adds(c, s)
        PROVE  /\ s.lo \in Nat /\ s.hi \in Nat /\ s.lo < s.hi /\ s.hi <= strBump' /\ s.hi <= seg.mapped
               /\ \A t \in heap : t.hi <= s.lo \/ s.hi <= t.lo
               /\ \A d \in Clients : d # c /\ Copying(d) => s.hi <= lo(d) \/ hi(d) <= s.lo
    <3>1. s.lo \in Nat /\ s.hi \in Nat /\ s.lo < s.hi /\ s.hi <= seg.mapped
      BY <2>2 DEF Adds
    <3>2. CASE strBump <= s.lo /\ s.hi <= strBump'
      <4>1. \A t \in heap : t.hi <= s.lo
        BY <1>0, <1>1, <3>1, <3>2
      <4>2. \A d \in Clients : d # c /\ Copying(d) => hi(d) <= s.lo
        BY <1>0, <1>2, <3>1, <3>2
      <4> QED
        BY <3>1, <3>2, <4>1, <4>2
    <3>3. CASE Copying(c) /\ s.lo = lo(c) /\ s.hi = hi(c)
      <4>1. s.hi <= strBump /\ \A t \in heap : t.hi <= s.lo \/ s.hi <= t.lo
        BY <1>2, <3>3
      <4>2. s.hi <= strBump'
        BY <1>0, <3>1, <4>1
      <4>3. \A d \in Clients : d # c /\ Copying(d) => s.hi <= lo(d) \/ hi(d) <= s.lo
        BY <1>2, <3>3
      <4> QED
        BY <3>1, <4>1, <4>2, <4>3
    <3> QED
      BY <2>2, <3>2, <3>3 DEF Adds
  <2>3. ASSUME NEW s, Adds(c, s)
        PROVE  /\ \A t \in heap' : t.lo \in Nat /\ t.hi \in Nat /\ t.lo < t.hi /\ t.hi <= strBump' /\ t.hi <= seg.mapped
               /\ \A t, u \in heap' : t # u => t.hi <= u.lo \/ u.hi <= t.lo
               /\ \A d \in Clients : d # c /\ Copying(d) => \A t \in heap' : t.hi <= lo(d) \/ hi(d) <= t.lo
    <3>1. heap' = heap \cup {s}
      BY <2>3 DEF Adds
    <3> HIDE DEF lo, hi
    <3>2. \A t \in heap : t.hi <= strBump'
      BY <1>0, <1>1
    <3>3. \A t \in heap : t.hi <= s.lo \/ s.hi <= t.lo
      BY <2>2, <2>3
    <3>4. \A d \in Clients : d # c /\ Copying(d) => s.hi <= lo(d) \/ hi(d) <= s.lo
      BY <2>2, <2>3
    <3> QED
      BY <1>1, <1>2, <2>2, <2>3, <3>1, <3>2, <3>3, <3>4
  <2> QED
    BY <2>1, <2>3, StepHeap
<1>5. ASSUME Copying(c)'
      PROVE  /\ InBytes(proc[c].at, proc[c].at + proc[c].len)'
             /\ \A t \in heap' : t.hi <= proc'[c].at
             /\ \A d \in Clients : d # c /\ Copying(d) => hi(d) <= proc'[c].at
  <2>1. /\ heap' = heap /\ proc'[c].at = strBump /\ proc'[c].len \in Nat
        /\ strBump' = strBump + proc'[c].len /\ strBump' <= seg.mapped
    BY <1>5, CopyingComes
  <2>2. InBytes(proc[c].at, proc[c].at + proc[c].len)'
    BY <1>0, <2>1 DEF InBytes
  <2> QED
    BY <1>1, <1>2, <2>1, <2>2
<1>6. ASSUME NEW d \in Clients, Copying(d)'
      PROVE  /\ InBytes(proc[d].at, proc[d].at + proc[d].len)'
             /\ \A t \in heap' : t.hi <= proc'[d].at \/ proc'[d].at + proc'[d].len <= t.lo
             /\ \A e \in Clients \ {d} : Copying(e)' =>
                   \/ proc'[d].at + proc'[d].len <= proc'[e].at
                   \/ proc'[e].at + proc'[e].len <= proc'[d].at
  <2>1. CASE d = c
    BY <1>3, <1>5, <1>6, <2>1
  <2>2. CASE d # c
    <3>1. proc'[d] = proc[d] /\ Copying(d)
      BY <1>3, <1>6, <2>2
    <3>2. InBytes(proc[d].at, proc[d].at + proc[d].len)'
      BY <1>0, <1>2, <3>1 DEF InBytes
    <3>3. \A t \in heap' : t.hi <= proc'[d].at \/ proc'[d].at + proc'[d].len <= t.lo
      BY <1>4, <2>2, <3>1
    <3>4. ASSUME NEW e \in Clients \ {d}, Copying(e)'
          PROVE  \/ proc'[d].at + proc'[d].len <= proc'[e].at
                 \/ proc'[e].at + proc'[e].len <= proc'[d].at
      <4>1. CASE e = c
        BY <1>5, <2>2, <3>1, <3>4, <4>1
      <4>2. CASE e # c
        BY <1>2, <1>3, <3>1, <3>4, <4>2
      <4> QED
        BY <4>1, <4>2
    <3> QED
      BY <3>2, <3>3, <3>4
  <2> QED
    BY <2>1, <2>2
<1>7. \A t \in heap' : InBytes(t.lo, t.hi)' /\ t.lo < t.hi
  BY <1>0, <1>4 DEF InBytes
<1> QED
  BY <1>4, <1>6, <1>7 DEF BytesApart

\* A string is stored only once its bytes are there.
LEMMA StepCopied ==
    ASSUME BaseInv, Accepted, LogInv, BytesApart, BytesCopied, NEW c \in Clients, Step(c)
    PROVE  heap \subseteq heap' /\ BytesCopied'
<1> DEFINE Copied(p) == (p.pc = "notify" /\ p.len > 0) \/ p.pc \in {"setOffset", "setLength"}
           span(p) == [lo |-> p.at, hi |-> p.at + p.len, val |-> p.todo[1].value]
<1>1. heap \subseteq heap'
  BY StepHeap DEF Adds
<1>2. \A d \in Clients : Copied(proc[d]) => span(proc[d]) \in heap
  BY DEF BytesCopied, Field
<1>3. Copied(proc'[c]) => span(proc'[c]) \in heap'
  <2>1. CASE Copy(c) /\ Keeps(c) /\ proc'[c].pc = "notify"
    <3>1. proc[c].len # 0 => heap' = Written(proc[c].at, proc[c].len, Field(c).value)
      BY <2>1 DEF Copy
    <3>2. proc[c].len # 0 => span(proc[c]) \in heap'
      BY <3>1 DEF Written, Field
    <3>3. span(proc'[c]) = span(proc[c]) /\ proc'[c].len = proc[c].len
      BY <2>1 DEF Keeps
    <3> QED
      BY <2>1, <3>2, <3>3
  <2>2. CASE Notify(c) /\ Keeps(c) /\ proc'[c].pc = "setOffset" /\ proc[c].len # 0
    <3>1. CallOK(proc[c]) /\ proc[c].pc = "notify"
      BY <2>2, StepProceeds DEF BaseInv, Notify
    <3>2. proc[c].len > 0
      BY <2>2, <3>1 DEF CallOK, Pointing
    <3>3. span(proc'[c]) = span(proc[c])
      BY <2>2 DEF Keeps
    <3> QED
      BY <1>1, <1>2, <3>1, <3>2, <3>3
  <2>3. CASE SetOffset(c) /\ Keeps(c) /\ proc'[c].pc = "setLength"
    <3>1. span(proc'[c]) = span(proc[c]) /\ proc[c].pc = "setOffset"
      BY <2>3 DEF Keeps, SetOffset
    <3> QED
      BY <1>1, <1>2, <3>1
  <2>4. CASE proc'[c].pc \notin {"notify", "setOffset", "setLength"}
    BY <2>4
  <2> QED
    BY <2>1, <2>2, <2>3, <2>4, StepMoves DEF Returns
<1>4. \A d \in Clients : d # c => proc'[d] = proc[d]
  BY OthersStay
<1> QED
  BY <1>1, <1>2, <1>3, <1>4 DEF BytesCopied, Field

-----------------------------------------------------------------------------
(* Rows. *)

\* Of two calls on a key that was not raced, neither writes.
LEMMA Alone ==
    ASSUME BaseInv, RacesNoted, NEW c \in Clients, NEW d \in Clients, c # d, Active(c), Active(d),
           Key(c) = Key(d), Key(c) \in Keys, Key(c) \notin raced
    PROVE  ~IsWrite(Op(c)) /\ ~IsWrite(Op(d))
<1>1. ASSUME NEW e \in Clients, Active(e), Key(e) \in Keys PROVE Subject(proc[e].call) = Key(e)
  <2>1. proc[e].call \in Calls /\ proc[e].call.key \notin InvalidKeys
    BY <1>1 DEF BaseInv, ProcTyped, CallOK, Active
  <2>2. proc[e].call.op \notin {"add", "remove"}
    BY <1>1, <2>1, CallFacts, NamespaceAssumption DEF Key
  <2> QED
    BY <2>2 DEF Subject, Key
<1> QED
  BY <1>1 DEF RacesNoted

\* What is stored under a key changes only in a writing call on that key.
LEMMA OnlyOwnCalls ==
    ASSUME BaseInv, OwnedApart, DOMAIN last = IndexKeys, NEW c \in Clients, Step(c), NEW k \in Keys,
           ~(Active(c) /\ Key(c) = k /\ IsWrite(Op(c)))
    PROVE  /\ index'[k] = index[k] /\ last'[k] = last[k]
           /\ \A o \in Slots : Owns(k, o) => rec'[o] = rec[o]
<1>0. CallOK(proc[c]) /\ proc[c].pc \notin Outside /\ ProcTyped
  BY StepProceeds DEF BaseInv, CallOK, OpAt, Allocating, Binding, Storing, Saving, Reading, Pointing, SavingPayload, Outside
<1>1. Active(c)
  BY <1>0, InCall DEF Active
<1>2. ASSUME Op(c) \in {"find", "load"}
      PROVE  proc[c].pc \notin Binding \cup Storing \cup {"remove"}
  BY <1>0, <1>2 DEF CallOK, OpAt, Allocating, Binding, Storing, Saving, Reading, Pointing, SavingPayload, Op
<1>3. proc[c].pc \in Binding \cup Storing \cup {"remove"} => Key(c) # k
  BY <1>1, <1>2 DEF IsWrite
<1>4. index'[k] = index[k]
  BY <1>3, BindingMoves DEF IndexKeys, Bind, remove_index, Binding
<1>5. last'[k] = last[k]
  <2>1. CASE Bind(c) \/ SetNumber(c) \/ SetLength(c)
    <3>1. Key(c) # k
      BY <1>3, <2>1 DEF Bind, SetNumber, Filling, SetLength, Binding, Storing, Pointing
    <3>2. k \in DOMAIN last
      BY DEF IndexKeys
    <3> QED
      BY <2>1, <3>1, <3>2 DEF Bind, SetNumber, SetLength
  <2> QED
    BY <2>1, StepStores
<1>6. ASSUME NEW o \in Slots, Owns(k, o) PROVE rec'[o] = rec[o]
  <2>1. ASSUME HoldsRow(c), proc[c].pc \in Storing PROVE proc[c].off # o
    <3>1. Key(c) \in Keys /\ Key(c) # k /\ Owns(Key(c), proc[c].off)
      BY <1>3, <2>1 DEF HoldsRow, Owns
    <3> QED
      BY <1>6, <3>1 DEF OwnedApart
  <2> QED
    BY <2>1, StepWrites
<1> QED
  BY <1>4, <1>5, <1>6

\* A call on one key does not touch what another client has in hand.
LEMMA OthersInHand ==
    ASSUME BaseInv, Accepted, RacesNoted, RowInv, DOMAIN last = IndexKeys, NEW c \in Clients, Step(c),
           NEW d \in Clients, d # c, Active(d), Key(d) \in Keys \ raced
    PROVE  RowInHand(d)'
<1>1. proc'[d] = proc[d] /\ Key(d)' = Key(d)
  BY OthersStay DEF Key
<1>2. RowInHand(d)
  BY DEF RowInv, RowsInHand
<1>3. proc[d].pc \notin Outside
  BY DEF BaseInv, ProcTyped, CallOK, OpAt, Active,
         Allocating, Binding, Storing, Saving, Reading, Pointing, SavingPayload, Outside
<1>4. ~(Active(c) /\ Key(c) = Key(d) /\ IsWrite(Op(c)))
  BY Alone
<1>5. /\ index'[Key(d)] = index[Key(d)]
      /\ \A o \in Slots : Owns(Key(d), o) => rec'[o] = rec[o]
  BY <1>4, OnlyOwnCalls DEF RowInv
<1>6. proc[d].pc \in Binding => rec'[proc[d].off] = rec[proc[d].off]
  <2>1. proc[d].pc \in Binding => HoldsRow(d)
    BY DEF HoldsRow
  <2>2. HoldsRow(d) => Owns(Key(d), proc[d].off) /\ proc[d].off \in Slots
    BY DEF HoldsRow, Owns, RowInv, OwnedApart
  <2> QED
    BY <1>5, <2>1, <2>2
<1>7. proc[d].pc \in Storing \cup Reading => rec'[proc[d].off] = rec[proc[d].off]
  <2>1. ASSUME proc[d].pc \in Storing \cup Reading PROVE Owns(Key(d), proc[d].off) /\ proc[d].off \in Slots
    <3>1. index[Key(d)] = proc[d].off /\ proc[d].off # 0
      BY <1>2, <2>1 DEF RowInHand
    <3> QED
      BY <3>1 DEF Owns, RowInv, OwnedApart
  <2> QED
    BY <1>5, <2>1
<1>8. {"setLength", "loadLength", "decode"} \subseteq Storing \cup Reading
  BY DEF Storing, Pointing, Reading
<1> QED
  BY <1>1, <1>2, <1>5, <1>6, <1>7, <1>8 DEF RowInHand, ZeroRow

\* A call learns what it knows of its row by allocating, finding or storing.
LEMMA OwnInHand ==
    ASSUME BaseInv, Accepted, Seeded, RowInv, NEW c \in Clients, Step(c),
           Active(c)', Key(c)' \in Keys \ raced
    PROVE  RowInHand(c)'
<1>0. /\ CallOK(proc[c]) /\ ProcTyped /\ proc[c].pc \notin Outside
      /\ rec \in [Slots -> Rows] /\ index \in [IndexKeys -> Nat] /\ seg \in Segments
  BY StepProceeds
     DEF BaseInv, TypeOK, CallOK, OpAt, Allocating, Binding, Storing, Saving, Reading, Pointing, SavingPayload, Outside
<1>1. Active(c)
  BY <1>0, InCall DEF Active
<1> DEFINE Other == Binding \cup Storing \cup Reading
<1>2. CASE proc'[c].pc \notin Other
  BY <1>2 DEF RowInHand, Storing, Pointing, Reading
<1>3. CASE proc'[c].pc \in Other
  <2>1. proc'[c].call = proc[c].call
    BY <1>3, StepMoves DEF Returns, Keeps, Binding, Storing, Pointing, Reading
  <2>2. Key(c)' = Key(c) /\ Key(c) \in Keys \ raced /\ Key(c) \in IndexKeys
    BY <2>1 DEF Key, IndexKeys
  <2>3. Op(c) \notin {"add", "save", "load"}
    <3>1. proc[c].call \in Calls /\ proc[c].call.key \notin InvalidKeys
      BY <1>0 DEF CallOK
    <3> QED
      BY <2>2, <3>1, CallFacts, NamespaceAssumption DEF Op, Key
  <2>4. RowInHand(c)
    BY <1>1, <2>2 DEF RowInv, RowsInHand
  <2>5. CASE proc'[c].pc \in Binding
    <3>1. CASE Keeps(c) /\ (Admit(c) \/ AllocKey(c) \/ PushKey(c))
      <4>1. proc[c].pc \in Binding /\ rec' = rec /\ proc'[c].off = proc[c].off
        BY <3>1 DEF Admit, AllocKey, PushKey, Binding, mem, Keeps
      <4> QED
        BY <2>4, <2>5, <4>1 DEF RowInHand, Binding, Storing, Pointing, Reading, ZeroRow
    <3>2. CASE AddRecord(c) /\ proc'[c].off = recBump /\ ~(recBump + Stride > recordEnd(R))
      <4>1. rec' = rec /\ recBump \in Slots /\ recBump <= recBump
        <5>1. recBump \in Slots
          BY <3>2, RecordGranted DEF RowInv
        <5>2. recBump \in Nat
          BY ClientAssumption DEF BaseInv, TypeOK
        <5> QED
          BY <3>2, <5>1, <5>2 DEF AddRecord
      <4>2. rec'[proc'[c].off] = ZeroRow
        BY <3>2, <4>1 DEF RowInv, FreshRecords
      <4> QED
        BY <2>5, <4>2 DEF RowInHand, Binding, Storing, Pointing, Reading, ZeroRow
    <3>3. CASE UniqueScan(c) \/ NotifyPayload(c)
      BY <1>0, <2>3, <3>3
         DEF CallOK, OpAt, Op, UniqueScan, NotifyPayload, Allocating, Binding, Storing, Saving, Reading, Pointing, SavingPayload
    <3> QED
      BY <2>5, <3>1, <3>2, <3>3, StepMoves DEF Returns, Binding
  <2>6. CASE proc'[c].pc \in {"fill", "addString", "copy", "notify", "setOffset", "pushField"}
    <3>1. CASE Bind(c) /\ Keeps(c)
      <4>1. HoldsRow(c)
        BY <1>1, <2>2, <3>1 DEF HoldsRow, Bind, Binding
      <4>2. proc[c].off # 0
        BY <1>0, <4>1, SlotFacts DEF RowInv, OwnedApart
      <4>3. index' = [index EXCEPT ![Key(c)] = proc[c].off]
        <5>1. ASSUME Finish(c, "Error", None) PROVE FALSE
          BY <1>0, <2>6, <5>1, FinishReturns DEF Returns
        <5> QED
          BY <3>1, <5>1 DEF Bind
      <4> QED
        BY <1>0, <2>2, <2>6, <3>1, <4>2, <4>3 DEF RowInHand, Keeps, Binding, Storing, Pointing, Reading
    <3>2. CASE /\ proc'[c].off = proc[c].off
               /\ \/ SetNumber(c) \/ SeedString(c) \/ Copy(c) \/ Notify(c) \/ SetLength(c)
                  \/ AddString(c) \/ PushField(c)
      <4>1. proc[c].pc \in Storing /\ index' = index
        BY <3>2 DEF SetNumber, SeedString, Filling, Copy, Notify, SetLength, AddString, PushField, Storing, Pointing, mem
      <4> QED
        BY <2>2, <2>4, <2>6, <3>2, <4>1 DEF RowInHand, Binding, Storing, Pointing, Reading
    <3>3. CASE Search(c) /\ proc'[c].off = index[Key(c)] /\ proc'[c].off # 0
      <4>1. index' = index
        BY <3>3 DEF Search, mem
      <4> QED
        BY <2>2, <2>6, <3>3, <4>1 DEF RowInHand, Binding, Storing, Pointing, Reading
    <3> QED
      BY <2>6, <3>1, <3>2, <3>3, StepMoves DEF Returns, Keeps
  <2>7. CASE proc'[c].pc = "setLength"
    <3>1. SetOffset(c) /\ Keeps(c)
      BY <2>7, StepMoves DEF Returns
    <3>2. proc[c].pc \in Storing /\ index' = index /\ HoldsRow(c)
      BY <3>1, StoringHolds DEF SetOffset, Storing, Pointing
    <3>3. proc[c].off \in Slots
      BY <3>2 DEF RowInv, OwnedApart
    <3>4. rec'[proc[c].off].at = proc[c].at
      BY <1>0, <3>1, <3>3 DEF SetOffset, Rows
    <3> QED
      BY <2>2, <2>4, <2>7, <3>1, <3>2, <3>4 DEF RowInHand, Keeps, Binding, Storing, Pointing, Reading
  <2>8. CASE proc'[c].pc \in Reading
    <3>1. CASE Search(c) /\ proc'[c].pc = "loadOffset" /\ proc'[c].off = index[Key(c)] /\ proc'[c].off # 0
      <4>1. index' = index
        BY <3>1 DEF Search, mem
      <4> QED
        BY <2>2, <2>8, <3>1, <4>1 DEF RowInHand, Binding, Storing, Pointing, Reading
    <3>2. CASE LoadOffset(c) /\ proc'[c].pc = "loadLength" /\ proc'[c].off = proc[c].off
               /\ proc'[c].at = rec[proc[c].off].at
      <4>1. index' = index /\ rec' = rec /\ proc[c].pc = "loadOffset"
        BY <3>2 DEF LoadOffset, mem
      <4> QED
        BY <2>2, <2>4, <2>8, <3>2, <4>1 DEF RowInHand, Binding, Storing, Pointing, Reading
    <3>3. CASE LoadLength(c) /\ proc'[c].pc = "decode" /\ proc'[c].off = proc[c].off
               /\ proc'[c].at = proc[c].at /\ proc'[c].len = rec[proc[c].off].len
      <4>1. index' = index /\ rec' = rec /\ proc[c].pc = "loadLength"
        BY <3>3 DEF LoadLength, mem
      <4> QED
        BY <2>2, <2>4, <2>8, <3>3, <4>1 DEF RowInHand, Binding, Storing, Pointing, Reading
    <3> QED
      BY <2>8, <3>1, <3>2, <3>3, StepMoves DEF Returns, Reading
  <2> QED
    BY <1>3, <2>5, <2>6, <2>7, <2>8 DEF Storing, Pointing
<1> QED
  BY <1>2, <1>3

LEMMA LastStays ==
    ASSUME LastTyped, NEW c \in Clients, Step(c)
    PROVE  LastTyped'
<1>1. ASSUME NEW k \in IndexKeys, NEW f \in {"num", "str"}, NEW v,
             last' = [last EXCEPT ![k] = [@ EXCEPT ![f] = v]]
      PROVE  LastTyped'
  BY <1>1 DEF LastTyped
<1>2. CASE Bind(c)
  BY <1>2 DEF Bind, LastTyped, NewRow
<1>3. CASE SetNumber(c)
  BY <1>3 DEF SetNumber, LastTyped
<1>4. CASE SetLength(c)
  BY <1>4 DEF SetLength, LastTyped
<1> QED
  BY <1>2, <1>3, <1>4, StepStores DEF LastTyped

\* What the writing call on k does to the row of k.
LEMMA OwnAgrees ==
    ASSUME BaseInv, Accepted, RacesNoted, RowInv, heap \subseteq heap', NEW c \in Clients, Step(c),
           NEW k \in Keys, k \notin raced, Active(c), IsWrite(Op(c)), Key(c) = k, index'[k] # 0
    PROVE  RowAgrees(k)'
<1> DEFINE o == index[k]
<1>0. /\ CallOK(proc[c]) /\ k \in IndexKeys
      /\ rec \in [Slots -> Rows] /\ index \in [IndexKeys -> Nat]
      /\ DOMAIN last = IndexKeys /\ DOMAIN last[k] = {"num", "str"}
  BY StepProceeds DEF BaseInv, TypeOK, IndexKeys, RowInv, LastTyped
<1>1. RowInHand(c)
  BY DEF RowInv, RowsInHand
<1>2. \A d \in Clients : Active(d) /\ Key(d) = k => d = c
  BY <1>0, Alone
<1>3. proc[c].pc # "setLength" => ~HalfStored(k)
  BY <1>2 DEF HalfStored
<1>4. o # 0 => RowAgrees(k)
  BY <1>0 DEF RowInv, RowsAgree
<1>5. \A at, n, v : Stored(at, n, v) => Stored(at, n, v)'
  BY DEF Stored
<1>6. proc'[c].call = proc[c].call => Key(c)' = k /\ Active(c)'
  BY DEF Key, Active
<1>7. ASSUME proc[c].pc # "setLength", index'[k] = o, last'[k] = last[k], rec' = rec PROVE RowAgrees(k)'
  <2>1. RowAgrees(k) /\ ~HalfStored(k)
    BY <1>3, <1>4, <1>7
  <2> QED
    BY <1>5, <1>7, <2>1 DEF RowAgrees
<1>8. CASE Bind(c)
  <2>1. proc[c].pc \in Binding /\ proc[c].pc # "setLength" /\ rec' = rec
    BY <1>8 DEF Bind, Binding
  <2>2. CASE index' = index /\ last' = last
    BY <1>7, <2>1, <2>2
  <2>3. CASE index' = [index EXCEPT ![k] = proc[c].off] /\ last' = [last EXCEPT ![k] = NewRow]
    <3>1. index'[k] = proc[c].off /\ last'[k] = NewRow
      BY <1>0, <2>3
    <3>2. rec[proc[c].off] = ZeroRow
      BY <1>1, <2>1 DEF RowInHand
    <3>3. Stored(0, 0, Empty)'
      BY DEF Stored
    <3> QED
      BY <2>1, <3>1, <3>2, <3>3 DEF RowAgrees, ZeroRow, NewRow
  <2>4. Op(c) # "save"
    BY <1>0, CallFacts, NamespaceAssumption DEF Op, Key, CallOK, IndexKeys
  <2> QED
    BY <1>8, <2>2, <2>3, <2>4 DEF Bind
<1>9. CASE remove_index(c)
  BY <1>0, <1>9, NamespaceAssumption DEF remove_index
<1>10. CASE SetNumber(c)
  <2>1. proc[c].pc = "fill" /\ proc[c].pc \in Storing /\ index' = index
    BY <1>10 DEF SetNumber, Filling, Storing
  <2>2. HoldsRow(c) /\ proc[c].off \in Slots /\ o = proc[c].off /\ o # 0
    BY <1>1, <2>1, StoringHolds DEF RowInHand, RowInv, OwnedApart
  <2>3. RowAgrees(k) /\ ~HalfStored(k)
    BY <1>3, <1>4, <2>1, <2>2
  <2>4. /\ rec'[o].num = Field(c).value /\ rec'[o].at = rec[o].at /\ rec'[o].len = rec[o].len
        /\ last'[k].num = Field(c).value /\ last'[k].str = last[k].str
    BY <1>0, <1>10, <2>2 DEF SetNumber, Rows
  <2> QED
    BY <1>5, <2>1, <2>3, <2>4 DEF RowAgrees
<1>11. CASE SetOffset(c)
  <2>1. proc[c].pc = "setOffset" /\ proc[c].pc \in Storing /\ index' = index /\ last' = last
    BY <1>11 DEF SetOffset, Storing, Pointing, hist
  <2>2. HoldsRow(c) /\ proc[c].off \in Slots /\ o = proc[c].off /\ o # 0
    BY <1>1, <2>1, StoringHolds DEF RowInHand, RowInv, OwnedApart
  <2>3. RowAgrees(k)
    BY <1>4, <2>2
  <2>4. rec'[o].num = rec[o].num
    BY <1>0, <1>11, <2>2 DEF SetOffset, Rows
  <2>5. proc'[c].call = proc[c].call /\ proc'[c].pc = "setLength"
    BY <1>11, GotoMoves DEF SetOffset, BaseInv, Moves
  <2>6. HalfStored(k)'
    BY <1>6, <2>5 DEF HalfStored
  <2> QED
    BY <2>1, <2>3, <2>4, <2>6 DEF RowAgrees
<1>12. CASE SetLength(c)
  <2>1. proc[c].pc = "setLength" /\ proc[c].pc \in Storing /\ index' = index
    BY <1>12 DEF SetLength, Storing, Pointing
  <2>2. HoldsRow(c) /\ proc[c].off \in Slots /\ o = proc[c].off /\ o # 0 /\ rec[o].at = proc[c].at
    BY <1>1, <2>1, StoringHolds DEF RowInHand, RowInv, OwnedApart
  <2>3. RowAgrees(k)
    BY <1>4, <2>2
  <2>4. /\ rec'[o].num = rec[o].num /\ rec'[o].at = proc[c].at /\ rec'[o].len = proc[c].len
        /\ last'[k].num = last[k].num /\ last'[k].str = Field(c).value
    BY <1>0, <1>12, <2>2 DEF SetLength, Rows
  <2>5. [lo |-> proc[c].at, hi |-> proc[c].at + proc[c].len, val |-> Field(c).value] \in heap'
    BY <2>1 DEF RowInv, BytesCopied
  <2>6. \A at, n, v : [lo |-> at, hi |-> at + n, val |-> v] \in heap' => Stored(at, n, v)'
    BY DEF Stored
  <2> QED
    BY <2>1, <2>3, <2>4, <2>5, <2>6 DEF RowAgrees
<1>13. CASE index' = index /\ last' = last /\ rec' = rec /\ proc[c].pc # "setLength"
  BY <1>7, <1>13
<1>14. proc[c].pc = "setLength" => SetLength(c)
  BY DEF Step, SeedRecord, AddRecord, Admit, AllocKey, PushKey, PushTimeout, Bind, FillDone, FillInvalid,
         SetNumber, SeedString, Filling, AddString, Copy, Notify, SetOffset, PushField, SaveInvalid,
         SeedPayload, AddPayload, CopyPayload, NotifyPayload, Search, LoadOffset, LoadLength, Decode,
         ReadPayload, DeleteKey, unmirrorPk, RemoveEntry, remove_index, UniqueScan
<1> QED
  BY <1>8, <1>9, <1>10, <1>11, <1>12, <1>13, <1>14, StepFrame, StepStores

LEMMA StepAgrees ==
    ASSUME BaseInv, Accepted, RacesNoted, RowInv, heap \subseteq heap', NEW c \in Clients, Step(c)
    PROVE  RowsAgree'
<1>0. raced' = raced
  BY StepFrame
<1>1. ASSUME NEW k \in Keys, k \notin raced, index'[k] # 0 PROVE RowAgrees(k)'
  <2>1. CASE Active(c) /\ Key(c) = k /\ IsWrite(Op(c))
    BY <1>1, <2>1, OwnAgrees
  <2>2. CASE ~(Active(c) /\ Key(c) = k /\ IsWrite(Op(c)))
    <3>1. /\ index'[k] = index[k] /\ last'[k] = last[k]
          /\ \A o \in Slots : Owns(k, o) => rec'[o] = rec[o]
      BY <2>2, OnlyOwnCalls DEF RowInv, LastTyped
    <3>2. index[k] \in Slots /\ Owns(k, index[k]) /\ RowAgrees(k)
      BY <1>1, <3>1 DEF RowInv, OwnedApart, Owns, RowsAgree
    <3>3. rec'[index[k]] = rec[index[k]]
      BY <3>1, <3>2
    <3>4. HalfStored(k) => HalfStored(k)'
      <4>1. ASSUME NEW d \in Clients, Active(d), Key(d) = k, proc[d].pc = "setLength" PROVE HalfStored(k)'
        <5>1. Op(d) \in {"insert", "upsert", "update"}
          BY <4>1 DEF BaseInv, ProcTyped, CallOK, OpAt, Active, Op,
                      Allocating, Binding, Storing, Saving, Reading, Pointing, SavingPayload
        <5>2. d # c
          BY <2>2, <4>1, <5>1 DEF IsWrite
        <5>3. proc'[d] = proc[d]
          BY <5>2, OthersStay
        <5> QED
          BY <4>1, <5>3 DEF HalfStored, Active, Key
      <4> QED
        BY <4>1 DEF HalfStored
    <3>5. \A at, n, v : Stored(at, n, v) => Stored(at, n, v)'
      BY DEF Stored
    <3> QED
      BY <3>1, <3>2, <3>3, <3>4, <3>5 DEF RowAgrees
  <2> QED
    BY <2>1, <2>2
<1> QED
  BY <1>0, <1>1 DEF RowsAgree

LEMMA StepReaders ==
    ASSUME BaseInv, ReadersKnown, NEW c \in Clients, Step(c)
    PROVE  ReadersKnown'
<1>1. ASSUME proc'[c].pc \in Reading PROVE Key(c)' \in Keys
  <2>1. CASE Search(c) /\ proc'[c].call = proc[c].call /\ proc'[c].pc = "loadOffset" /\ Key(c) \notin OverlongKeys
    <3>1. CallOK(proc'[c])
      BY <1>1, StepProceeds DEF BaseInv, Proceeds, Returns, Reading
    <3>2. /\ proc'[c].call \in Calls /\ proc'[c].call.key \notin InvalidKeys
          /\ proc'[c].call.op = "find"
      BY <2>1, <3>1 DEF CallOK, OpAt, Allocating, Binding, Storing, Saving, Reading, Pointing, SavingPayload
    <3> QED
      BY <2>1, <3>2, CallFacts DEF Key
  <2>2. CASE (LoadOffset(c) \/ LoadLength(c)) /\ proc'[c].call = proc[c].call
    BY <2>2 DEF LoadOffset, LoadLength, Reading, ReadersKnown, Key
  <2> QED
    BY <1>1, <2>1, <2>2, StepMoves DEF Returns, Reading
<1> QED
  BY <1>1, OthersStay DEF ReadersKnown, Key

LEMMA StepRows ==
    ASSUME BaseInv, LogInv, GrantInv, UniqueInv, RowInv, BumpsForward, NEW c \in Clients, Step(c)
    PROVE  RowInv'
<1>1. Accepted /\ Seeded /\ RacesNoted
  BY StepConnected DEF BaseInv, GrantInv, UniqueInv
<1>2. heap \subseteq heap' /\ BytesCopied' /\ BytesApart'
  BY <1>1, StepCopied, StepBytes DEF RowInv
<1>3. FreshRecords' /\ OwnedApart' /\ LastTyped' /\ ReadersKnown'
  BY <1>1, StepFresh, StepOwned, LastStays, StepReaders DEF RowInv
<1>4. RowsAgree'
  BY <1>1, <1>2, StepAgrees
<1>5. ASSUME NEW d \in Clients, Active(d)', Key(d)' \in Keys \ raced PROVE RowInHand(d)'
  <2>1. CASE d = c
    BY <1>1, <1>5, <2>1, OwnInHand
  <2>2. CASE d # c
    <3>1. Active(d) /\ Key(d)' = Key(d)
      BY <1>5, <2>2, OthersStay DEF Active, Key
    <3> QED
      BY <1>1, <1>5, <2>2, <3>1, OthersInHand DEF RowInv, LastTyped
  <2> QED
    BY <2>1, <2>2
<1>6. RowsInHand'
  BY <1>5, StepFrame DEF RowsInHand
<1> QED
  BY <1>2, <1>3, <1>4, <1>6 DEF RowInv

\* A step that stores nothing and takes nothing in hand.
LEMMA IdleRows ==
    ASSUME RowInv, UNCHANGED <<seg, recBump, strBump, index, rec, heap, last>>, raced \subseteq raced',
           \A d \in Clients :
              \/ proc'[d] = proc[d]
              \/ /\ proc[d].pc \in Outside /\ proc'[d].pc \notin Storing \cup Reading \cup {"copyPayload"}
                 /\ proc'[d].pc \in Binding => ~Active(d)' \/ Key(d)' \notin Keys
    PROVE  RowInv'
<1> DEFINE Same(d) == proc'[d] = proc[d]
<1>1. ASSUME NEW d \in Clients, ~Same(d)
      PROVE  /\ ~HoldsRow(d)' /\ ~Copying(d)' /\ proc[d].pc # "setLength"
             /\ proc'[d].pc \notin {"notify", "setOffset", "setLength"} \cup Reading
             /\ Active(d)' /\ Key(d)' \in Keys => RowInHand(d)'
  BY <1>1 DEF HoldsRow, Copying, RowInHand, Storing, Pointing, Reading, Outside
<1>2. Slots' = Slots /\ R' = R
  BY DEF Slots, R
<1>3. FreshRecords'
  BY <1>2 DEF RowInv, FreshRecords, ZeroRow
<1>4. \A d \in Clients : HoldsRow(d)' => HoldsRow(d) /\ Same(d) /\ Key(d)' = Key(d)
  BY <1>1 DEF HoldsRow, Active, Key
<1>5. \A k, o : Owns(k, o)' => Owns(k, o)
  BY <1>4 DEF Owns
<1>6. OwnedApart'
  BY <1>2, <1>4, <1>5 DEF RowInv, OwnedApart
<1>7. \A d \in Clients : Copying(d)' => Copying(d) /\ Same(d)
  BY <1>1 DEF Copying
<1>8. BytesApart'
  BY <1>7 DEF RowInv, BytesApart, InBytes
<1>9. BytesCopied'
  BY <1>1 DEF RowInv, BytesCopied, Field
<1>10. RowsInHand'
  <2>1. ASSUME NEW d \in Clients, Active(d)', Key(d)' \in Keys \ raced' PROVE RowInHand(d)'
    <3>1. CASE Same(d)
      <4>1. RowInHand(d) /\ Key(d)' = Key(d)
        BY <2>1, <3>1 DEF RowInv, RowsInHand, Active, Key
      <4> QED
        BY <3>1, <4>1 DEF RowInHand, ZeroRow
    <3> QED
      BY <1>1, <2>1, <3>1
  <2> QED
    BY <2>1 DEF RowsInHand
<1>11. \A k : HalfStored(k) => HalfStored(k)'
  BY <1>1 DEF HalfStored, Active, Key
<1>12. \A at, n, v : Stored(at, n, v) => Stored(at, n, v)'
  BY DEF Stored
<1>13. RowsAgree'
  <2>1. ASSUME NEW k \in Keys \ raced', index'[k] # 0 PROVE RowAgrees(k)'
    <3>1. RowAgrees(k)
      BY <2>1 DEF RowInv, RowsAgree
    <3> QED
      BY <1>11, <1>12, <3>1 DEF RowAgrees
  <2> QED
    BY <2>1 DEF RowsAgree
<1>14. ReadersKnown' /\ LastTyped'
  BY <1>1 DEF RowInv, ReadersKnown, LastTyped, Key
<1> QED
  BY <1>3, <1>6, <1>8, <1>9, <1>10, <1>13, <1>14 DEF RowInv

LEMMA CallRows ==
    ASSUME BaseInv, RowInv, NEW c \in Clients, Call(c)
    PROVE  RowInv'
<1> DEFINE call == Head(script[c])
<1>1. /\ UNCHANGED <<seg, recBump, strBump, index, rec, heap, last>> /\ raced \subseteq raced'
      /\ proc[c].pc \in Outside
      /\ \A d \in Clients : d # c => proc'[d] = proc[d]
  BY ZenonT(60), CallShape DEF BaseInv, ProcTyped
<1>2. CASE Returns(c)
  BY <1>1, <1>2, IdleRows DEF Returns, Storing, Pointing, Reading, Binding
<1>3. CASE proc'[c].call = call /\ CallOK(proc'[c]) /\ proc'[c].pc = FirstStep(call)
  <2>1. call \in Calls /\ call.key \notin InvalidKeys
    BY <1>3 DEF CallOK
  <2>2. proc'[c].pc \notin Storing \cup Reading \cup {"copyPayload"}
    BY <1>3, <2>1, CallFacts DEF FirstStep, Storing, Pointing, Reading
  <2>3. proc'[c].pc \in Binding => call.op = "mirror"
    BY <1>3, <2>1, CallFacts DEF FirstStep, Binding
  <2>4. call.op = "mirror" => Key(c)' \notin Keys
    BY <1>3, <2>1, CallFacts, NamespaceAssumption DEF Key
  <2> QED
    BY <1>1, <2>2, <2>3, <2>4, IdleRows
<1> QED
  BY <1>2, <1>3, CallShape

LEMMA NextRows ==
    BaseInv /\ LogInv /\ GrantInv /\ UniqueInv /\ RowInv /\ [Next]_vars /\ [BumpsForward]_vars => RowInv'
<1> SUFFICES ASSUME BaseInv, LogInv, GrantInv, UniqueInv, RowInv, [Next]_vars, [BumpsForward]_vars
             PROVE  RowInv'
  OBVIOUS
<1>1. CASE Drain \/ UNCHANGED vars
  BY <1>1, IdleRows DEF Drain, vars, mem, hist
<1>2. ASSUME NEW c \in Clients, Connect(c) PROVE RowInv'
  <2>1. /\ UNCHANGED <<seg, recBump, strBump, index, rec, heap, last, raced>>
        /\ proc[c].pc \in Outside /\ proc'[c].pc \in Outside
    BY <1>2 DEF Connect, Goto, mem, hist, BaseInv, ProcTyped, ProcFields, Outside
  <2>2. proc'[c].pc \notin Storing \cup Reading \cup {"copyPayload"} \cup Binding
    BY <2>1 DEF Outside, Storing, Pointing, Reading, Binding
  <2>3. \A d \in Clients : d # c => proc'[d] = proc[d]
    BY <1>2, OthersStay
  <2> QED
    BY <2>1, <2>2, <2>3, IdleRows
<1>3. ASSUME NEW c \in Clients, Call(c) PROVE RowInv'
  BY <1>3, CallRows
<1>4. ASSUME NEW c \in Clients, Step(c) PROVE RowInv'
  BY <1>1, <1>4, StepRows
<1> QED
  BY <1>1, <1>2, <1>3, <1>4 DEF Next

LEMMA InitRows == Init => RowInv
<1> SUFFICES ASSUME Init PROVE RowInv
  OBVIOUS
<1>1. \A c \in Clients : proc[c].pc = "unmapped" /\ ~Active(c)
  BY DEF Init, Idle, Active
<1>2. \A k \in Keys : k \in IndexKeys /\ index[k] = 0
  BY DEF Init, IndexKeys
<1>3. OwnedApart
  <2>1. \A c \in Clients : ~HoldsRow(c)
    BY <1>1 DEF HoldsRow
  <2> QED
    BY <1>2, <2>1 DEF OwnedApart, Owns
<1> QED
  BY <1>1, <1>2, <1>3
     DEF Init, RowInv, FreshRecords, BytesApart, BytesCopied, RowsInHand, RowsAgree, ReadersKnown, LastTyped,
         Copying, Reading, NewRow

-----------------------------------------------------------------------------
(* The theorems. *)

\* The invariants the rows lean on, together.
RowsInvariant == LogInv /\ GrantInv /\ UniqueInv /\ RowInv

LEMMA InitInvariant == Init => RowsInvariant
<1>1. Init => LogInv
  BY DEF Init, LogInv, ReferencesAnnounced, LogRefersBackwards, Idle, Binding, SavingPayload, StringField
<1>2. Init => GrantInv
  BY DEF Init, GrantInv, GrantsBehindBump, GrantsApart, Seeded, Idle
<1>3. Init => UniqueInv
  BY DEF Init, UniqueInv, RacesNoted, ScanStillHolds, UniqueUnlessRaced, Indexed, Active, Idle, Binding, IndexKeys
<1> QED
  BY <1>1, <1>2, <1>3, InitRows DEF RowsInvariant

LEMMA NextInvariant == BaseInv /\ RowsInvariant /\ [Next]_vars /\ [BumpsForward]_vars => RowsInvariant'
  BY NextRows, NextGrants, NextLog, NextUnique DEF RowsInvariant

\* A pointer to stored bytes decodes to them: no other span shares its ends.
LEMMA StoredReads ==
    ASSUME BytesApart, NEW at, NEW n, NEW v, Stored(at, n, v)
    PROVE  StringAt(at, n) = v
<1>1. CASE at = 0 /\ n = 0 /\ v = Empty
  BY <1>1 DEF StringAt
<1>2. CASE [lo |-> at, hi |-> at + n, val |-> v] \in heap
  <2> DEFINE s == [lo |-> at, hi |-> at + n, val |-> v]
  <2>1. /\ s.lo \in Nat /\ s.hi \in Nat /\ s.lo < s.hi
        /\ s.lo = at /\ s.hi = at + n
    BY <1>2 DEF BytesApart, InBytes
  <2>2. ~(at = 0 /\ n = 0)
    BY <2>1
  <2>3. ASSUME NEW t \in heap, t.lo = at, t.hi = at + n PROVE t = s
    BY <1>2, <2>1, <2>3 DEF BytesApart
  <2>4. (CHOOSE t \in heap : t.lo = at /\ t.hi = at + n) = s
    BY <1>2, <2>1, <2>3
  <2>5. (\E t \in heap : t.lo = at /\ t.hi = at + n) /\ s.val = v
    BY <1>2, <2>1
  <2>6. ReadSpan(at, n) = v
    <3> HIDE DEF s
    <3> QED
      BY <2>4, <2>5, Zenon DEF ReadSpan
  <2> QED
    BY <2>2, <2>6 DEF StringAt
<1> QED
  BY <1>1, <1>2 DEF Stored

\* The same, of a pointer on a row: it points into the mapping.
LEMMA StoredMapped ==
    ASSUME TypeOK, BytesApart, NEW at \in Nat, NEW n \in Nat, NEW v, Stored(at, n, v)
    PROVE  at + n <= seg.mapped
<1>1. seg.mapped \in Nat
  BY SegmentAssumption DEF TypeOK
<1>2. CASE [lo |-> at, hi |-> at + n, val |-> v] \in heap
  BY <1>1, <1>2 DEF BytesApart, InBytes
<1> QED
  BY <1>1, <1>2 DEF Stored

\* A write between the two words of a pointer is a write to that key.
LEMMA HalfStoredWrites ==
    ASSUME BaseInv, NEW d \in Clients, Active(d), proc[d].pc = "setLength"
    PROVE  IsWrite(Op(d))
  BY DEF BaseInv, ProcTyped, CallOK, OpAt, Active, Op, IsWrite,
         Allocating, Binding, Storing, Saving, Reading, Pointing, SavingPayload

\* A row on whose key no two calls overlapped holds the number and the string
\* last stored in it (the proxy's set traps), whatever clients do to other keys
\* and in whatever order they claim records, bytes and index entries.
THEOREM RowsHold == Spec /\ [][BumpsForward]_vars => []RowsHoldTheirWrites
<1>1. BaseInv /\ RowsInvariant => RowsHoldTheirWrites
  <2> SUFFICES ASSUME BaseInv, RowInv, NEW k \in Keys, index[k] # 0, Quiet(k)
               PROVE  /\ rec[index[k]].num = last[k].num
                      /\ StringAt(rec[index[k]].at, rec[index[k]].len) = last[k].str
    BY DEF RowsHoldTheirWrites, RowsInvariant
  <2>1. RowAgrees(k) /\ ~HalfStored(k)
    BY DEF RowInv, RowsAgree, Quiet, HalfStored
  <2> QED
    BY <2>1, StoredReads DEF RowAgrees, RowInv
<1> QED
  BY <1>1, InitInvariant, NextInvariant, BaseInvariant, PTL DEF Spec

\* The step of ReadsLastWrite, for one client.
LEMMA DecodeReads ==
    ASSUME BaseInv, RowsInvariant, NEW c \in Clients, [Next]_vars,
           proc[c].pc = "decode", proc'[c].pc = "idle", Key(c) \notin raced, index[Key(c)] = proc[c].off
    PROVE  proc'[c].res = "ok" /\ proc'[c].value = last[Key(c)].str
<1>1. Decode(c)
  <2>1. proc[c].pc \notin Outside
    BY SMTT(60) DEF Outside
  <2>2. Step(c)
    BY <2>1, OthersStay DEF Next, Drain, vars, Connect, Call, Outside
  <2>3. ~(SeedRecord(c) \/ AddRecord(c) \/ Admit(c) \/ AllocKey(c) \/ PushKey(c) \/ PushTimeout(c) \/ Bind(c))
    BY DEF SeedRecord, AddRecord, Admit, AllocKey, PushKey, PushTimeout, Bind
  <2>4. ~(FillDone(c) \/ FillInvalid(c) \/ SetNumber(c) \/ SeedString(c) \/ AddString(c) \/ Copy(c) \/ Notify(c))
    BY DEF FillDone, FillInvalid, Filling, SetNumber, SeedString, AddString, Copy, Notify
  <2>5. ~(SetOffset(c) \/ SetLength(c) \/ PushField(c) \/ SaveInvalid(c) \/ SeedPayload(c) \/ AddPayload(c))
    BY DEF SetOffset, SetLength, PushField, SaveInvalid, SeedPayload, AddPayload
  <2>6. ~(CopyPayload(c) \/ NotifyPayload(c) \/ Search(c) \/ LoadOffset(c) \/ LoadLength(c) \/ ReadPayload(c))
    BY DEF CopyPayload, NotifyPayload, Search, LoadOffset, LoadLength, ReadPayload
  <2>7. ~(DeleteKey(c) \/ unmirrorPk(c) \/ RemoveEntry(c) \/ UniqueScan(c))
    BY DEF DeleteKey, unmirrorPk, RemoveEntry, remove_index, UniqueScan
  <2> QED
    BY <2>2, <2>3, <2>4, <2>5, <2>6, <2>7 DEF Step
<1>2. /\ Active(c) /\ Key(c) \in Keys /\ Op(c) = "find"
  <2>1. Active(c) /\ CallOK(proc[c])
    BY DEF BaseInv, ProcTyped, Active, Outside
  <2>2. OpAt("decode", Op(c))
    BY <2>1 DEF CallOK, Op
  <2>3. Op(c) = "find"
    BY <2>2 DEF OpAt, Allocating, Binding, Storing, Saving, Reading, Pointing, SavingPayload
  <2> QED
    BY <2>1, <2>3 DEF RowsInvariant, RowInv, ReadersKnown, Reading
<1>3. /\ index[Key(c)] # 0
      /\ proc[c].at = rec[index[Key(c)]].at /\ proc[c].len = rec[index[Key(c)]].len
  BY <1>2 DEF RowsInvariant, RowInv, RowsInHand, RowInHand, Reading
<1>n. proc[c].at \in Nat /\ proc[c].len \in Nat
  <2>1. rec[index[Key(c)]] \in Rows
    BY <1>2, <1>3 DEF BaseInv, TypeOK, RowsInvariant, RowInv, OwnedApart
  <2> QED
    BY <1>3, <2>1 DEF Rows
<1>4. ~HalfStored(Key(c))
  BY <1>2, Alone, HalfStoredWrites DEF HalfStored, RowsInvariant, UniqueInv
<1>5. Stored(proc[c].at, proc[c].len, last[Key(c)].str)
  BY <1>2, <1>3, <1>4 DEF RowsInvariant, RowInv, RowsAgree, RowAgrees
<1>6. /\ StringAt(proc[c].at, proc[c].len) = last[Key(c)].str
      /\ proc[c].at + proc[c].len <= seg.mapped
  BY <1>n, <1>5, StoredReads, StoredMapped DEF RowsInvariant, RowInv, BaseInv
<1>7. seg.mapped \in Nat
  BY SegmentAssumption DEF BaseInv, TypeOK
<1>8. ~(proc[c].at + proc[c].len > seg.mapped)
  BY <1>n, <1>6, <1>7
<1>9. Finish(c, "ok", last[Key(c)].str)
  BY <1>1, <1>6, <1>8 DEF Decode
<1> QED
  BY <1>9 DEF Finish, BaseInv, ProcTyped, ProcFields

\* The get trap on a string field (two loads of the pointer's words, then the
\* decoding of the bytes) returns the string last stored in the row, unless two
\* calls overlapped on the key or the key was bound anew meanwhile.
THEOREM ReadsAreWhole == Spec /\ [][BumpsForward]_vars => ReadsLastWrite
<1> DEFINE Whole ==
      \A c \in Clients :
         (proc[c].pc = "decode" /\ proc'[c].pc = "idle" /\ Key(c) \notin raced /\ index[Key(c)] = proc[c].off)
            => proc'[c].res = "ok" /\ proc'[c].value = last[Key(c)].str
<1>1. BaseInv /\ RowsInvariant /\ [Next]_vars => [Whole]_vars
  BY DecodeReads
<1>2. Spec /\ [][BumpsForward]_vars => [][Whole]_vars
  BY <1>1, InitInvariant, NextInvariant, BaseInvariant, PTL DEF Spec
<1> QED
  BY <1>2 DEF ReadsLastWrite

-----------------------------------------------------------------------------
(* The catalog: the bytes of a descriptor. *)

\* The columns a descriptor can hold, and the width of one's record.
Columns == [name : Seq(0 .. 255), type : Range(Types), nullable : BOOLEAN, primaryKey : BOOLEAN, unique : BOOLEAN]
Width == NameField + 3

\* What \div and % make of a quotient and a remainder.
LEMMA DivMod ==
    ASSUME NEW w \in Nat \ {0}, NEW q \in Nat, NEW r \in 0 .. w - 1
    PROVE  (q * w + r) \div w = q /\ (q * w + r) % w = r
  BY SMTT(60)

\* The bytes of two sequences, one behind the other.
LEMMA Joined ==
    \A a, b, c : a \in Seq(Nat) /\ b \in Seq(Nat) /\ c = a \o b =>
        /\ c \in Seq(Nat) /\ Len(c) = Len(a) + Len(b)
        /\ \A i \in 1 .. Len(a) : c[i] = a[i]
        /\ \A i \in 1 .. Len(b) : c[Len(a) + i] = b[i]
<1> SUFFICES ASSUME NEW a \in Seq(Nat), NEW b \in Seq(Nat), NEW c, c = a \o b
             PROVE  /\ c \in Seq(Nat) /\ Len(c) = Len(a) + Len(b)
                    /\ \A i \in 1 .. Len(a) : c[i] = a[i]
                    /\ \A i \in 1 .. Len(b) : c[Len(a) + i] = b[i]
  OBVIOUS
<1>0. PICK m, n : m = Len(a) /\ n = Len(b)
  OBVIOUS
<1>1. m \in Nat /\ n \in Nat
  BY <1>0
<1>2. /\ c \in Seq(Nat) /\ Len(c) = m + n
      /\ \A i \in 1 .. m + n : c[i] = IF i <= m THEN a[i] ELSE b[i - m]
  BY <1>0, ConcatProperties
<1>3. \A i \in 1 .. m : i \in 1 .. m + n /\ i <= m
  BY <1>1
<1>4. \A i \in 1 .. n : m + i \in 1 .. m + n /\ ~(m + i <= m) /\ (m + i) - m = i
  BY <1>1
<1> QED
  BY <1>0, <1>1, <1>2, <1>3, <1>4

LEMMA TypesFacts ==
    DOMAIN Types = 1 .. 13
  BY SMTT(60) DEF Types

LEMMA NatBytes ==
    ASSUME NEW s \in Seq(0 .. 255)
    PROVE  s \in Seq(Nat)
<1>1. 0 .. 255 \subseteq Nat
  OBVIOUS
<1> QED
  BY <1>1, SeqMonotonic, Zenon

\* b holds the name in a field of its own: its length, its bytes, zeros.
NameFilled(b, name) ==
    /\ b \in Seq(Nat) /\ Len(b) = NameField + 1 /\ b[1] = Len(name)
    /\ \A j \in 1 .. Len(name) : b[j + 1] = name[j]
    /\ \A j \in Len(name) + 2 .. NameField + 1 : b[j] = 0

LEMMA NameBytesFacts ==
    ASSUME NEW name \in Seq(0 .. 255), Len(name) \in 1 .. NameField
    PROVE  NameFilled(NameBytes(name), name)
<1>b. PICK b : b = NameBytes(name)
  OBVIOUS
<1> DEFINE h == <<Len(name)>>
           z == [i \in 1 .. NameField - Len(name) |-> 0]
<1>0. PICK l, r : l = Len(name) /\ r = NameField - l
  OBVIOUS
<1>1. NameField \in Nat /\ l \in Nat /\ r \in Nat /\ l + r = NameField
  BY <1>0, CatalogRecordAssumption
<1>2. h \in Seq(Nat) /\ Len(h) = 1 /\ h[1] = l
  BY <1>0, <1>1
<1>3. name \in Seq(Nat) /\ Len(name) = l
  BY <1>0, NatBytes
<1>4. z \in Seq(Nat) /\ Len(z) = r /\ \A i \in 1 .. r : z[i] = 0
  BY <1>0, <1>1
<1>5. b = (h \o name) \o z
  BY <1>b DEF NameBytes
<1> HIDE DEF h, z
<1>6. PICK hn : hn = h \o name
  OBVIOUS
<1>7. /\ hn \in Seq(Nat) /\ Len(hn) = 1 + l
      /\ \A i \in 1 .. 1 : hn[i] = h[i]
      /\ \A i \in 1 .. l : hn[1 + i] = name[i]
  <2>1. /\ hn \in Seq(Nat) /\ Len(hn) = Len(h) + Len(name)
        /\ \A i \in 1 .. Len(h) : hn[i] = h[i]
        /\ \A i \in 1 .. Len(name) : hn[Len(h) + i] = name[i]
    <3>1. h \in Seq(Nat) /\ name \in Seq(Nat) /\ hn = h \o name
      BY <1>2, <1>3, <1>6
    <3> QED
      BY <3>1, Joined
  <2> QED
    BY <1>2, <1>3, <2>1
<1>8. /\ b \in Seq(Nat) /\ Len(b) = (1 + l) + r
      /\ \A i \in 1 .. 1 + l : b[i] = hn[i]
      /\ \A i \in 1 .. r : b[(1 + l) + i] = z[i]
  <2>1. /\ b \in Seq(Nat) /\ Len(b) = Len(hn) + Len(z)
        /\ \A i \in 1 .. Len(hn) : b[i] = hn[i]
        /\ \A i \in 1 .. Len(z) : b[Len(hn) + i] = z[i]
    <3>1. hn \in Seq(Nat) /\ z \in Seq(Nat) /\ b = hn \o z
      BY <1>4, <1>5, <1>6, <1>7
    <3> QED
      BY <3>1, Joined
  <2> QED
    BY <1>4, <1>7, <2>1
<1>9. b[1] = l
  BY <1>1, <1>2, <1>7, <1>8
<1>10. ASSUME NEW j \in 1 .. l PROVE b[j + 1] = name[j]
  <2>1. 1 + j \in 1 .. 1 + l /\ j + 1 = 1 + j
    BY <1>1
  <2> QED
    BY <1>7, <1>8, <2>1
<1>11. ASSUME NEW j \in l + 2 .. NameField + 1 PROVE b[j] = 0
  <2>1. j - (1 + l) \in 1 .. r /\ (1 + l) + (j - (1 + l)) = j
    BY <1>1
  <2> QED
    BY <1>4, <1>8, <2>1
<1> QED
  <2>1. Len(b) = NameField + 1
    BY <1>0, <1>1, <1>8
  <2> QED
    BY <1>0, <1>b, <1>8, <1>9, <1>10, <1>11, <2>1 DEF NameFilled

TypeByte(c) == (CHOOSE i \in DOMAIN Types : Types[i] = c.type) - 1

LEMMA TypeByteFacts ==
    ASSUME NEW c \in Columns, NEW b, b = TypeByte(c)
    PROVE  b \in Nat /\ b + 1 \in DOMAIN Types /\ Types[b + 1] = c.type
<1>1. \E i \in DOMAIN Types : Types[i] = c.type
  BY DEF Columns, Range
<1>2. PICK i : i = CHOOSE j \in DOMAIN Types : Types[j] = c.type
  OBVIOUS
<1>3. i \in 1 .. 13 /\ Types[i] = c.type
  BY <1>1, <1>2, TypesFacts
<1>4. b = i - 1
  BY <1>2 DEF TypeByte
<1>5. b \in Nat /\ b + 1 = i
  BY <1>3, <1>4
<1> QED
  BY <1>3, <1>5, TypesFacts

LEMMA FlagsFacts ==
    ASSUME NEW c \in Columns, NEW f, f = flagsOf(c)
    PROVE  /\ f \in 0 .. 7 /\ (f % 2 = 1 <=> c.nullable)
           /\ ((f \div 2) % 2 = 1 <=> c.primaryKey) /\ ((f \div 4) % 2 = 1 <=> c.unique)
<1>1. c.nullable \in BOOLEAN /\ c.primaryKey \in BOOLEAN /\ c.unique \in BOOLEAN
  BY DEF Columns
<1> QED
  BY <1>1, SMTT(60) DEF flagsOf

LEMMA ColumnBytesFacts ==
    ASSUME NEW c \in Columns, Len(c.name) \in 1 .. NameField, NEW b, b = ColumnBytes(c)
    PROVE  /\ b \in Seq(Nat) /\ Len(b) = Width /\ b[1] = Len(c.name)
           /\ \A j \in 1 .. Len(c.name) : b[j + 1] = c.name[j]
           /\ \A j \in Len(c.name) + 2 .. NameField + 1 : b[j] = 0
           /\ b[NameField + 2] = TypeByte(c) /\ b[NameField + 3] = flagsOf(c)
<1>0. PICK w, l, t, f : w = NameField /\ l = Len(c.name) /\ t = TypeByte(c) /\ f = flagsOf(c)
  OBVIOUS
<1>1. w \in Nat /\ c.name \in Seq(0 .. 255) /\ l \in 1 .. w
  BY <1>0, CatalogRecordAssumption DEF Columns
<1>2. PICK n, e : n = NameBytes(c.name) /\ e = <<t, f>>
  OBVIOUS
<1>3. /\ n \in Seq(Nat) /\ Len(n) = w + 1 /\ n[1] = l
      /\ \A j \in 1 .. l : n[j + 1] = c.name[j]
      /\ \A j \in l + 2 .. w + 1 : n[j] = 0
  <2>1. NameFilled(n, c.name)
    BY <1>0, <1>1, <1>2, NameBytesFacts
  <2> QED
    BY <1>0, <2>1 DEF NameFilled
<1>4. e \in Seq(Nat) /\ Len(e) = 2 /\ e[1] = t /\ e[2] = f
  <2>1. t \in Nat /\ f \in Nat
    BY <1>0, TypeByteFacts, FlagsFacts
  <2> QED
    BY <1>2, <2>1
<1>5. b = n \o e
  BY <1>0, <1>2 DEF ColumnBytes, TypeByte
<1>6. /\ b \in Seq(Nat) /\ Len(b) = (w + 1) + 2
      /\ \A i \in 1 .. w + 1 : b[i] = n[i]
      /\ \A i \in 1 .. 2 : b[(w + 1) + i] = e[i]
  <2>1. /\ b \in Seq(Nat) /\ Len(b) = Len(n) + Len(e)
        /\ \A i \in 1 .. Len(n) : b[i] = n[i]
        /\ \A i \in 1 .. Len(e) : b[Len(n) + i] = e[i]
    <3>1. n \in Seq(Nat) /\ e \in Seq(Nat) /\ b = n \o e
      BY <1>3, <1>4, <1>5
    <3> QED
      BY <3>1, Joined
  <2> QED
    BY <1>3, <1>4, <2>1
<1>7. b[1] = l /\ b[w + 2] = t /\ b[w + 3] = f
  <2>1. (w + 1) + 1 = w + 2 /\ (w + 1) + 2 = w + 3 /\ 1 \in 1 .. w + 1
    BY <1>1
  <2> QED
    BY <1>3, <1>4, <1>6, <2>1
<1>8. \A j \in 1 .. l : b[j + 1] = c.name[j]
  <2>1. \A j \in 1 .. l : j + 1 \in 1 .. w + 1
    BY <1>1
  <2> QED
    BY <1>3, <1>6, <2>1
<1>9. \A j \in l + 2 .. w + 1 : b[j] = 0
  <2>1. \A j \in l + 2 .. w + 1 : j \in 1 .. w + 1
    BY <1>1
  <2> QED
    BY <1>3, <1>6, <2>1
<1> QED
  BY <1>0, <1>1, <1>6, <1>7, <1>8, <1>9 DEF Width

\* Every byte of n records belongs to one of them.
LEMMA RecordOf ==
    ASSUME NEW w \in Nat \ {0}, NEW n \in Nat, NEW k \in 1 .. n * w
    PROVE  (k - 1) \div w + 1 \in 1 .. n /\ ((k - 1) % w) + 1 \in 1 .. w
<1>1. PICK q, r : q = (k - 1) \div w /\ r = (k - 1) % w
  OBVIOUS
<1>2. q \in Int /\ r \in 0 .. w - 1 /\ k - 1 = q * w + r /\ q >= 0
  BY <1>1, SMTT(60)
<1>3. q < n
  <2>1. SUFFICES ASSUME q >= n PROVE FALSE
    BY <1>2
  <2>2. q * w >= n * w
    BY <1>2, <2>1, SMTT(60)
  <2>3. k - 1 < n * w
    OBVIOUS
  <2> QED
    BY <1>2, <2>2, <2>3
<1> QED
  BY <1>1, <1>2, <1>3

\* The place of byte j of record i among records of width w, and back.
Place(w, i, j) == (i - 1) * w + j
RecordAt(w, k) == (k - 1) \div w + 1
ByteAt(w, k) == ((k - 1) % w) + 1
Room(w, n) == n * w

LEMMA PlaceOf ==
    ASSUME NEW w \in Nat \ {0}, NEW n \in Nat, NEW i \in 1 .. n, NEW j \in 1 .. w
    PROVE  /\ Place(w, i, j) \in 1 .. Room(w, n)
           /\ RecordAt(w, Place(w, i, j)) = i /\ ByteAt(w, Place(w, i, j)) = j
<1>0. PICK k : k = (i - 1) * w + j
  OBVIOUS
<1>1. PICK q, r, p : q = i - 1 /\ r = j - 1 /\ p = q * w
  OBVIOUS
<1>2. q \in Nat /\ r \in 0 .. w - 1 /\ q <= n - 1 /\ i = q + 1 /\ j = r + 1
  BY <1>1
<1>3. p \in Nat /\ p + w <= n * w
  <2>1. (n - q) * w >= w
    BY <1>2, SMTT(60)
  <2>2. (n - q) * w = n * w - q * w
    BY <1>2, SMTT(60)
  <2>3. q * w \in Nat
    BY <1>2
  <2> QED
    BY <1>1, <2>1, <2>2, <2>3
<1>4. k - 1 = q * w + r
  BY <1>0, <1>1, <1>2, <1>3
<1>5. (k - 1) \div w = q /\ (k - 1) % w = r
  <2>1. (q * w + r) \div w = q /\ (q * w + r) % w = r
    BY <1>2, DivMod, ZenonT(60)
  <2> QED
    BY <1>4, <2>1, Zenon
<1>6. k \in 1 .. n * w
  BY <1>0, <1>1, <1>2, <1>3, <1>4
<1>7. Place(w, i, j) = k
  BY <1>0 DEF Place
<1>8. RecordAt(w, k) = i /\ ByteAt(w, k) = j
  BY <1>2, <1>5 DEF RecordAt, ByteAt
<1> QED
  BY <1>6, <1>7, <1>8 DEF Room

\* Where encodeCatalogRecord puts each byte: the header, the table's name, and a
\* record of fixed width for each column.
Encodes(buf, table, columns) ==
    /\ buf \in Seq(Nat) /\ Len(buf) = 9 + NameField + Len(columns) * Width
    /\ buf[1] = 84 /\ buf[2] = 65 /\ buf[3] = 67 /\ buf[4] = 84 /\ buf[5] = 1 /\ buf[6] = 0
    /\ buf[7] = Len(columns) /\ buf[8] = 0
    /\ \A j \in 1 .. NameField + 1 : buf[8 + j] = NameBytes(table)[j]
    /\ \A i \in DOMAIN columns, j \in 1 .. Width :
           buf[(9 + NameField) + (i - 1) * Width + j] = ColumnBytes(columns[i])[j]

\* A table whose name has at least one character has at least one byte.
LEMMA NamedByBytes ==
    ASSUME NEW table \in Seq(0 .. 255), Utf16Length(table) \in 1 .. NameField
    PROVE  Len(table) >= 1
<1> SUFFICES ASSUME Len(table) = 0 PROVE FALSE
  OBVIOUS
<1>1. {i \in DOMAIN table : table[i] \notin 128 .. 191} = {} /\ {i \in DOMAIN table : table[i] >= 240} = {}
  OBVIOUS
<1>2. Utf16Length(table) = 0
  BY <1>1, FS_EmptySet DEF Utf16Length
<1> QED
  BY <1>2

\* The name is not longer in bytes than its field.  encodeCatalogRecord does
\* not ask for it.
FitsField(table) == Len(table) <= NameField

\* The header, and the table's name behind it.
Header(table, n) == Magic \o Version \o <<n, 0, Len(table) % 256>> \o table

HeaderFilled(h, table, n) ==
    /\ h \in Seq(Nat) /\ Len(h) = 9 + Len(table)
    /\ h[1] = 84 /\ h[2] = 65 /\ h[3] = 67 /\ h[4] = 84 /\ h[5] = 1 /\ h[6] = 0
    /\ h[7] = n /\ h[8] = 0 /\ h[9] = Len(table)
    /\ \A j \in 1 .. Len(table) : h[9 + j] = table[j]

LEMMA HeaderFacts ==
    ASSUME NEW table \in Seq(0 .. 255), Len(table) \in 1 .. NameField, NEW n \in Nat, NEW h, h = Header(table, n)
    PROVE  HeaderFilled(h, table, n)
<1>0. PICK l : l = Len(table)
  OBVIOUS
<1>1. l \in Nat /\ l % 256 = l /\ table \in Seq(Nat)
  <2>0. \A a, b : b \in 1 .. 255 /\ a \in 1 .. b => a \in 1 .. 255
    OBVIOUS
  <2>1. l \in 1 .. 255
    BY <1>0, <2>0, CatalogRecordAssumption, Zenon
  <2>2. table \in Seq(Nat)
    BY NatBytes, Zenon
  <2> QED
    BY <2>1, <2>2
<1>2. PICK h1, h2, h3 : h1 = Magic \o Version /\ h2 = <<n, 0, l % 256>> /\ h3 = h1 \o h2
  OBVIOUS
<1>3. h = h3 \o table
  BY <1>0, <1>2 DEF Header
<1>6. /\ h1 \in Seq(Nat) /\ Len(h1) = 6
      /\ h1[1] = 84 /\ h1[2] = 65 /\ h1[3] = 67 /\ h1[4] = 84 /\ h1[5] = 1 /\ h1[6] = 0
  <2>1. /\ Magic \in Seq(Nat) /\ Len(Magic) = 4
        /\ Magic[1] = 84 /\ Magic[2] = 65 /\ Magic[3] = 67 /\ Magic[4] = 84
    BY DEF Magic
  <2>2. Version \in Seq(Nat) /\ Len(Version) = 2 /\ Version[1] = 1 /\ Version[2] = 0
    BY DEF Version
  <2>3. /\ h1 \in Seq(Nat) /\ Len(h1) = Len(Magic) + Len(Version)
        /\ \A i \in 1 .. Len(Magic) : h1[i] = Magic[i]
        /\ \A i \in 1 .. Len(Version) : h1[Len(Magic) + i] = Version[i]
    <3>1. Magic \in Seq(Nat) /\ Version \in Seq(Nat) /\ h1 = Magic \o Version
      BY <1>2, <2>1, <2>2
    <3> QED
      BY <3>1, Joined
  <2> QED
    BY <2>1, <2>2, <2>3
<1>7. h2 \in Seq(Nat) /\ Len(h2) = 3 /\ h2[1] = n /\ h2[2] = 0 /\ h2[3] = l
  BY <1>1, <1>2
<1>8. /\ h3 \in Seq(Nat) /\ Len(h3) = 9
      /\ h3[1] = 84 /\ h3[2] = 65 /\ h3[3] = 67 /\ h3[4] = 84 /\ h3[5] = 1 /\ h3[6] = 0
      /\ h3[7] = n /\ h3[8] = 0 /\ h3[9] = l
  <2>1. /\ h3 \in Seq(Nat) /\ Len(h3) = Len(h1) + Len(h2)
        /\ \A i \in 1 .. Len(h1) : h3[i] = h1[i]
        /\ \A i \in 1 .. Len(h2) : h3[Len(h1) + i] = h2[i]
    <3>1. h1 \in Seq(Nat) /\ h2 \in Seq(Nat) /\ h3 = h1 \o h2
      BY <1>2, <1>6, <1>7
    <3> QED
      BY <3>1, Joined
  <2> QED
    BY <1>6, <1>7, <2>1
<1>9. /\ h \in Seq(Nat) /\ Len(h) = Len(h3) + Len(table)
      /\ \A i \in 1 .. Len(h3) : h[i] = h3[i]
      /\ \A i \in 1 .. Len(table) : h[Len(h3) + i] = table[i]
  <2>1. h3 \in Seq(Nat) /\ table \in Seq(Nat) /\ h = h3 \o table
    BY <1>1, <1>3, <1>8
  <2> QED
    BY <2>1, Joined
<1>10. h \in Seq(Nat) /\ Len(h) = 9 + Len(table) /\ \A j \in 1 .. Len(table) : h[9 + j] = table[j]
  BY <1>8, <1>9
<1>11. \A i \in 1 .. 9 : h[i] = h3[i]
  BY <1>8, <1>9
<1>12. /\ h[1] = 84 /\ h[2] = 65 /\ h[3] = 67 /\ h[4] = 84 /\ h[5] = 1 /\ h[6] = 0
       /\ h[7] = n /\ h[8] = 0 /\ h[9] = l
  BY <1>8, <1>11
<1> QED
  BY <1>0, <1>10, <1>12 DEF HeaderFilled

LEMMA EncodedAt ==
    ASSUME NEW table \in Seq(0 .. 255), NEW columns \in Seq(Columns), Encodable(table, columns), FitsField(table),
           NEW buf, buf = encodeCatalogRecord(table, columns)
    PROVE  Encodes(buf, table, columns)
<1>0. PICK w, n, f, l, h, first : /\ w = Width /\ n = Len(columns) /\ f = NameField /\ l = Len(table)
                                  /\ h = Header(table, n) /\ first = 9 + f
  OBVIOUS
<1>1. /\ f \in Nat /\ w = f + 3 /\ n \in Nat /\ w \in Nat /\ n * w \in Nat /\ n \in 1 .. MaxCatalogCols
      /\ l \in 1 .. f /\ first \in Nat
  <2>1. f \in Nat /\ w = f + 3 /\ n \in Nat /\ w \in Nat /\ n \in 1 .. MaxCatalogCols
    BY <1>0, CatalogRecordAssumption DEF Width, Encodable
  <2>2. l \in 1 .. f
    BY <1>0, NamedByBytes DEF Encodable, FitsField
  <2> QED
    BY <1>0, <2>1, <2>2
<1>2. /\ h \in Seq(Nat) /\ Len(h) = 9 + l
      /\ h[1] = 84 /\ h[2] = 65 /\ h[3] = 67 /\ h[4] = 84 /\ h[5] = 1 /\ h[6] = 0
      /\ h[7] = n /\ h[8] = 0 /\ h[9] = l
      /\ \A j \in 1 .. l : h[9 + j] = table[j]
  <2>1. Len(table) \in 1 .. NameField /\ n \in Nat /\ h = Header(table, n)
    BY <1>0, <1>1
  <2>2. HeaderFilled(h, table, n)
    BY <2>1, HeaderFacts
  <2> QED
    BY <1>0, <2>2 DEF HeaderFilled
<1> DEFINE Before(k) == IF k \in DOMAIN h THEN h[k] ELSE 0
           Over(q) == ColumnBytes(columns[(q - 1) \div w + 1])[((q - 1) % w) + 1]
           Padded(q) == ((q - 1) % w) + 1 \in Len(columns[(q - 1) \div w + 1].name) + 2 .. f + 1
           Kept(q) == IF Padded(q) THEN Before(first + q) ELSE Over(q)
<1>3. buf = [k \in 1 .. first + n * w |-> IF k <= first THEN Before(k) ELSE Kept(k - first)]
  BY <1>0 DEF encodeCatalogRecord, Header, HeaderLen, Width
<1>4. DOMAIN h = 1 .. 9 + l
  BY <1>2
<1>5. ASSUME NEW k \in Nat PROVE Before(k) \in Nat /\ (k > 9 + l => Before(k) = 0)
  <2>1. CASE k \in DOMAIN h
    <3>1. h[k] \in Nat
      BY <1>2, <1>4, <2>1, ElementOfSeq
    <3> QED
      BY <1>1, <1>4, <2>1, <3>1
  <2>2. CASE k \notin DOMAIN h
    BY <2>2
  <2> QED
    BY <2>1, <2>2, <1>1, <1>4
<1>11. ASSUME NEW i \in 1 .. n
       PROVE  /\ ColumnBytes(columns[i]) \in Seq(Nat) /\ Len(ColumnBytes(columns[i])) = w
              /\ \A j \in Len(columns[i].name) + 2 .. f + 1 : ColumnBytes(columns[i])[j] = 0
  <2>1. columns[i] \in Columns /\ Len(columns[i].name) \in 1 .. NameField
    BY <1>0, ElementOfSeq DEF Encodable
  <2> QED
    BY <1>0, <2>1, ColumnBytesFacts
<1>12. ASSUME NEW q \in 1 .. n * w
       PROVE  Over(q) \in Nat /\ Kept(q) = Over(q)
  <2>1. (q - 1) \div w + 1 \in 1 .. n /\ ((q - 1) % w) + 1 \in 1 .. w
    BY <1>1, RecordOf
  <2>2. PICK i, j : i = (q - 1) \div w + 1 /\ j = ((q - 1) % w) + 1
    OBVIOUS
  <2>3. i \in 1 .. n /\ j \in 1 .. w
    BY <2>1, <2>2
  <2>4. ColumnBytes(columns[i])[j] \in Nat
    BY <1>11, <2>3, ElementOfSeq
  <2>5. j \in Len(columns[i].name) + 2 .. f + 1 => ColumnBytes(columns[i])[j] = 0
    BY <1>11, <2>3
  <2>6. Before(first + q) = 0
    <3>1. first + q \in Nat /\ first + q > 9 + l
      BY <1>0, <1>1
    <3> HIDE DEF Before
    <3> QED
      BY <1>5, <3>1
  <2>7. Over(q) = ColumnBytes(columns[i])[j] /\ (Padded(q) <=> j \in Len(columns[i].name) + 2 .. f + 1)
    BY <2>2
  <2> HIDE DEF Before, Over, Padded
  <2> QED
    BY <2>4, <2>5, <2>6, <2>7
<1>13. ASSUME NEW k \in 1 .. first PROVE buf[k] = Before(k)
  <2>1. k \in 1 .. first + n * w /\ k <= first
    BY <1>1
  <2> HIDE DEF Before, Kept
  <2> QED
    BY <1>3, <2>1
<1>14. ASSUME NEW q \in 1 .. n * w PROVE buf[first + q] = Over(q)
  <2>1. first + q \in 1 .. first + n * w /\ ~(first + q <= first) /\ (first + q) - first = q
    <3>1. PICK m : m = n * w
      OBVIOUS
    <3>2. m \in Nat /\ q \in 1 .. m
      BY <1>1, <3>1
    <3> QED
      BY <1>1, <3>1, <3>2
  <2>2. Kept(q) = Over(q)
    BY <1>12
  <2> HIDE DEF Before, Kept, Over
  <2> QED
    BY <1>3, <2>1, <2>2
<1>15. /\ buf[1] = 84 /\ buf[2] = 65 /\ buf[3] = 67 /\ buf[4] = 84 /\ buf[5] = 1 /\ buf[6] = 0
       /\ buf[7] = n /\ buf[8] = 0
  <2>1. ASSUME NEW k \in 1 .. 8 PROVE buf[k] = h[k]
    <3>1. k \in 1 .. first /\ k \in DOMAIN h
      BY <1>0, <1>1, <1>4
    <3> QED
      BY <1>13, <3>1
  <2>2. /\ buf[1] = h[1] /\ buf[2] = h[2] /\ buf[3] = h[3] /\ buf[4] = h[4]
        /\ buf[5] = h[5] /\ buf[6] = h[6] /\ buf[7] = h[7] /\ buf[8] = h[8]
    BY <2>1
  <2> QED
    BY <1>2, <2>2
<1>16. ASSUME NEW j \in 1 .. f + 1 PROVE buf[8 + j] = NameBytes(table)[j]
  <2>1. 8 + j \in 1 .. first
    BY <1>0, <1>1
  <2>2. NameFilled(NameBytes(table), table)
    BY <1>0, <1>1, NameBytesFacts
  <2>3. PICK d : d = NameBytes(table)
    OBVIOUS
  <2>4. /\ d[1] = l /\ \A m \in 1 .. l : d[m + 1] = table[m]
        /\ \A m \in l + 2 .. f + 1 : d[m] = 0
    BY <1>0, <2>2, <2>3 DEF NameFilled
  <2>0. buf[8 + j] = Before(8 + j)
    BY <1>13, <2>1
  <2>5. CASE j = 1
    <3>1. 8 + j = 9 /\ 9 \in DOMAIN h
      BY <1>1, <1>4, <2>5
    <3>2. Before(9) = l
      BY <1>2, <3>1
    <3> HIDE DEF Before
    <3> QED
      BY <2>0, <2>3, <2>4, <2>5, <3>1, <3>2
  <2>6. CASE j \in 2 .. l + 1
    <3>1. PICK m \in 1 .. l : j = m + 1
      BY <1>1, <2>6
    <3>2. 8 + j = 9 + m /\ 9 + m \in DOMAIN h
      BY <1>1, <1>4, <3>1
    <3>3. Before(9 + m) = table[m]
      BY <1>2, <3>2
    <3> HIDE DEF Before
    <3> QED
      BY <2>0, <2>3, <2>4, <3>1, <3>2, <3>3
  <2>7. CASE j \in l + 2 .. f + 1
    <3>1. 8 + j \in Nat /\ 8 + j > 9 + l
      BY <1>1, <2>7
    <3>2. Before(8 + j) = 0
      BY <1>5, <3>1
    <3> HIDE DEF Before
    <3> QED
      BY <2>0, <2>3, <2>4, <2>7, <3>2
  <2> QED
    BY <1>1, <2>5, <2>6, <2>7
<1>17. ASSUME NEW i \in 1 .. n, NEW j \in 1 .. w
       PROVE  buf[(9 + f) + (i - 1) * w + j] = ColumnBytes(columns[i])[j]
  <2>1. PICK k : k = (i - 1) * w + j
    OBVIOUS
  <2>2. k \in 1 .. n * w /\ (k - 1) \div w + 1 = i /\ ((k - 1) % w) + 1 = j
    <3>1. w \in Nat \ {0} /\ n \in Nat
      BY <1>1
    <3>2. /\ Place(w, i, j) \in 1 .. Room(w, n)
          /\ RecordAt(w, Place(w, i, j)) = i /\ ByteAt(w, Place(w, i, j)) = j
      BY <3>1, PlaceOf
    <3>3. Place(w, i, j) = k
      BY <2>1 DEF Place
    <3> QED
      BY <3>2, <3>3 DEF RecordAt, ByteAt, Room
  <2>3. (9 + f) + (i - 1) * w + j = first + k
    <3>1. (i - 1) * w \in Int
      BY <1>1
    <3> QED
      BY <1>0, <1>1, <2>1, <3>1
  <2>4. Over(k) = ColumnBytes(columns[i])[j]
    BY <2>2
  <2> HIDE DEF Over
  <2> QED
    BY <1>14, <2>2, <2>3, <2>4
<1>18. buf \in Seq(Nat) /\ Len(buf) = (9 + f) + n * w
  <2>1. PICK m : m = first + n * w
    OBVIOUS
  <2>2. m \in Nat
    BY <1>1, <2>1
  <2>3. ASSUME NEW k \in 1 .. m PROVE (IF k <= first THEN Before(k) ELSE Kept(k - first)) \in Nat
    <3>1. CASE k <= first
      <4>1. k \in Nat
        BY <2>2
      <4> HIDE DEF Before, Kept
      <4> QED
        BY <1>5, <3>1, <4>1
    <3>2. CASE ~(k <= first)
      <4>1. k - first \in 1 .. n * w
        <5>1. PICK p : p = n * w
          OBVIOUS
        <5>2. p \in Nat /\ m = first + p
          BY <1>1, <2>1, <5>1
        <5> QED
          BY <1>1, <3>2, <5>1, <5>2
      <4>2. Kept(k - first) = Over(k - first) /\ Over(k - first) \in Nat
        BY <1>12, <4>1
      <4> HIDE DEF Before, Kept, Over
      <4> QED
        BY <3>2, <4>2
    <3> QED
      BY <3>1, <3>2
  <2> HIDE DEF Before, Kept
  <2>4. buf \in [1 .. m -> Nat]
    BY <1>3, <2>1, <2>3
  <2> QED
    BY <1>0, <2>1, <2>2, <2>4
<1>19. DOMAIN columns = 1 .. n
  BY <1>0
<1> QED
  BY SMTT(60), <1>0, <1>15, <1>16, <1>17, <1>18, <1>19 DEF Encodes

\* A slice that agrees byte for byte with a sequence is that sequence.
\* The n bytes of s behind its first a, and that they are t.
Slice(s, a, n) == SubSeq(s, a + 1, a + n)
StandsAt(s, t, a) == a + Len(t) <= Len(s) /\ \A j \in 1 .. Len(t) : s[a + j] = t[j]

LEMMA SliceIs ==
    \A s, t \in Seq(Nat) : \A a \in Nat : StandsAt(s, t, a) => Slice(s, a, Len(t)) = t
<1> SUFFICES ASSUME NEW s \in Seq(Nat), NEW t \in Seq(Nat), NEW a \in Nat, StandsAt(s, t, a)
             PROVE  Slice(s, a, Len(t)) = t
  OBVIOUS
<1>a. PICK lo, hi : lo = a + 1 /\ hi = a + Len(t)
  OBVIOUS
<1>0. PICK l, u : l = Len(t) /\ u = SubSeq(s, lo, hi)
  OBVIOUS
<1>1. l \in Nat /\ Len(s) \in Nat /\ hi = a + l
  BY <1>0, <1>a
<1>2. lo \in Int /\ hi \in Int /\ hi - lo + 1 = l /\ (lo <= hi \/ l = 0)
  BY <1>1, <1>a
<1>3. \A k \in 1 .. l : lo + k - 1 = a + k
  BY <1>1, <1>a
<1>4. \A i \in lo .. hi : s[i] \in Nat
  <2>1. \A i \in lo .. hi : i \in 1 .. Len(s)
    BY <1>1, <1>a DEF StandsAt
  <2> QED
    BY <2>1
<1>5. /\ u \in Seq(Nat) /\ Len(u) = IF lo <= hi THEN hi - lo + 1 ELSE 0
      /\ \A i \in 1 .. hi - lo + 1 : u[i] = s[lo + i - 1]
  BY <1>0, <1>2, <1>4, SubSeqProperties
<1>6. Len(u) = l
  BY <1>1, <1>2, <1>5
<1>7. \A k \in 1 .. l : u[k] = t[k]
  BY <1>0, <1>2, <1>3, <1>5 DEF StandsAt
<1> QED
  <2>1. u = t
    BY <1>0, <1>5, <1>6, <1>7, SeqEqual
  <2> QED
    BY <1>0, <1>a, <2>1 DEF Slice

LEMMA NameInIs ==
    ASSUME NEW name \in Seq(0 .. 255), NEW b \in Seq(Nat), Len(b) > Len(name),
           b[1] = Len(name), \A j \in 1 .. Len(name) : b[j + 1] = name[j]
    PROVE  NameIn(b) = name
<1>1. name \in Seq(Nat) /\ 1 + Len(name) <= Len(b)
  BY NatBytes
<1>2. StandsAt(b, name, 1)
  BY <1>1 DEF StandsAt
<1>3. SubSeq(b, 2, 1 + Len(name)) = name
  <2>1. Slice(b, 1, Len(name)) = name
    BY <1>1, <1>2, SliceIs
  <2> QED
    BY <2>1 DEF Slice
<1> QED
  BY <1>3 DEF NameIn

\* What a column's record decodes to.
LEMMA ColumnDecodes ==
    ASSUME NEW c \in Columns, Len(c.name) \in 1 .. NameField
    PROVE  ValidColumn(ColumnBytes(c)) /\ DecodedColumn(ColumnBytes(c)) = c
<1>0. PICK b, f, t, g : b = ColumnBytes(c) /\ f = NameField /\ t = TypeByte(c) /\ g = flagsOf(c)
  OBVIOUS
<1>1. /\ b \in Seq(Nat) /\ Len(b) = f + 3 /\ b[1] = Len(c.name)
      /\ \A j \in 1 .. Len(c.name) : b[j + 1] = c.name[j]
      /\ \A j \in Len(c.name) + 2 .. f + 1 : b[j] = 0
      /\ b[f + 2] = t /\ b[f + 3] = g
  BY <1>0, ColumnBytesFacts DEF Width
<1>2. t \in Nat /\ t + 1 \in DOMAIN Types /\ Types[t + 1] = c.type
  BY <1>0, TypeByteFacts
<1>3. /\ g \in 0 .. 7 /\ (g % 2 = 1 <=> c.nullable)
      /\ ((g \div 2) % 2 = 1 <=> c.primaryKey) /\ ((g \div 4) % 2 = 1 <=> c.unique)
  BY <1>0, FlagsFacts
<1>4. f \in Nat /\ c.name \in Seq(0 .. 255) /\ Len(c.name) \in 1 .. f
  BY <1>0, CatalogRecordAssumption DEF Columns
<1>5. ValidColumn(b)
  <2>1. g < 8
    BY <1>3
  <2> QED
    BY <1>0, <1>1, <1>2, <1>4, <2>1 DEF ValidColumn
<1>6. NameIn(b) = c.name
  <2>1. Len(b) > Len(c.name)
    BY <1>1, <1>4
  <2> QED
    BY <1>1, <1>4, <2>1, NameInIs
<1>7. DecodedColumn(b) = [name |-> c.name, type |-> c.type, nullable |-> g % 2 = 1,
                          primaryKey |-> (g \div 2) % 2 = 1, unique |-> (g \div 4) % 2 = 1]
  BY <1>0, <1>1, <1>2, <1>6 DEF DecodedColumn
<1>8. PICK x, y, z : x = (g % 2 = 1) /\ y = ((g \div 2) % 2 = 1) /\ z = ((g \div 4) % 2 = 1)
  OBVIOUS
<1>9. x = c.nullable /\ y = c.primaryKey /\ z = c.unique
  <2>1. c.nullable \in BOOLEAN /\ c.primaryKey \in BOOLEAN /\ c.unique \in BOOLEAN
    BY DEF Columns
  <2> QED
    BY <1>3, <1>8, <2>1
<1>10. c = [name |-> c.name, type |-> c.type, nullable |-> c.nullable,
            primaryKey |-> c.primaryKey, unique |-> c.unique]
  BY DEF Columns
<1> QED
  BY <1>0, <1>5, <1>7, <1>8, <1>9, <1>10

\* decodeCatalogRecord gives back what encodeCatalogRecord accepted, if the bytes
\* of the table's name fit its field.  The code does not check that: a longer
\* name is accepted, stored over the columns and refused by the decoder, as the
\* run client_comments shows.
THEOREM CatalogRoundTrips ==
    ASSUME NEW table \in Seq(0 .. 255), NEW columns \in Seq(Columns), Encodable(table, columns), FitsField(table)
    PROVE  decodeCatalogRecord(encodeCatalogRecord(table, columns)) = [table |-> table, columns |-> columns]
<1>0. PICK buf, f, w, n : buf = encodeCatalogRecord(table, columns) /\ f = NameField /\ w = Width /\ n = Len(columns)
  OBVIOUS
<1>1. /\ buf \in Seq(Nat) /\ Len(buf) = 9 + f + n * w
      /\ buf[1] = 84 /\ buf[2] = 65 /\ buf[3] = 67 /\ buf[4] = 84 /\ buf[5] = 1 /\ buf[6] = 0
      /\ buf[7] = n /\ buf[8] = 0
      /\ \A j \in 1 .. f + 1 : buf[8 + j] = NameBytes(table)[j]
      /\ \A i \in DOMAIN columns, j \in 1 .. w :
             buf[(9 + f) + (i - 1) * w + j] = ColumnBytes(columns[i])[j]
  <2>1. Encodes(buf, table, columns)
    BY <1>0, EncodedAt
  <2> QED
    BY <1>0, <2>1, Zenon DEF Encodes
<1>2. /\ f \in Nat /\ w = f + 3 /\ w \in Nat \ {0} /\ n \in 1 .. MaxCatalogCols /\ n \in Nat
      /\ DOMAIN columns = 1 .. n /\ n * w \in Nat
  <2>1. /\ f \in Nat /\ w = f + 3 /\ w \in Nat \ {0} /\ n \in 1 .. MaxCatalogCols /\ n \in Nat
        /\ DOMAIN columns = 1 .. n
    BY <1>0, CatalogRecordAssumption DEF Width, Encodable
  <2> QED
    BY <2>1
<1>a. buf \in Seq(Nat)
  BY <1>1, Zenon
<1>b. Len(buf) \in Nat /\ Len(buf) >= 9 + f
  <2>1. Len(buf) = 9 + f + n * w
    BY <1>1, Zenon
  <2> QED
    BY <1>2, <2>1
<1>3. buf[7] + 256 * buf[8] = n
  BY <1>1, <1>2
<1>4. catalogEncodedLen(n) = Len(buf) /\ Len(buf) > HeaderLen + NameField
  BY <1>0, <1>1, <1>2 DEF catalogEncodedLen, HeaderLen
<1>5. SubSeq(buf, 1, 4) = Magic
  <2>1. Magic \in Seq(Nat) /\ Len(Magic) = 4 /\ Magic[1] = 84 /\ Magic[2] = 65 /\ Magic[3] = 67 /\ Magic[4] = 84
    BY DEF Magic
  <2>2. \A j \in 1 .. 4 : j = 1 \/ j = 2 \/ j = 3 \/ j = 4
    OBVIOUS
  <2>3. \A j \in 1 .. 4 : buf[j] = Magic[j]
    <3>1. buf[1] = 84 /\ buf[2] = 65 /\ buf[3] = 67 /\ buf[4] = 84
      BY <1>1, Zenon
    <3> QED
      BY <2>1, <2>2, <3>1
  <2>4. \A j \in 1 .. 4 : 0 + j = j
    OBVIOUS
  <2>5. StandsAt(buf, Magic, 0)
    BY <1>2, <1>b, <2>1, <2>3, <2>4 DEF StandsAt
  <2>6. Slice(buf, 0, Len(Magic)) = Magic
    BY <1>a, <2>1, <2>5, SliceIs
  <2>7. 0 + 1 = 1 /\ 0 + Len(Magic) = 4
    BY <2>1
  <2> QED
    BY <2>6, <2>7 DEF Slice
<1>6. SubSeq(buf, 5, 6) = Version
  <2>1. Version \in Seq(Nat) /\ Len(Version) = 2 /\ Version[1] = 1 /\ Version[2] = 0
    BY DEF Version
  <2>2. \A j \in 1 .. 2 : j = 1 \/ j = 2
    OBVIOUS
  <2>3. StandsAt(buf, Version, 4)
    <3>1. 4 + 1 = 5 /\ 4 + 2 = 6 /\ buf[5] = 1 /\ buf[6] = 0
      BY <1>1
    <3>2. \A j \in 1 .. Len(Version) : buf[4 + j] = Version[j]
      BY <2>1, <2>2, <3>1
    <3> QED
      BY <1>2, <1>b, <2>1, <3>2 DEF StandsAt
  <2>4. Slice(buf, 4, Len(Version)) = Version
    BY <1>a, <2>1, <2>3, SliceIs
  <2>5. 4 + 1 = 5 /\ 4 + Len(Version) = 6
    BY <2>1
  <2> QED
    BY <2>4, <2>5 DEF Slice
<1>7. /\ NameBytes(table) \in Seq(Nat) /\ Len(NameBytes(table)) = f + 1
      /\ NameBytes(table)[1] = Len(table) /\ Len(table) \in 1 .. f
      /\ \A j \in 1 .. Len(table) : NameBytes(table)[j + 1] = table[j]
  <2>1. Len(table) \in 1 .. NameField
    BY NamedByBytes DEF Encodable, FitsField
  <2>2. NameFilled(NameBytes(table), table)
    BY <2>1, NameBytesFacts
  <2> QED
    BY <1>0, <2>1, <2>2 DEF NameFilled
<1>8. SubSeq(buf, 9, 9 + f) = NameBytes(table)
  <2>0. PICK d : d = NameBytes(table)
    OBVIOUS
  <2>1. d \in Seq(Nat) /\ Len(d) = f + 1 /\ \A j \in 1 .. f + 1 : buf[8 + j] = d[j]
    BY <1>1, <1>7, <2>0
  <2>2. StandsAt(buf, d, 8)
    <3>1. 8 + Len(d) <= Len(buf)
      BY <1>2, <1>b, <2>1
    <3>2. \A j \in 1 .. Len(d) : buf[8 + j] = d[j]
      BY <2>1, Zenon
    <3> QED
      BY <3>1, <3>2, Zenon DEF StandsAt
  <2>3. Slice(buf, 8, Len(d)) = d
    BY <1>a, <2>1, <2>2, SliceIs
  <2>4. SubSeq(buf, 9, 9 + f) = d
    <3>1. 8 + 1 = 9 /\ 8 + Len(d) = 9 + f
      BY <1>2, <2>1
    <3> QED
      BY <2>3, <3>1 DEF Slice
  <2> QED
    BY <2>0, <2>4
<1>9. buf[9] \in 1 .. f
  <2>1. 1 \in 1 .. f + 1 /\ 8 + 1 = 9
    BY <1>2
  <2>2. buf[8 + 1] = NameBytes(table)[1]
    BY <1>1, <2>1
  <2> QED
    BY <1>7, <2>1, <2>2
<1>10. NameIn(SubSeq(buf, 9, 9 + f)) = table
  <2>1. Len(NameBytes(table)) > Len(table)
    BY <1>2, <1>7
  <2> QED
    BY <1>7, <1>8, <2>1, NameInIs
<1>11. ASSUME NEW i \in 1 .. n PROVE ColumnIn(buf, i) = ColumnBytes(columns[i])
  <2>1. PICK b, a : b = ColumnBytes(columns[i]) /\ a = (9 + f) + (i - 1) * w
    OBVIOUS
  <2>2. columns[i] \in Columns /\ Len(columns[i].name) \in 1 .. NameField
    BY <1>2, ElementOfSeq DEF Encodable
  <2>3. b \in Seq(Nat) /\ Len(b) = w
    BY <1>0, <2>1, <2>2, ColumnBytesFacts
  <2>4. a \in Nat /\ a + w <= Len(buf)
    <3>1. PICK p : p = (i - 1) * w
      OBVIOUS
    <3>2. p \in Nat
      BY <1>2, <3>1
    <3>3. p + w <= n * w
      <4>1. w \in 1 .. w
        BY <1>2
      <4>2. Place(w, i, w) \in 1 .. Room(w, n)
        BY <1>2, <4>1, PlaceOf
      <4> QED
        BY <3>1, <4>2 DEF Place, Room
    <3> QED
      BY <1>1, <1>2, <2>1, <3>1, <3>2, <3>3
  <2>5. StandsAt(buf, b, a)
    <3>1. i \in DOMAIN columns
      BY <1>2
    <3>2. \A j \in 1 .. w : buf[(9 + f) + (i - 1) * w + j] = ColumnBytes(columns[i])[j]
      BY <1>1, <3>1, Zenon
    <3>3. \A j \in 1 .. w : buf[a + j] = b[j]
      BY <2>1, <3>2, Zenon
    <3> QED
      BY <1>a, <2>3, <2>4, <3>3 DEF StandsAt
  <2>6. SubSeq(buf, a + 1, a + Len(b)) = b
    BY <1>a, <2>3, <2>4, <2>5, SliceIs DEF Slice
  <2>7. catalogEncodedLen(i - 1) = a
    BY <1>0, <1>2, <2>1 DEF catalogEncodedLen, HeaderLen
  <2>8. a + Len(b) = a + NameField + 3
    BY <1>0, <1>2, <2>3, <2>4
  <2> QED
    BY <2>1, <2>6, <2>7, <2>8 DEF ColumnIn
<1>12. ASSUME NEW i \in 1 .. n
       PROVE  ValidColumn(ColumnIn(buf, i)) /\ DecodedColumn(ColumnIn(buf, i)) = columns[i]
  <2>1. columns[i] \in Columns /\ Len(columns[i].name) \in 1 .. NameField
    BY <1>2, ElementOfSeq DEF Encodable
  <2> QED
    BY <1>11, <2>1, ColumnDecodes
<1>13. [i \in 1 .. n |-> DecodedColumn(ColumnIn(buf, i))] = columns
  <2>1. columns = [i \in 1 .. n |-> columns[i]]
    BY <1>2
  <2> QED
    BY <1>12, <2>1
<1>14. decodeCatalogRecord(buf) = [table |-> NameIn(SubSeq(buf, 9, 9 + f)),
                                   columns |-> [i \in 1 .. n |-> DecodedColumn(ColumnIn(buf, i))]]
  <2>1. Len(buf) >= catalogEncodedLen(n)
    BY <1>1, <1>2, <1>4
  <2> QED
    BY ZenonT(90), <1>0, <1>2, <1>3, <1>4, <1>5, <1>6, <1>9, <1>12, <2>1 DEF decodeCatalogRecord
<1> QED
  BY <1>0, <1>10, <1>13, <1>14

-----------------------------------------------------------------------------
(* The catalog: whole descriptors. *)

\* A whole descriptor of table k that some client saved starts at lo.
WholeIn(spans, lo, k) ==
    \E columns \in SavedColumns : \E hi \in Nat :
        /\ columns \in Seq(Columns) /\ Encodable(NameOf[k], columns)
        /\ [lo |-> lo, hi |-> hi, val |-> [payload |-> encodeCatalogRecord(NameOf[k], columns)]] \in spans

\* The calls of the workloads.
Made == UNION {Range(w[c]) : w \in Workloads, c \in Clients}

\* A save keeps the columns its application gave it.
SavesKnown ==
    \A c \in Clients :
        /\ Range(script[c]) \subseteq Made
        /\ Active(c) /\ Op(c) = "save" => proc[c].call \in Made /\ proc[c].todo = proc[c].call.data

\* What a call of the catalog store knows of the descriptor in its hands.
DescriptorOK(spans, p) ==
    /\ p.pc \in {"addPayload", "copyPayload"} => Encodable(NameOf[p.call.key], p.todo[1].value)
    /\ p.pc = "notifyPayload" => WholeIn(spans, p.at, p.call.key)
    /\ p.pc \in Binding /\ p.call.op = "save" => WholeIn(spans, p.off, p.call.key)
    /\ p.pc = "payload" => WholeIn(spans, p.off, p.call.key)

DescriptorsWhole ==
    /\ \A k \in Tables : index[k] # 0 => WholeIn(heap, index[k], k)
    /\ \A c \in Clients : DescriptorOK(heap, proc[c])

\* A client that is in a call has not answered yet.
Unanswered(p) == p.res \notin {"corrupt", "loaded"}
AnswersWhole ==
    \A c \in Clients :
        /\ Active(c) => Unanswered(proc[c])
        /\ Unanswered(proc[c]) \/ (proc[c].res = "loaded" /\ proc[c].value \in SavedColumns)

CatalogInv == SavesKnown /\ DescriptorsWhole /\ AnswersWhole

LEMMA WholeStays ==
    ASSUME NEW h, NEW g, h \subseteq g, NEW lo, NEW k, WholeIn(h, lo, k)
    PROVE  WholeIn(g, lo, k)
  BY DEF WholeIn

\* Every table's name fits its field.
NamesFit == \A k \in Tables : FitsField(NameOf[k])

\* load reads the one span that starts where the descriptor does.
LEMMA WholeReads ==
    ASSUME BytesApart, NamesFit, NEW lo, NEW k \in Tables, WholeIn(heap, lo, k)
    PROVE  \E columns \in SavedColumns :
              decodeCatalogRecord(PayloadAt(lo)) = [table |-> NameOf[k], columns |-> columns] /\ PayloadAt(lo) # <<>>
<1>1. PICK columns \in SavedColumns, hi \in Nat :
         /\ columns \in Seq(Columns) /\ Encodable(NameOf[k], columns)
         /\ [lo |-> lo, hi |-> hi, val |-> [payload |-> encodeCatalogRecord(NameOf[k], columns)]] \in heap
  BY DEF WholeIn
<1>2. PICK buf, s : /\ buf = encodeCatalogRecord(NameOf[k], columns)
                    /\ s = [lo |-> lo, hi |-> hi, val |-> [payload |-> buf]]
  OBVIOUS
<1>3. s \in heap /\ s.lo = lo /\ s.val.payload = buf
  BY <1>1, <1>2
<1>4. ASSUME NEW t \in heap, t.lo = lo PROVE t = s
  BY <1>3, <1>4 DEF BytesApart, InBytes
<1>5. PayloadAt(lo) = buf
  <2>1. (CHOOSE t \in heap : t.lo = lo) = s
    BY <1>3, <1>4
  <2> QED
    BY <1>3, <2>1, Zenon DEF PayloadAt
<1>6. NameOf[k] \in Seq(0 .. 255) /\ FitsField(NameOf[k])
  BY ClientAssumption DEF NamesFit
<1>7. decodeCatalogRecord(buf) = [table |-> NameOf[k], columns |-> columns]
  BY <1>1, <1>2, <1>6, CatalogRoundTrips
<1>8. buf # <<>>
  <2>1. Encodes(buf, NameOf[k], columns)
    BY <1>1, <1>2, <1>6, EncodedAt
  <2>2. Len(columns) * Width \in Nat /\ NameField \in Nat
    <3>1. Len(columns) \in Nat /\ Width \in Nat /\ NameField \in Nat
      BY <1>1, CatalogRecordAssumption DEF Width
    <3> QED
      BY <3>1
  <2>3. Len(buf) # 0
    <3>1. Len(buf) = 9 + NameField + Len(columns) * Width
      BY <2>1 DEF Encodes
    <3> QED
      BY <2>2, <3>1
  <2> QED
    BY <2>3
<1> QED
  BY <1>1, <1>5, <1>7, <1>8

\* Only load answers from a descriptor.
LEMMA StepAnswers ==
    ASSUME BaseInv, NEW c \in Clients, Step(c)
    PROVE  \/ Unanswered(proc'[c])
           \/ proc'[c].res = proc[c].res
           \/ ReadPayload(c)
<1>0. ProcTyped
  BY DEF BaseInv
<1>1. ASSUME NEW res, NEW value, Finish(c, res, value), res \notin {"corrupt", "loaded"}
      PROVE  Unanswered(proc'[c])
  BY <1>0, <1>1 DEF Finish, ProcTyped, Unanswered, Idle
<1>2. ASSUME NEW pc, Goto(c, pc) PROVE proc'[c].res = proc[c].res
  BY <1>0, <1>2 DEF Goto, ProcTyped, ProcFields
<1>3. Refusal(Op(c)) \notin {"corrupt", "loaded"}
  BY DEF Refusal
<1>4. CASE SeedRecord(c) \/ Admit(c) \/ AllocKey(c) \/ PushKey(c) \/ UniqueScan(c) \/ PushTimeout(c)
  BY <1>1, <1>2, <1>3, <1>4 DEF SeedRecord, Admit, AllocKey, PushKey, UniqueScan, PushTimeout
<1>5. CASE Bind(c) \/ FillDone(c) \/ FillInvalid(c) \/ SeedString(c) \/ Copy(c) \/ Notify(c) \/ SetOffset(c) \/ SetLength(c) \/ SetNumber(c)
  BY <1>1, <1>2, <1>5 DEF Bind, FillDone, FillInvalid, SeedString, Copy, Notify, SetOffset, SetLength, SetNumber
<1>6. CASE SaveInvalid(c) \/ SeedPayload(c) \/ CopyPayload(c) \/ Decode(c) \/ remove_index(c)
  BY <1>1, <1>2, <1>6 DEF SaveInvalid, SeedPayload, CopyPayload, Decode, remove_index
<1>7. CASE AddRecord(c)
  <2>1. Finish(c, "OutOfRecords", None) \/ proc' = [proc EXCEPT ![c].pc = "admit", ![c].off = recBump]
    BY <1>7, Zenon DEF AddRecord
  <2>2. CASE proc' = [proc EXCEPT ![c].pc = "admit", ![c].off = recBump]
    BY <1>0, <2>2 DEF ProcTyped, ProcFields
  <2> QED
    BY <1>1, <2>1, <2>2
<1>8. CASE AddString(c)
  <2> DEFINE n == ByteLength[Field(c).value]
  <2>1. Finish(c, "OutOfStrings", None) \/ proc' = [proc EXCEPT ![c].pc = "copy", ![c].at = strBump, ![c].len = n]
    BY <1>8, Zenon DEF AddString
  <2> HIDE DEF n
  <2>2. CASE proc' = [proc EXCEPT ![c].pc = "copy", ![c].at = strBump, ![c].len = n]
    BY <1>0, <2>2 DEF ProcTyped, ProcFields
  <2> QED
    BY <1>1, <2>1, <2>2
<1>9. CASE AddPayload(c)
  <2> DEFINE n == catalogEncodedLen(Len(Field(c).value))
  <2>1. Finish(c, "OutOfStrings", None) \/ proc' = [proc EXCEPT ![c].pc = "copyPayload", ![c].at = strBump, ![c].len = n]
    BY <1>9, Zenon DEF AddPayload
  <2> HIDE DEF n
  <2>2. CASE proc' = [proc EXCEPT ![c].pc = "copyPayload", ![c].at = strBump, ![c].len = n]
    BY <1>0, <2>2 DEF ProcTyped, ProcFields
  <2> QED
    BY <1>1, <2>1, <2>2
<1>10. CASE NotifyPayload(c) \/ PushField(c) \/ LoadOffset(c) \/ LoadLength(c)
  BY <1>0, <1>10 DEF NotifyPayload, PushField, LoadOffset, LoadLength, ProcTyped, ProcFields
<1>11. CASE Search(c)
  <2> DEFINE off == index[Key(c)]
             next == IF Op(c) = "find" THEN "loadOffset" ELSE "fill"
  <2>1. \/ Finish(c, "Error", None) \/ Finish(c, "null", None)
        \/ proc' = [proc EXCEPT ![c].pc = "seedRecord", ![c].value = "created"]
        \/ proc' = [proc EXCEPT ![c].pc = "payload", ![c].off = off]
        \/ proc' = [proc EXCEPT ![c].off = off, ![c].pc = next]
    BY <1>11 DEF Search
  <2> HIDE DEF off, next
  <2>2. CASE proc' = [proc EXCEPT ![c].pc = "seedRecord", ![c].value = "created"]
    BY <1>0, <2>2 DEF ProcTyped, ProcFields
  <2>3. CASE proc' = [proc EXCEPT ![c].pc = "payload", ![c].off = off]
    BY <1>0, <2>3 DEF ProcTyped, ProcFields
  <2>4. CASE proc' = [proc EXCEPT ![c].off = off, ![c].pc = next]
    BY <1>0, <2>4 DEF ProcTyped, ProcFields
  <2> QED
    BY <1>1, <2>1, <2>2, <2>3, <2>4
<1> QED
  BY <1>4, <1>5, <1>6, <1>7, <1>8, <1>9, <1>10, <1>11
     DEF Step, DeleteKey, unmirrorPk, RemoveEntry

\* What load takes up is what the index says.
LEMMA SearchPayload ==
    ASSUME BaseInv, NEW c \in Clients, Search(c), proc'[c].pc = "payload"
    PROVE  /\ proc'[c].call = proc[c].call /\ proc'[c].off = index[Key(c)] /\ index[Key(c)] # 0
           /\ Key(c) \in Tables
<1> DEFINE off == index[Key(c)]
           next == IF Op(c) = "find" THEN "loadOffset" ELSE "fill"
<1>0. ProcTyped
  BY DEF BaseInv
<1>1. \/ \E res \in {"Error", "null"} : Finish(c, res, None)
      \/ proc' = [proc EXCEPT ![c].pc = "seedRecord", ![c].value = "created"]
      \/ Op(c) = "load" /\ off # 0 /\ proc' = [proc EXCEPT ![c].pc = "payload", ![c].off = off]
      \/ proc' = [proc EXCEPT ![c].off = off, ![c].pc = next]
  BY DEF Search
<1>2. next \in {"loadOffset", "fill"}
  OBVIOUS
<1> HIDE DEF off, next
<1>3. ASSUME NEW res, Finish(c, res, None) PROVE FALSE
  BY <1>0, <1>3, FinishReturns DEF Returns
<1>4. proc' # [proc EXCEPT ![c].pc = "seedRecord", ![c].value = "created"]
  BY <1>0 DEF ProcTyped, ProcFields
<1>5. proc' # [proc EXCEPT ![c].off = off, ![c].pc = next]
  BY <1>0, <1>2 DEF ProcTyped, ProcFields
<1>6. Op(c) = "load" /\ off # 0 /\ proc' = [proc EXCEPT ![c].pc = "payload", ![c].off = off]
  BY <1>1, <1>3, <1>4, <1>5
<1>7. proc'[c].call = proc[c].call /\ proc'[c].off = off
  BY <1>0, <1>6 DEF ProcTyped, ProcFields
<1>8. proc[c].call \in Calls /\ proc[c].call.key \notin InvalidKeys
  <2>1. Step(c)
    BY DEF Step
  <2> QED
    BY <2>1, StepProceeds DEF BaseInv, CallOK
<1>9. Key(c) \in Tables
  BY <1>6, <1>8, TableKeys DEF Op, Key
<1> QED
  BY <1>6, <1>7, <1>9 DEF off

\* The columns a save writes are those of one of the workloads' calls.
LEMMA SavesSaved ==
    ASSUME BaseInv, SavesKnown, NEW c \in Clients, Active(c), Op(c) = "save"
    PROVE  /\ Key(c) \in Tables /\ Field(c).value \in SavedColumns
           /\ Field(c).value \in Seq(Columns)
<1>1. CallOK(proc[c])
  BY DEF BaseInv, ProcTyped, Active
<1>2. proc[c].call \in Calls /\ proc[c].call.key \notin InvalidKeys /\ proc[c].todo \in [1 .. 1 -> Descriptors]
  BY <1>1 DEF CallOK, Op
<1>3. Key(c) \in Tables
  BY <1>2, CallFacts DEF Key, Op
<1>4. proc[c].todo[1] \in Descriptors
  BY <1>2
<1>5. Field(c).value \in Seq(Columns)
  BY <1>4 DEF Descriptors, Columns, Field
<1>6. proc[c].call \in Made /\ proc[c].todo = proc[c].call.data
  BY DEF SavesKnown
<1>7. proc[c].call.data[1].value \in SavedColumns
  BY <1>6 DEF SavedColumns, Made, Op
<1> QED
  BY <1>3, <1>5, <1>6, <1>7 DEF Field

LEMMA StepDescriptors ==
    ASSUME BaseInv, heap \subseteq heap', SavesKnown, DescriptorsWhole, NEW c \in Clients, Step(c)
    PROVE  DescriptorsWhole'
<1>1. proc[c].call # None /\ CallOK(proc[c]) /\ Active(c)
  BY StepProceeds DEF BaseInv, Active
<1>2. OpAt(proc[c].pc, Op(c)) /\ proc[c].call \in Calls /\ proc[c].call.key \notin InvalidKeys
  BY <1>1 DEF CallOK, Op
<1>3. ASSUME NEW d \in Clients PROVE DescriptorOK(heap', proc[d])
  BY WholeStays DEF DescriptorsWhole, DescriptorOK
<1>4. ASSUME NEW k \in Tables, index[k] # 0 PROVE WholeIn(heap', index[k], k)
  BY <1>4, WholeStays DEF DescriptorsWhole
<1>5. DescriptorOK(heap', proc'[c])
  <2> USE DEF Binding
  <2>1. CASE ~Holding(proc'[c])
    <3>1. proc'[c].pc \notin Binding \cup {"addPayload", "copyPayload", "notifyPayload"}
      BY <2>1 DEF Holding, SavingPayload
    <3>2. CASE proc'[c].pc = "payload"
      <4>1. Search(c)
        BY <3>2, StepMoves DEF Returns
      <4>2. /\ proc'[c].call = proc[c].call /\ proc'[c].off = index[Key(c)] /\ index[Key(c)] # 0
            /\ Key(c) \in Tables
        BY <3>2, <4>1, SearchPayload
      <4>3. WholeIn(heap', proc'[c].off, proc'[c].call.key)
        BY <1>4, <4>2 DEF Key
      <4> QED
        BY <3>2, <4>3 DEF DescriptorOK
    <3> QED
      BY <3>1, <3>2 DEF DescriptorOK
  <2>2. CASE AddRecord(c) /\ proc'[c].pc = "admit" /\ proc'[c].call = proc[c].call
    <3>1. Op(c) # "save"
      BY <1>2, <2>2 DEF AddRecord, OpAt, Allocating, Storing, Saving, Reading, Pointing, SavingPayload
    <3> QED
      BY <2>2, <3>1 DEF DescriptorOK, Op
  <2>3. CASE proc[c].pc \in Binding \cup {"scan"} /\ proc'[c].pc \in Binding /\ Keeps(c)
    <3>1. Op(c) = "save" => proc[c].pc \in Binding
      BY <1>2, <2>3 DEF OpAt, Allocating, Storing, Saving, Reading, Pointing, SavingPayload
    <3>2. Op(c) = "save" => WholeIn(heap', proc[c].off, proc[c].call.key)
      BY <1>3, <3>1 DEF DescriptorOK, Op
    <3> QED
      BY <2>3, <3>2 DEF DescriptorOK, Keeps, Op
  <2>4. CASE SeedPayload(c) /\ proc'[c].pc = "addPayload" /\ Keeps(c)
    BY <2>4 DEF SeedPayload, DescriptorOK, Keeps, Key, Field
  <2>5. CASE /\ AddPayload(c) /\ proc'[c].pc = "copyPayload" /\ proc'[c].call = proc[c].call
             /\ proc'[c].todo = proc[c].todo
    BY <1>3, <2>5 DEF AddPayload, DescriptorOK
  <2>6. CASE CopyPayload(c) /\ proc'[c].pc = "notifyPayload" /\ Keeps(c)
    <3> DEFINE columns == Field(c).value
               at == proc[c].at
               n == proc[c].len
               v == [payload |-> encodeCatalogRecord(NameOf[Key(c)], columns)]
    <3>1. proc[c].pc = "copyPayload" /\ heap' = Written(at, n, v)
      BY <2>6 DEF CopyPayload
    <3>2. Op(c) = "save" /\ at \in Nat /\ n \in Nat
      BY <1>1, <1>2, <3>1 DEF CallOK, OpAt, Allocating, Storing, Saving, Reading, Pointing, SavingPayload
    <3>3. columns \in SavedColumns /\ columns \in Seq(Columns)
      BY <1>1, <3>2, SavesSaved
    <3>4. Encodable(NameOf[Key(c)], columns)
      BY <1>3, <3>1 DEF DescriptorOK, Key, Field
    <3>5. [lo |-> at, hi |-> at + n, val |-> v] \in heap'
      BY <3>1 DEF Written
    <3>6. at + n \in Nat
      BY <3>2
    <3>7. WholeIn(heap', at, Key(c))
      <4> HIDE DEF columns, at, n
      <4> QED
        BY <3>3, <3>4, <3>5, <3>6 DEF WholeIn
    <3> QED
      BY <2>6, <3>7 DEF DescriptorOK, Keeps, Key
  <2>7. CASE NotifyPayload(c) /\ proc'[c].pc = "admit" /\ proc'[c].call = proc[c].call /\ proc'[c].off = proc[c].at
    <3>1. WholeIn(heap', proc[c].at, proc[c].call.key)
      BY <1>3, <2>7 DEF NotifyPayload, DescriptorOK
    <3> QED
      BY <2>7, <3>1 DEF DescriptorOK
  <2>8. CASE proc'[c].pc \in {"setOffset", "setLength", "pushField"}
    BY <2>8 DEF DescriptorOK
  <2> QED
    BY <2>1, <2>2, <2>3, <2>4, <2>5, <2>6, <2>7, <2>8, Acquires
<1>6. \A d \in Clients : DescriptorOK(heap', proc'[d])
  BY <1>3, <1>5, OthersStay
<1>7. ASSUME NEW k \in Tables, index'[k] # 0 PROVE WholeIn(heap', index'[k], k)
  <2>1. index \in [IndexKeys -> Nat] /\ k \in IndexKeys
    BY DEF BaseInv, TypeOK, IndexKeys
  <2>2. CASE index' = index
    BY <1>4, <1>7, <2>2
  <2>3. CASE index' = [index EXCEPT ![Key(c)] = 0]
    <3>1. k # Key(c)
      BY <1>7, <2>1, <2>3
    <3> QED
      BY <1>4, <1>7, <2>1, <2>3, <3>1
  <2>4. CASE index' = [index EXCEPT ![Key(c)] = proc[c].off] /\ Bind(c)
    <3>1. CASE k # Key(c)
      BY <1>4, <1>7, <2>1, <2>4, <3>1
    <3>2. CASE k = Key(c)
      <4>1. proc[c].pc = "bind"
        BY <2>4 DEF Bind
      <4>2. Op(c) = "save"
        BY <1>2, <3>2, <4>1, TableKeys
           DEF OpAt, Allocating, Binding, Storing, Saving, Reading, Pointing, SavingPayload, Key, Op
      <4>3. WholeIn(heap', proc[c].off, Key(c))
        BY <1>3, <4>1, <4>2 DEF DescriptorOK, Binding, Op, Key
      <4> QED
        BY <2>1, <2>4, <3>2, <4>3
    <3> QED
      BY <3>1, <3>2
  <2> QED
    BY <2>2, <2>3, <2>4, StepFrame DEF Bind, remove_index
<1> QED
  BY <1>6, <1>7 DEF DescriptorsWhole

LEMMA SameCall ==
    ASSUME BaseInv, NEW c \in Clients, Step(c), proc'[c].call # None
    PROVE  proc'[c].call = proc[c].call
  BY StepProceeds DEF BaseInv, Proceeds, Moves, Returns

LEMMA SaveMoves ==
    ASSUME BaseInv, NEW c \in Clients, AddPayload(c) \/ NotifyPayload(c)
    PROVE  Returns(c) \/ proc'[c].todo = proc[c].todo
<1>0. ProcTyped
  BY DEF BaseInv
<1>1. CASE NotifyPayload(c)
  BY <1>0, <1>1 DEF NotifyPayload, ProcTyped, ProcFields
<1>2. CASE AddPayload(c)
  <2> DEFINE n == catalogEncodedLen(Len(Field(c).value))
  <2>1. Finish(c, "OutOfStrings", None) \/ proc' = [proc EXCEPT ![c].pc = "copyPayload", ![c].at = strBump, ![c].len = n]
    BY <1>2, Zenon DEF AddPayload
  <2> HIDE DEF n
  <2>2. CASE proc' = [proc EXCEPT ![c].pc = "copyPayload", ![c].at = strBump, ![c].len = n]
    BY <1>0, <2>2 DEF ProcTyped, ProcFields
  <2> QED
    BY <1>0, <2>1, <2>2, FinishReturns
<1> QED
  BY <1>1, <1>2

LEMMA StepSaves ==
    ASSUME BaseInv, SavesKnown, NEW c \in Clients, Step(c)
    PROVE  SavesKnown'
<1>1. proc[c].call # None /\ CallOK(proc[c]) /\ script' = script /\ Active(c)
  BY StepProceeds DEF BaseInv, Active
<1>2. OpAt(proc[c].pc, Op(c))
  BY <1>1 DEF CallOK, Op
<1>3. proc'[c].call # None /\ Op(c) = "save" => proc'[c].call = proc[c].call /\ proc'[c].todo = proc[c].todo
  <2>1. CASE Returns(c)
    BY <2>1 DEF Returns
  <2>2. CASE Keeps(c)
    BY <2>2 DEF Keeps
  <2>3. CASE Op(c) = "save"
    <3>1. proc[c].pc \in Binding \cup Saving
      BY <1>2, <2>3 DEF OpAt, Allocating, Storing, Reading, Pointing
    <3>2. ~(AddRecord(c) \/ AddString(c) \/ PushField(c) \/ Search(c) \/ LoadOffset(c) \/ LoadLength(c))
      BY <3>1 DEF AddRecord, AddString, PushField, Search, LoadOffset, LoadLength, Binding, Saving, SavingPayload
    <3>3. CASE AddPayload(c) \/ NotifyPayload(c)
      <4>1. proc'[c].todo = proc[c].todo \/ Returns(c)
        BY <3>3, SaveMoves
      <4> QED
        BY <2>1, <4>1, SameCall
    <3> QED
      BY <2>1, <2>2, <3>2, <3>3, StepMoves
  <2> QED
    BY <2>3
<1>4. ASSUME NEW d \in Clients, Active(d)', Op(d)' = "save"
      PROVE  proc'[d].call \in Made /\ proc'[d].todo = proc'[d].call.data
  <2>1. CASE d # c
    <3>1. proc'[d] = proc[d]
      BY <2>1, OthersStay
    <3> QED
      BY <1>4, <3>1 DEF SavesKnown, Active, Op
  <2>2. CASE d = c
    <3>1. Op(c) = "save" /\ proc'[c].call # None
      BY <1>4, <2>2, SameCall DEF Active, Op
    <3> QED
      BY <1>1, <1>3, <2>2, <3>1 DEF SavesKnown
  <2> QED
    BY <2>1, <2>2
<1> QED
  BY <1>1, <1>4 DEF SavesKnown

LEMMA StepAnswersWhole ==
    ASSUME BaseInv, NamesFit, BytesApart, DescriptorsWhole, AnswersWhole, NEW c \in Clients, Step(c)
    PROVE  AnswersWhole'
<1>1. Active(c) /\ CallOK(proc[c]) /\ ProcTyped
  BY StepProceeds DEF BaseInv, Active
<1>2. Unanswered(proc[c])
  BY <1>1 DEF AnswersWhole
<1>3. CASE ReadPayload(c)
  <2>1. proc[c].pc = "payload" /\ proc[c].call \in Calls /\ proc[c].call.key \notin InvalidKeys /\ OpAt(proc[c].pc, Op(c))
    BY <1>1, <1>3 DEF ReadPayload, CallOK, Op
  <2>2. Op(c) = "load"
    BY <2>1 DEF OpAt, Allocating, Binding, Storing, Saving, Reading, Pointing, SavingPayload
  <2>3. Key(c) \in Tables
    BY <2>1, <2>2, TableKeys DEF Op, Key
  <2>4. WholeIn(heap, proc[c].off, Key(c))
    BY <2>1 DEF DescriptorsWhole, DescriptorOK, Key
  <2>5. PICK buf, columns : /\ buf = PayloadAt(proc[c].off) /\ buf # <<>> /\ columns \in SavedColumns
                            /\ decodeCatalogRecord(buf) = [table |-> NameOf[Key(c)], columns |-> columns]
    BY <2>3, <2>4, WholeReads
  <2>6. PICK dec : dec = decodeCatalogRecord(buf)
    OBVIOUS
  <2>7. dec # Corrupt /\ dec.table = NameOf[Key(c)] /\ dec.columns = columns
    <3>1. DOMAIN dec = {"table", "columns"} /\ DOMAIN Corrupt = {"corrupt"}
      BY <2>5, <2>6 DEF Corrupt
    <3> QED
      BY <2>5, <2>6, <3>1
  <2>8. Finish(c, "loaded", columns)
    BY <1>3, <2>5, <2>6, <2>7 DEF ReadPayload
  <2>9. proc'[c].res = "loaded" /\ proc'[c].value = columns /\ proc'[c].call = None
    BY <1>1, <2>8 DEF Finish, ProcTyped, Idle
  <2> QED
    BY <2>5, <2>9, OthersStay DEF AnswersWhole, Active
<1>4. CASE Unanswered(proc'[c])
  BY <1>4, OthersStay DEF AnswersWhole, Active
<1> QED
  BY <1>2, <1>3, <1>4, StepAnswers DEF Unanswered

LEMMA HeadTailRange ==
    ASSUME NEW s \in Seq(Calls), s # <<>>
    PROVE  Head(s) \in Range(s) /\ Range(Tail(s)) \subseteq Range(s)
<1>1. 1 \in DOMAIN s /\ Head(s) = s[1]
  OBVIOUS
<1>2. \A i \in DOMAIN Tail(s) : i + 1 \in DOMAIN s /\ Tail(s)[i] = s[i + 1]
  OBVIOUS
<1> QED
  BY <1>1, <1>2 DEF Range

LEMMA CallCatalog ==
    ASSUME BaseInv, CatalogInv, NEW c \in Clients, Call(c)
    PROVE  CatalogInv'
<1> DEFINE call == Head(script[c])
<1>1. /\ proc[c].pc = "idle" /\ script[c] # <<>> /\ script' = [script EXCEPT ![c] = Tail(@)]
      /\ script[c] \in Seq(Calls) /\ DOMAIN script = Clients
      /\ index' = index /\ heap' = heap
  BY DEF Call, mem, BaseInv, ProcTyped
<1>2. call \in Range(script[c]) /\ Range(Tail(script[c])) \subseteq Range(script[c])
  BY <1>1, HeadTailRange
<1>a. call \in Calls
  BY <1>1
<1>3. call \in Made /\ \A d \in Clients : Range(script'[d]) \subseteq Made
  BY <1>1, <1>2 DEF CatalogInv, SavesKnown
<1> HIDE DEF call
<1>4. \/ \E res \in {"null", "KeyError"} : Finish(c, res, None)
      \/ \E off \in IF call.op \in {"mirror", "add"} THEN KnownOffsets ELSE {0} :
            proc' = [proc EXCEPT ![c] = [Idle EXCEPT !.pc = FirstStep(call), !.call = call,
                                                     !.off = off, !.todo = call.data]]
  BY DEF Call, call
<1>5. /\ Active(c)' /\ Op(c)' = "save" => proc'[c].call \in Made /\ proc'[c].todo = proc'[c].call.data
      /\ DescriptorOK(heap, proc'[c]) /\ Unanswered(proc'[c])
  <2>1. CASE \E res \in {"null", "KeyError"} : Finish(c, res, None)
    BY <2>1 DEF Finish, BaseInv, ProcTyped, Idle, Active, DescriptorOK, Unanswered, Binding
  <2>2. ASSUME NEW off, proc' = [proc EXCEPT ![c] = [Idle EXCEPT !.pc = FirstStep(call), !.call = call,
                                                                 !.off = off, !.todo = call.data]]
        PROVE  /\ proc'[c].call = call /\ proc'[c].todo = call.data /\ proc'[c].pc = FirstStep(call)
               /\ proc'[c].res = "none"
    BY <2>2 DEF BaseInv, ProcTyped, Idle
  <2>3. ASSUME proc'[c].call = call, proc'[c].todo = call.data, proc'[c].pc = FirstStep(call), proc'[c].res = "none"
        PROVE  /\ Active(c)' /\ Op(c)' = "save" => proc'[c].call \in Made /\ proc'[c].todo = proc'[c].call.data
               /\ DescriptorOK(heap, proc'[c]) /\ Unanswered(proc'[c])
    <3>1. call.op \in {"insert", "upsert", "update", "find", "delete", "save", "load",
                       "mirror", "unmirror", "add", "remove"}
      <4>1. call # None
        BY <1>a, WorkloadAssumption
      <4>2. call.key \notin InvalidKeys
        BY <2>3, <4>1, CallShape DEF Returns, CallOK, call
      <4> QED
        BY <1>a, <4>2, CallFacts
    <3>2. /\ FirstStep(call) \notin {"addPayload", "copyPayload", "notifyPayload", "payload"}
          /\ FirstStep(call) \in Binding => call.op # "save"
      BY <3>1 DEF FirstStep, Binding
    <3> QED
      BY <1>3, <2>3, <3>2 DEF DescriptorOK, Unanswered
  <2> QED
    BY <1>4, <2>1, <2>2, <2>3
<1>6. \A d \in Clients : d # c => proc'[d] = proc[d]
  BY OthersStay
<1>7. SavesKnown'
  BY <1>3, <1>5, <1>6 DEF CatalogInv, SavesKnown, Active, Op
<1>8. DescriptorsWhole'
  BY <1>1, <1>5, <1>6 DEF CatalogInv, DescriptorsWhole
<1>9. AnswersWhole'
  BY <1>5, <1>6 DEF CatalogInv, AnswersWhole, Active
<1> QED
  BY <1>7, <1>8, <1>9 DEF CatalogInv

LEMMA NextCatalog ==
    ASSUME NamesFit
    PROVE  BaseInv /\ RowsInvariant /\ CatalogInv /\ [Next]_vars => CatalogInv'
<1> SUFFICES ASSUME BaseInv, RowsInvariant, CatalogInv, [Next]_vars PROVE CatalogInv'
  OBVIOUS
<1>1. CASE UNCHANGED <<proc, script, index, heap>>
  BY <1>1 DEF CatalogInv, SavesKnown, DescriptorsWhole, AnswersWhole, Active, Op
<1>2. ASSUME NEW c \in Clients, Connect(c) PROVE CatalogInv'
  <2>1. UNCHANGED <<script, index, heap>> /\ proc[c].pc = "unmapped"
    BY <1>2 DEF Connect, mem
  <2>2. /\ proc'[c].pc \in {"idle", "refused"} /\ proc'[c].call = proc[c].call /\ proc[c].call = None
        /\ proc'[c].res = proc[c].res /\ proc'[c].value = proc[c].value
    <3>1. proc[c].call = None
      BY <2>1 DEF BaseInv, ProcTyped, CallOK, OpAt, Allocating, Binding, Storing, Saving, Reading, Pointing, SavingPayload
    <3> QED
      BY <1>2, <3>1 DEF Connect, Goto, BaseInv, ProcTyped, ProcFields
  <2>3. \A d \in Clients : d # c => proc'[d] = proc[d]
    BY <1>2, OthersStay
  <2>4. DescriptorOK(heap, proc'[c])
    BY <2>2 DEF DescriptorOK, Binding
  <2>5. SavesKnown'
    BY <2>1, <2>2, <2>3 DEF CatalogInv, SavesKnown, Active, Op
  <2>6. DescriptorsWhole'
    BY <2>1, <2>3, <2>4 DEF CatalogInv, DescriptorsWhole
  <2>7. AnswersWhole'
    BY <2>2, <2>3 DEF CatalogInv, AnswersWhole, Active, Unanswered
  <2> QED
    BY <2>5, <2>6, <2>7 DEF CatalogInv
<1>3. ASSUME NEW c \in Clients, Step(c) PROVE CatalogInv'
  <2>1. Accepted
    BY <1>3, StepConnected DEF BaseInv
  <2>2. heap \subseteq heap'
    BY <1>3, <2>1, StepCopied DEF RowsInvariant, RowInv
  <2> QED
    BY <1>3, <2>2, StepDescriptors, StepSaves, StepAnswersWhole DEF CatalogInv, RowsInvariant, RowInv
<1>4. Drain \/ UNCHANGED vars => UNCHANGED <<proc, script, index, heap>>
  BY DEF Drain, vars, mem
<1> QED
  BY <1>1, <1>2, <1>3, <1>4, CallCatalog DEF Next

\* Init, and Call, take their calls from the workloads.
LEMMA InitCatalog == Init => CatalogInv
<1> SUFFICES ASSUME Init PROVE CatalogInv
  OBVIOUS
<1>1. \A c \in Clients : /\ proc[c].pc = "unmapped" /\ ~Active(c) /\ proc[c].res = "none"
  BY DEF Init, Idle, Active
<1>2. \A k \in Tables : k \in IndexKeys /\ index[k] = 0
  BY DEF Init, IndexKeys
<1>3. SavesKnown
  BY <1>1 DEF SavesKnown, Made, Init
<1>4. DescriptorsWhole
  BY <1>1, <1>2 DEF DescriptorsWhole, DescriptorOK, Binding
<1> QED
  BY <1>1, <1>3, <1>4 DEF CatalogInv, AnswersWhole, Unanswered

\* load (CatalogRecordStore) never meets a half-written or foreign descriptor,
\* even while other clients save the same table, and answers column for column
\* and flag for flag what some client saved, if the bytes of every table's name
\* fit its field.  The code does not ask for that (run client_comments).
THEOREM CatalogLoads ==
    ASSUME NamesFit
    PROVE  Spec /\ [][BumpsForward]_vars => []CatalogLoadsWhole
<1>1. CatalogInv => CatalogLoadsWhole
  BY DEF CatalogInv, AnswersWhole, CatalogLoadsWhole, Unanswered
<1> QED
  BY <1>1, InitCatalog, NextCatalog, InitInvariant, NextInvariant, BaseInvariant, PTL DEF Spec

=============================================================================
