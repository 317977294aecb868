---------------------------- MODULE ClientProofs ----------------------------
(* Invariants of the SDK clients, and their proofs.                        *)
EXTENDS Client, NativeIndexProofs

-----------------------------------------------------------------------------
(* Arithmetic and the layout. *)

\* A bump word wraps at 2^32, and not before.
LEMMA ModFacts ==
    ASSUME NEW w \in Nat \ {0}, NEW n \in Nat
    PROVE  n % w \in 0 .. w - 1 /\ (n < w => n % w = n)
<1>1. w > 0 /\ n \div w \in Nat /\ n % w \in 0 .. w - 1 /\ n = w * (n \div w) + (n % w)
  OBVIOUS
<1>2. ASSUME n < w PROVE n % w = n
  <2>1. CASE n \div w = 0
    BY <1>1, <2>1
  <2>2. CASE n \div w >= 1
    <3>1. w * (n \div w) >= w
      BY <1>1, <2>2
    <3> QED
      BY <1>1, <1>2, <3>1
  <2> QED
    BY <1>1, <2>1, <2>2
<1> QED
  BY <1>1, <1>2

\* alignUp answers the next multiple of Unit.
LEMMA AlignFacts ==
    ASSUME NEW n \in Nat
    PROVE  alignUp(n, Unit) \in Nat /\ alignUp(n, Unit) >= n
  BY DEF alignUp, Unit

\* A row is a word, its padding, and a fat pointer.
LEMMA StrideValue == Stride = 16
<1> DEFINE types == <<"uint32", "string">>
           H(f) == [i \in 1 .. Len(types) |->
                      IF i = 1 THEN 0
                      ELSE alignUp(f[i - 1] + fieldSize(types[i - 1]), fieldAlign(types[i]))]
           w == [i \in 1 .. 2 |-> IF i = 1 THEN 0 ELSE 8]
<1>1. Len(types) = 2 /\ types[1] = "uint32" /\ types[2] = "string"
  OBVIOUS
<1>2. fieldSize("uint32") = 4 /\ fieldSize("string") = 8 /\ fieldAlign("string") = 8
  BY DEF fieldSize, fieldAlign
<1>3. alignUp(0 + 4, 8) = 8 /\ alignUp(8 + 8, Unit) = 16
  BY DEF alignUp, Unit
<1>4. w = H(w)
  BY <1>1, <1>2, <1>3
<1> HIDE DEF H, w
<1>5. fieldOffset(types) = H(fieldOffset(types))
  BY <1>4 DEF fieldOffset, H
<1>6. fieldOffset(types)[1] = 0
  BY <1>1, <1>5 DEF H
<1>7. fieldOffset(types)[2] = 8
  BY <1>1, <1>2, <1>3, <1>5, <1>6 DEF H
<1> QED
  BY <1>1, <1>2, <1>3, <1>7 DEF Stride, totalSize

-----------------------------------------------------------------------------
(* The checks of the constructor. *)

\* What a client that is past its constructor knows of the segment.
Accepted == readRegions(seg) /\ validateRegions(R, seg.mapped)

\* The regions in the order they are laid out.
LEMMA LayoutFacts ==
    ASSUME seg \in Segments, Accepted
    PROVE  /\ R.recordStart \in Nat /\ R.recordBytes \in Nat /\ R.artRoot \in Nat /\ R.artBytes \in Nat
           /\ R.stringStart \in Nat /\ R.stringBytes \in Nat /\ seg.mapped \in Nat
           /\ recordBumpOffset(R) \in Nat /\ HeaderBytes <= RingOffset
           /\ RingOffset <= recordBumpOffset(R) /\ recordBumpOffset(R) + 8 <= R.recordStart
           /\ recordEnd(R) <= R.artRoot /\ R.artRoot + R.artBytes <= R.stringStart
           /\ stringDataStart(R) <= stringEnd(R) /\ stringEnd(R) <= seg.mapped /\ seg.mapped < Word
<1>1. R \in Regions /\ seg.mapped \in 0 .. Word - 1
  BY SegmentAssumption DEF R
<1> DEFINE r == R
<1>2. /\ r.ringCapacity \in Nat /\ r.recordStart \in Nat /\ r.recordBytes \in Nat
      /\ r.artRoot \in Nat /\ r.artBytes \in Nat /\ r.stringStart \in Nat /\ r.stringBytes \in Nat
  BY <1>1 DEF Regions
<1>3. r.ringCapacity * SlotBytes \in Nat
  BY <1>2, LayoutAssumption
<1>4. recordBumpOffset(r) \in Nat /\ RingOffset <= recordBumpOffset(r)
  BY <1>3, LayoutAssumption DEF recordBumpOffset, ringBytes
<1> HIDE DEF r
<1>5. validateRegions(r, seg.mapped)
  BY DEF Accepted, r
<1>6. /\ recordBumpOffset(r) + 8 <= r.recordStart
      /\ recordEnd(r) <= r.artRoot /\ r.artRoot + r.artBytes <= r.stringStart
      /\ r.stringBytes >= 8 /\ stringEnd(r) <= seg.mapped
  BY <1>2, <1>4, <1>5 DEF validateRegions
<1>7. stringDataStart(r) <= stringEnd(r)
  BY <1>2, <1>6 DEF stringDataStart, stringEnd
<1> QED
  BY <1>1, <1>2, <1>4, <1>6, <1>7, ClientAssumption, LayoutAssumption DEF r

\* The conclusion of ConnectedLayoutIsSound.
LEMMA AcceptedIsSound ==
    ASSUME seg \in Segments, Accepted
    PROVE  LET S == Spans(R)
           IN  /\ \A i, j \in 1 .. Len(S) : i # j => Apart(S[i], S[j])
               /\ \A i \in 1 .. Len(S) : HeaderBytes <= S[i].lo /\ S[i].hi <= seg.mapped
               /\ seg.version >= SpokenVersion
<1> DEFINE S == Spans(R)
<1>1. /\ Len(S) = 6
      /\ S[1].lo = RingOffset         /\ S[1].hi = recordBumpOffset(R)
      /\ S[2].lo = R.recordStart - 8  /\ S[2].hi = R.recordStart
      /\ S[3].lo = R.recordStart      /\ S[3].hi = recordEnd(R)
      /\ S[4].lo = R.artRoot          /\ S[4].hi = R.artRoot + R.artBytes
      /\ S[5].lo = R.stringStart      /\ S[5].hi = stringDataStart(R)
      /\ S[6].lo = stringDataStart(R) /\ S[6].hi = stringEnd(R)
  BY DEF Spans
<1>2. \A i \in 1 .. 6 : i = 1 \/ i = 2 \/ i = 3 \/ i = 4 \/ i = 5 \/ i = 6
  OBVIOUS
<1> HIDE DEF S
<1>3. \A i \in 1 .. 6 : S[i].lo \in Nat /\ S[i].hi \in Nat /\ S[i].lo <= S[i].hi
  BY <1>1, <1>2, LayoutFacts, LayoutAssumption DEF recordEnd, stringDataStart, stringEnd
<1>4. /\ S[1].hi <= S[2].lo /\ S[2].hi <= S[3].lo /\ S[3].hi <= S[4].lo
      /\ S[4].hi <= S[5].lo /\ S[5].hi <= S[6].lo
      /\ HeaderBytes <= S[1].lo /\ S[6].hi <= seg.mapped
  BY <1>1, LayoutFacts, LayoutAssumption DEF stringDataStart
<1>5. \A i, j \in 1 .. 6 : i < j => S[i].hi <= S[j].lo
  BY <1>2, <1>3, <1>4
<1>6. \A i \in 1 .. 6 : HeaderBytes <= S[i].lo /\ S[i].hi <= seg.mapped
  BY <1>2, <1>3, <1>4, LayoutFacts, LayoutAssumption
<1>7. \A i, j \in 1 .. 6 : i # j => Apart(S[i], S[j])
  BY <1>5 DEF Apart
<1>8. seg.version >= SpokenVersion
  BY DEF Accepted, readRegions
<1> QED
  BY <1>1, <1>6, <1>7, <1>8 DEF S

-----------------------------------------------------------------------------
(* The inductive invariant. *)

Allocating == {"seedRecord", "addRecord"}
Binding == {"admit", "allocKey", "pushKey", "bind"}
Pointing == {"copy", "notify", "setOffset", "setLength"}
Storing == {"fill", "addString", "pushField"} \cup Pointing
SavingPayload == {"copyPayload", "notifyPayload"}
Saving == {"encode", "addPayload"} \cup SavingPayload
Reading == {"loadOffset", "loadLength", "decode"}
Outside == {"unmapped", "refused", "idle"}

ProcFields == {"pc", "call", "off", "at", "len", "todo", "res", "value"}

\* Which calls can be at which step.
OpAt(pc, op) ==
    \/ pc \in Allocating /\ op \in {"insert", "upsert"}
    \/ pc \in Binding /\ op \in {"insert", "upsert", "save", "add", "mirror"}
    \/ pc \in Storing /\ op \in {"insert", "upsert", "update"}
    \/ pc \in Saving /\ op = "save"
    \/ pc = "search" /\ op \in {"find", "update", "upsert", "load"}
    \/ pc \in Reading /\ op = "find"
    \/ pc = "payload" /\ op = "load"
    \/ pc = "remove" /\ op \in {"delete", "remove", "unmirror"}
    \/ pc = "scan" /\ op = "add"

\* The client writes the fat pointer <<p.at, p.len>>.
StringField(p) == p.pc = "pushField" /\ p.todo[1].field = "str"

\* What a call in progress has established about its own arguments.
CallOK(p) ==
    /\ p.call \in Calls /\ p.call.key \notin InvalidKeys
    /\ OpAt(p.pc, p.call.op)
    /\ p.pc \in (Binding \ {"admit"}) \cup Storing => p.call.key \notin OverlongKeys
    /\ p.off \in Nat
    /\ p.todo \in IF p.call.op = "save" THEN [1 .. 1 -> Descriptors] ELSE Seq(Assignments)
    /\ p.pc \in {"addString"} \cup Pointing =>
          p.todo # <<>> /\ p.todo[1].field = "str" /\ p.todo[1].value \in Strings
    /\ p.pc = "pushField" => p.todo # <<>> /\ (p.todo[1].field = "num" => p.todo[1].value \in Numbers)
    /\ p.pc \in Pointing \cup SavingPayload \/ StringField(p) => p.at \in Nat /\ p.len \in Nat

ProcTyped ==
    /\ DOMAIN proc = Clients /\ script \in [Clients -> Seq(Calls)]
    /\ \A c \in Clients :
          /\ DOMAIN proc[c] = ProcFields
          /\ proc[c].call = None => proc[c].pc \in Outside
          /\ proc[c].call # None => CallOK(proc[c])

Deltas ==
    [kind : {"arena"}, lo : Nat, hi : Nat]
        \cup [kind : {"index"}, key : IndexKeys, off : Nat]
        \cup [kind : {"field"}, off : Nat, field : {"num", "str"}, words : Seq(Nat)]

LogTyped == pushed \in Seq(Deltas)

ConnectedAccepted == \A c \in Clients : proc[c].pc \notin {"unmapped", "refused"} => Accepted

\* The span at lo was handed out for what call binds.
AllocatedFor(call, lo) ==
    \E g \in granted : g.lo = lo /\ g.kind = IF call.op = "save" THEN "catalog" ELSE "record"

HeldAllocated ==
    \A c \in Clients :
        /\ proc[c].pc \in Binding \cup {"scan"} => AllocatedFor(proc[c].call, proc[c].off)
        /\ proc[c].pc \in SavingPayload => AllocatedFor(proc[c].call, proc[c].at)

Announced(lo, n) == \E j \in 1 .. Len(pushed) : pushed[j] = [kind |-> "arena", lo |-> lo, hi |-> lo + n]
PayloadLengths == 1 .. catalogEncodedLen(MaxCatalogCols)

\* What a client is about to refer to is in the ring already.
ReferencesAnnounced ==
    \A c \in Clients :
        /\ proc[c].pc \in {"setOffset", "setLength"} \/ StringField(proc[c]) =>
              Announced(proc[c].at, proc[c].len)
        /\ proc[c].pc = "addPayload" => Encodable(NameOf[Key(c)], Field(c).value)
        /\ proc[c].pc \in SavingPayload => proc[c].len \in PayloadLengths
        /\ proc[c].pc \in Binding /\ Op(c) = "save" => \E n \in PayloadLengths : Announced(proc[c].off, n)

\* Two calls on one subject, one of them a write, are noted when the second starts.
RacesNoted ==
    \A c, d \in Clients :
        /\ c # d /\ Active(c) /\ Active(d)
        /\ Subject(proc[c].call) = Subject(proc[d].call)
        /\ IsWrite(Op(c)) \/ IsWrite(Op(d))
        => Subject(proc[c].call) \in raced

\* What the scan of add saw still holds, unless another call raced it.
ScanStillHolds ==
    \A c \in Clients :
        proc[c].pc \in Binding /\ Op(c) = "add" /\ Subject(proc[c].call) \notin raced =>
            \A e \in Indexed : e.value # Key(c).value

-----------------------------------------------------------------------------
(* How a step changes proc. *)

\* Client c moves to step pc with its call; the others stay.
Moves(c, pc) ==
    /\ DOMAIN proc' = Clients /\ DOMAIN proc'[c] = ProcFields
    /\ \A d \in Clients \ {c} : proc'[d] = proc[d]
    /\ proc'[c].pc = pc /\ proc'[c].call = proc[c].call

\* Client c returns or throws; the others stay.
Returns(c) ==
    /\ DOMAIN proc' = Clients /\ DOMAIN proc'[c] = ProcFields
    /\ \A d \in Clients \ {c} : proc'[d] = proc[d]
    /\ proc'[c].pc = "idle" /\ proc'[c].call = None

LEMMA GotoMoves ==
    ASSUME ProcTyped, NEW c \in Clients, NEW pc, Goto(c, pc)
    PROVE  /\ Moves(c, pc)
           /\ proc'[c].off = proc[c].off /\ proc'[c].at = proc[c].at
           /\ proc'[c].len = proc[c].len /\ proc'[c].todo = proc[c].todo
  BY DEF ProcTyped, ProcFields, Goto, Moves

LEMMA FinishReturns ==
    ASSUME ProcTyped, NEW c \in Clients, NEW res, NEW value, Finish(c, res, value)
    PROVE  Returns(c)
  BY DEF ProcTyped, ProcFields, Finish, Returns, Idle

LEMMA MovesTyped ==
    ASSUME ProcTyped, NEW c \in Clients, NEW pc, Moves(c, pc),
           proc[c].call # None, CallOK(proc'[c]), script' = script
    PROVE  ProcTyped'
  BY DEF ProcTyped, Moves

LEMMA ReturnsTyped ==
    ASSUME ProcTyped, NEW c \in Clients, Returns(c), script' = script
    PROVE  ProcTyped'
  BY DEF ProcTyped, Returns, Outside

LEMMA InCall ==
    ASSUME ProcTyped, NEW c \in Clients, proc[c].pc \notin Outside
    PROVE  proc[c].call # None /\ CallOK(proc[c])
  BY DEF ProcTyped

\* The namespace of each call's key.
LEMMA CallFacts ==
    ASSUME NEW call \in Calls, call.key \notin InvalidKeys
    PROVE  /\ call.op \in {"insert", "upsert", "update", "find", "delete"} => call.key \in Keys \cup OverlongKeys
           /\ call.op \in {"save", "load"} => call.key \in Tables
           /\ call.op \in {"mirror", "unmirror"} => call.key \in Pks
           /\ call.op \in {"add", "remove"} => call.key \in Entries
           /\ call.op \in {"insert", "upsert", "update", "find", "delete", "save", "load",
                           "mirror", "unmirror", "add", "remove"}
           /\ call.data \in IF call.op = "save" THEN [1 .. 1 -> Descriptors] ELSE Seq(Assignments)
<1>1. <<>> \in Seq(Assignments)
  OBVIOUS
<1> QED
  BY <1>1 DEF Calls

LEMMA FirstAssignment ==
    ASSUME NEW todo \in Seq(Assignments), todo # <<>>
    PROVE  /\ todo[1] \in Assignments /\ Tail(todo) \in Seq(Assignments)
           /\ todo[1].field \in {"num", "str"}
           /\ todo[1].field = "num" /\ todo[1].value # BadValue => todo[1].value \in Numbers
           /\ todo[1].field = "str" /\ todo[1].value # BadValue => todo[1].value \in Strings
<1>1. todo[1] \in Assignments /\ Tail(todo) \in Seq(Assignments)
  OBVIOUS
<1> QED
  BY <1>1 DEF Assignments

\* A step that keeps the arguments of its call.
LEMMA SameCallOK ==
    ASSUME NEW p, NEW q, CallOK(p), q.call = p.call, q.off \in Nat, q.todo = p.todo,
           OpAt(q.pc, p.call.op), q.pc \notin {"addString", "pushField"} \cup Pointing \cup SavingPayload,
           q.pc \in (Binding \ {"admit"}) \cup Storing => p.call.key \notin OverlongKeys
    PROVE  CallOK(q)
  BY DEF CallOK, StringField

\* Client c returns, or moves on with arguments that fit its next step.
Proceeds(c) == Returns(c) \/ (CallOK(proc'[c]) /\ \E pc : Moves(c, pc))

\* Products are monotone.
LEMMA ProductFacts ==
    ASSUME NEW m \in Nat, NEW n \in Nat, m <= n, NEW w \in Nat
    PROVE  m * w \in Nat /\ n * w \in Nat /\ m * w <= n * w
<1>1. m * w \in Nat /\ n * w \in Nat /\ (n - m) * w \in Nat
  OBVIOUS
<1>2. n * w = m * w + (n - m) * w
  OBVIOUS
<1> QED
  BY <1>1, <1>2

\* The encoded length of the columns of a descriptor.
LEMMA EncodedLenFacts ==
    ASSUME NEW m \in Nat, NEW n \in Nat, m <= n
    PROVE  /\ catalogEncodedLen(m) \in Nat \ {0}
           /\ catalogEncodedLen(n) \in Nat /\ catalogEncodedLen(m) <= catalogEncodedLen(n)
<1> DEFINE w == NameField + 3
<1>1. w \in Nat /\ NameField \in Nat
  BY CatalogRecordAssumption
<1>2. /\ catalogEncodedLen(m) = 9 + NameField + m * w
      /\ catalogEncodedLen(n) = 9 + NameField + n * w
  BY <1>1 DEF catalogEncodedLen, HeaderLen
<1> HIDE DEF w
<1>3. m * w \in Nat /\ n * w \in Nat /\ m * w <= n * w
  BY <1>1, ProductFacts
<1> QED
  BY <1>1, <1>2, <1>3

LEMMA PayloadLength ==
    ASSUME NEW d \in Descriptors
    PROVE  Len(d.value) \in Nat /\ catalogEncodedLen(Len(d.value)) \in Nat
<1> DEFINE Cols == [name : Seq(0 .. 255), type : Range(Types), nullable : BOOLEAN,
                    primaryKey : BOOLEAN, unique : BOOLEAN]
<1>1. Descriptors = [field : {"cols"}, value : Seq(Cols)]
  BY DEF Descriptors
<1> HIDE DEF Cols
<1>2. d.value \in Seq(Cols)
  BY <1>1
<1>3. Len(d.value) \in Nat
  BY <1>2
<1> QED
  BY <1>3, EncodedLenFacts

LEMMA StepProceeds ==
    ASSUME TypeOK, ProcTyped, NEW c \in Clients, Step(c)
    PROVE  proc[c].call # None /\ CallOK(proc[c]) /\ Proceeds(c) /\ script' = script
<1> DEFINE Goal == proc[c].call # None /\ CallOK(proc[c]) /\ Proceeds(c) /\ script' = script
<1>a. ASSUME proc[c].pc \notin Outside, script' = script, NEW res, NEW value, Finish(c, res, value)
      PROVE  Goal
  BY <1>a, InCall, FinishReturns DEF Proceeds
<1>b. ASSUME proc[c].pc \notin Outside, script' = script, NEW pc, Moves(c, pc), CallOK(proc'[c])
      PROVE  Goal
  BY <1>b, InCall DEF Proceeds
<1>n. recBump \in Nat /\ strBump \in Nat /\ \A k \in IndexKeys : index[k] \in Nat
  BY ClientAssumption DEF TypeOK
<1> SUFFICES Goal
  OBVIOUS
<1> HIDE DEF Goal
<1> USE DEF Outside
<1>1. CASE SeedRecord(c)
  <2>1. proc[c].pc \notin Outside /\ script' = script /\ CallOK(proc[c])
    BY <1>1, InCall DEF SeedRecord
  <2>2. ASSUME Goto(c, "addRecord") PROVE Goal
    <3>1. Moves(c, "addRecord") /\ proc'[c].off = proc[c].off /\ proc'[c].at = proc[c].at
             /\ proc'[c].len = proc[c].len /\ proc'[c].todo = proc[c].todo
      BY <2>2, GotoMoves
    <3>2. CallOK(proc'[c])
      BY <1>1, <1>n, <2>1, <2>2, <3>1 DEF SeedRecord, Moves, CallOK, OpAt, Allocating, Binding, Storing, Saving,
         Reading, StringField, Pointing, SavingPayload
    <3> QED
      BY <2>1, <3>1, <3>2, <1>b
  <2> QED
    BY <1>1, <2>2 DEF SeedRecord
<1>2. CASE AddRecord(c)
  <2>1. proc[c].pc \notin Outside /\ script' = script /\ CallOK(proc[c])
    BY <1>2, InCall DEF AddRecord
  <2>2. ASSUME NEW res, NEW value, Finish(c, res, value) PROVE Goal
    BY <2>1, <2>2, <1>a
  <2>3. ASSUME proc' = [proc EXCEPT ![c].pc = "admit", ![c].off = recBump] PROVE Goal
    <3>1. Moves(c, "admit") /\ proc'[c].off = recBump /\ proc'[c].todo = proc[c].todo
      BY <2>3 DEF ProcTyped, ProcFields, Moves
    <3>2. CallOK(proc'[c])
      BY <1>2, <1>n, <2>1, <2>3, <3>1 DEF AddRecord, Moves, CallOK, OpAt, Allocating, Binding, Storing, Saving,
         Reading, StringField, Pointing, SavingPayload
    <3> QED
      BY <2>1, <3>1, <3>2, <1>b
  <2> QED
    BY <1>2, <2>2, <2>3 DEF AddRecord
<1>3. CASE Admit(c)
  <2>1. proc[c].pc \notin Outside /\ script' = script /\ CallOK(proc[c])
    BY <1>3, InCall DEF Admit
  <2>2. ASSUME NEW res, NEW value, Finish(c, res, value) PROVE Goal
    BY <2>1, <2>2, <1>a
  <2>3. ASSUME Key(c) \notin OverlongKeys, Goto(c, "bind") PROVE Goal
    <3>1. Moves(c, "bind") /\ proc'[c].off = proc[c].off /\ proc'[c].at = proc[c].at
             /\ proc'[c].len = proc[c].len /\ proc'[c].todo = proc[c].todo
      BY <2>3, GotoMoves
    <3>2. CallOK(proc'[c])
      BY <1>3, <1>n, <2>1, <2>3, <3>1 DEF Admit, Moves, CallOK, OpAt, Allocating, Binding, Storing, Saving,
         Reading, StringField, Pointing, SavingPayload, Key
    <3> QED
      BY <2>1, <3>1, <3>2, <1>b
  <2>4. ASSUME Key(c) \notin OverlongKeys, Goto(c, "allocKey") PROVE Goal
    <3>1. Moves(c, "allocKey") /\ proc'[c].off = proc[c].off /\ proc'[c].at = proc[c].at
             /\ proc'[c].len = proc[c].len /\ proc'[c].todo = proc[c].todo
      BY <2>4, GotoMoves
    <3>2. CallOK(proc'[c])
      BY <1>3, <1>n, <2>1, <2>4, <3>1 DEF Admit, Moves, CallOK, OpAt, Allocating, Binding, Storing, Saving,
         Reading, StringField, Pointing, SavingPayload, Key
    <3> QED
      BY <2>1, <3>1, <3>2, <1>b
  <2> QED
    BY <1>3, <2>2, <2>3, <2>4 DEF Admit
<1>4. CASE AllocKey(c)
  <2>1. proc[c].pc \notin Outside /\ script' = script /\ CallOK(proc[c])
    BY <1>4, InCall DEF AllocKey
  <2>2. ASSUME NEW res, NEW value, Finish(c, res, value) PROVE Goal
    BY <2>1, <2>2, <1>a
  <2>3. ASSUME Goto(c, "pushKey") PROVE Goal
    <3>1. Moves(c, "pushKey") /\ proc'[c].off = proc[c].off /\ proc'[c].at = proc[c].at
             /\ proc'[c].len = proc[c].len /\ proc'[c].todo = proc[c].todo
      BY <2>3, GotoMoves
    <3>2. CallOK(proc'[c])
      BY <1>4, <1>n, <2>1, <2>3, <3>1 DEF AllocKey, Moves, CallOK, OpAt, Allocating, Binding, Storing, Saving,
         Reading, StringField, Pointing, SavingPayload
    <3> QED
      BY <2>1, <3>1, <3>2, <1>b
  <2> QED
    BY <1>4, <2>2, <2>3 DEF AllocKey
<1>5. CASE PushKey(c)
  <2>1. proc[c].pc \notin Outside /\ script' = script /\ CallOK(proc[c])
    BY <1>5, InCall DEF PushKey
  <2>2. ASSUME Goto(c, "bind") PROVE Goal
    <3>1. Moves(c, "bind") /\ proc'[c].off = proc[c].off /\ proc'[c].at = proc[c].at
             /\ proc'[c].len = proc[c].len /\ proc'[c].todo = proc[c].todo
      BY <2>2, GotoMoves
    <3>2. CallOK(proc'[c])
      BY <1>5, <1>n, <2>1, <2>2, <3>1 DEF PushKey, Moves, CallOK, OpAt, Allocating, Binding, Storing, Saving,
         Reading, StringField, Pointing, SavingPayload
    <3> QED
      BY <2>1, <3>1, <3>2, <1>b
  <2> QED
    BY <1>5, <2>2 DEF PushKey
<1>6. CASE PushTimeout(c)
  <2>1. proc[c].pc \notin Outside /\ script' = script /\ CallOK(proc[c])
    BY <1>6, InCall DEF PushTimeout
  <2>2. ASSUME NEW res, NEW value, Finish(c, res, value) PROVE Goal
    BY <2>1, <2>2, <1>a
  <2> QED
    BY <1>6, <2>2 DEF PushTimeout
<1>7. CASE Bind(c)
  <2>1. proc[c].pc \notin Outside /\ script' = script /\ CallOK(proc[c])
    BY <1>7, InCall DEF Bind
  <2>2. ASSUME NEW res, NEW value, Finish(c, res, value) PROVE Goal
    BY <2>1, <2>2, <1>a
  <2>3. ASSUME Op(c) \in {"insert", "upsert"}, Goto(c, "fill") PROVE Goal
    <3>1. Moves(c, "fill") /\ proc'[c].off = proc[c].off /\ proc'[c].at = proc[c].at
             /\ proc'[c].len = proc[c].len /\ proc'[c].todo = proc[c].todo
      BY <2>3, GotoMoves
    <3>2. CallOK(proc'[c])
      BY <1>7, <1>n, <2>1, <2>3, <3>1 DEF Bind, Moves, CallOK, OpAt, Allocating, Binding, Storing, Saving,
         Reading, StringField, Pointing, SavingPayload, Op
    <3> QED
      BY <2>1, <3>1, <3>2, <1>b
  <2> QED
    BY <1>7, <2>2, <2>3 DEF Bind
<1>8. CASE FillDone(c)
  <2>1. proc[c].pc \notin Outside /\ script' = script /\ CallOK(proc[c])
    BY <1>8, InCall DEF FillDone
  <2>2. ASSUME NEW res, NEW value, Finish(c, res, value) PROVE Goal
    BY <2>1, <2>2, <1>a
  <2> QED
    BY <1>8, <2>2 DEF FillDone
<1>9. CASE FillInvalid(c)
  <2>1. proc[c].pc \notin Outside /\ script' = script /\ CallOK(proc[c])
    BY <1>9, InCall DEF FillInvalid
  <2>2. ASSUME NEW res, NEW value, Finish(c, res, value) PROVE Goal
    BY <2>1, <2>2, <1>a
  <2> QED
    BY <1>9, <2>2 DEF FillInvalid
<1>10. CASE SetNumber(c)
  <2>1. proc[c].pc \notin Outside /\ script' = script /\ CallOK(proc[c])
    BY <1>10, InCall DEF SetNumber, Filling
  <2>2. ASSUME Goto(c, "pushField") PROVE Goal
    <3>1. Moves(c, "pushField") /\ proc'[c].off = proc[c].off /\ proc'[c].at = proc[c].at
             /\ proc'[c].len = proc[c].len /\ proc'[c].todo = proc[c].todo
      BY <2>2, GotoMoves
    <3>2. CallOK(proc'[c])
      BY <1>10, <1>n, <2>1, <2>2, <3>1, FirstAssignment, ClientAssumption DEF SetNumber, Moves, CallOK, OpAt, Allocating, Binding, Storing, Saving,
         Reading, StringField, Pointing, SavingPayload, Filling, Field
    <3> QED
      BY <2>1, <3>1, <3>2, <1>b
  <2> QED
    BY <1>10, <2>2 DEF SetNumber, Filling
<1>11. CASE SeedString(c)
  <2>1. proc[c].pc \notin Outside /\ script' = script /\ CallOK(proc[c])
    BY <1>11, InCall DEF SeedString, Filling
  <2>2. ASSUME NEW res, NEW value, Finish(c, res, value) PROVE Goal
    BY <2>1, <2>2, <1>a
  <2>3. ASSUME Field(c).field = "str", Field(c).value # BadValue, proc[c].todo # <<>>, Goto(c, "addString") PROVE Goal
    <3>1. Moves(c, "addString") /\ proc'[c].off = proc[c].off /\ proc'[c].at = proc[c].at
             /\ proc'[c].len = proc[c].len /\ proc'[c].todo = proc[c].todo
      BY <2>3, GotoMoves
    <3>2. CallOK(proc'[c])
      BY <1>11, <1>n, <2>1, <2>3, <3>1, FirstAssignment DEF SeedString, Moves, CallOK, OpAt, Allocating, Binding, Storing, Saving,
         Reading, StringField, Pointing, SavingPayload, Field, Filling
    <3> QED
      BY <2>1, <3>1, <3>2, <1>b
  <2> QED
    BY <1>11, <2>2, <2>3 DEF SeedString, Filling
<1>12. CASE AddString(c)
  <2>1. proc[c].pc \notin Outside /\ script' = script /\ CallOK(proc[c])
    BY <1>12, InCall DEF AddString
  <2>2. ASSUME NEW res, NEW value, Finish(c, res, value) PROVE Goal
    BY <2>1, <2>2, <1>a
  <2>3. ASSUME proc' = [proc EXCEPT ![c].pc = "copy", ![c].at = strBump, ![c].len = ByteLength[Field(c).value]] PROVE Goal
    <3>1. Moves(c, "copy") /\ proc'[c].off = proc[c].off /\ proc'[c].at = strBump
             /\ proc'[c].len = ByteLength[Field(c).value] /\ proc'[c].todo = proc[c].todo
      BY SMTT(60), <2>3 DEF ProcTyped, ProcFields, Moves
    <3>2. CallOK(proc'[c])
      BY <1>12, <1>n, <2>1, <2>3, <3>1, ClientAssumption DEF AddString, Moves, CallOK, OpAt, Allocating, Binding, Storing, Saving,
         Reading, StringField, Pointing, SavingPayload, Field
    <3> QED
      BY <2>1, <3>1, <3>2, <1>b
  <2> QED
    BY <1>12, <2>2, <2>3 DEF AddString
<1>13. CASE Copy(c)
  <2>1. proc[c].pc \notin Outside /\ script' = script /\ CallOK(proc[c])
    BY <1>13, InCall DEF Copy
  <2>2. ASSUME Goto(c, "notify") PROVE Goal
    <3>1. Moves(c, "notify") /\ proc'[c].off = proc[c].off /\ proc'[c].at = proc[c].at
             /\ proc'[c].len = proc[c].len /\ proc'[c].todo = proc[c].todo
      BY <2>2, GotoMoves
    <3>2. CallOK(proc'[c])
      BY <1>13, <1>n, <2>1, <2>2, <3>1 DEF Copy, Moves, CallOK, OpAt, Allocating, Binding, Storing, Saving,
         Reading, StringField, Pointing, SavingPayload
    <3> QED
      BY <2>1, <3>1, <3>2, <1>b
  <2> QED
    BY <1>13, <2>2 DEF Copy
<1>14. CASE Notify(c)
  <2>1. proc[c].pc \notin Outside /\ script' = script /\ CallOK(proc[c])
    BY <1>14, InCall DEF Notify
  <2>2. ASSUME NEW res, NEW value, Finish(c, res, value) PROVE Goal
    BY <2>1, <2>2, <1>a
  <2>3. ASSUME Goto(c, "setOffset") PROVE Goal
    <3>1. Moves(c, "setOffset") /\ proc'[c].off = proc[c].off /\ proc'[c].at = proc[c].at
             /\ proc'[c].len = proc[c].len /\ proc'[c].todo = proc[c].todo
      BY <2>3, GotoMoves
    <3>2. CallOK(proc'[c])
      BY <1>14, <1>n, <2>1, <2>3, <3>1 DEF Notify, Moves, CallOK, OpAt, Allocating, Binding, Storing, Saving,
         Reading, StringField, Pointing, SavingPayload
    <3> QED
      BY <2>1, <3>1, <3>2, <1>b
  <2> QED
    BY <1>14, <2>2, <2>3 DEF Notify
<1>15. CASE SetOffset(c)
  <2>1. proc[c].pc \notin Outside /\ script' = script /\ CallOK(proc[c])
    BY <1>15, InCall DEF SetOffset
  <2>2. ASSUME Goto(c, "setLength") PROVE Goal
    <3>1. Moves(c, "setLength") /\ proc'[c].off = proc[c].off /\ proc'[c].at = proc[c].at
             /\ proc'[c].len = proc[c].len /\ proc'[c].todo = proc[c].todo
      BY <2>2, GotoMoves
    <3>2. CallOK(proc'[c])
      BY <1>15, <1>n, <2>1, <2>2, <3>1 DEF SetOffset, Moves, CallOK, OpAt, Allocating, Binding, Storing, Saving,
         Reading, StringField, Pointing, SavingPayload
    <3> QED
      BY <2>1, <3>1, <3>2, <1>b
  <2> QED
    BY <1>15, <2>2 DEF SetOffset
<1>16. CASE SetLength(c)
  <2>1. proc[c].pc \notin Outside /\ script' = script /\ CallOK(proc[c])
    BY <1>16, InCall DEF SetLength
  <2>2. ASSUME Goto(c, "pushField") PROVE Goal
    <3>1. Moves(c, "pushField") /\ proc'[c].off = proc[c].off /\ proc'[c].at = proc[c].at
             /\ proc'[c].len = proc[c].len /\ proc'[c].todo = proc[c].todo
      BY <2>2, GotoMoves
    <3>2. CallOK(proc'[c])
      BY <1>16, <1>n, <2>1, <2>2, <3>1 DEF SetLength, Moves, CallOK, OpAt, Allocating, Binding, Storing, Saving,
         Reading, StringField, Pointing, SavingPayload
    <3> QED
      BY <2>1, <3>1, <3>2, <1>b
  <2> QED
    BY <1>16, <2>2 DEF SetLength
<1>17. CASE PushField(c)
  <2>1. proc[c].pc \notin Outside /\ script' = script /\ CallOK(proc[c])
    BY <1>17, InCall DEF PushField
  <2>2. ASSUME proc' = [proc EXCEPT ![c].pc = "fill", ![c].todo = Tail(@)] PROVE Goal
    <3>1. Moves(c, "fill") /\ proc'[c].off = proc[c].off /\ proc'[c].todo = Tail(proc[c].todo)
      BY <2>2 DEF ProcTyped, ProcFields, Moves
    <3>2. CallOK(proc'[c])
      BY ZenonT(60), <1>17, <1>n, <2>1, <2>2, <3>1, FirstAssignment DEF PushField, Moves, CallOK, OpAt, Allocating, Binding, Storing, Saving,
         Reading, StringField, Pointing, SavingPayload
    <3> QED
      BY <2>1, <3>1, <3>2, <1>b
  <2> QED
    BY <1>17, <2>2 DEF PushField
<1>18. CASE SaveInvalid(c)
  <2>1. proc[c].pc \notin Outside /\ script' = script /\ CallOK(proc[c])
    BY <1>18, InCall DEF SaveInvalid
  <2>2. ASSUME NEW res, NEW value, Finish(c, res, value) PROVE Goal
    BY <2>1, <2>2, <1>a
  <2> QED
    BY <1>18, <2>2 DEF SaveInvalid
<1>19. CASE SeedPayload(c)
  <2>1. proc[c].pc \notin Outside /\ script' = script /\ CallOK(proc[c])
    BY <1>19, InCall DEF SeedPayload
  <2>2. ASSUME Goto(c, "addPayload") PROVE Goal
    <3>1. Moves(c, "addPayload") /\ proc'[c].off = proc[c].off /\ proc'[c].at = proc[c].at
             /\ proc'[c].len = proc[c].len /\ proc'[c].todo = proc[c].todo
      BY <2>2, GotoMoves
    <3>2. CallOK(proc'[c])
      BY <1>19, <1>n, <2>1, <2>2, <3>1 DEF SeedPayload, Moves, CallOK, OpAt, Allocating, Binding, Storing, Saving,
         Reading, StringField, Pointing, SavingPayload
    <3> QED
      BY <2>1, <3>1, <3>2, <1>b
  <2> QED
    BY <1>19, <2>2 DEF SeedPayload
<1>20. CASE AddPayload(c)
  <2>1. proc[c].pc \notin Outside /\ script' = script /\ CallOK(proc[c])
    BY <1>20, InCall DEF AddPayload
  <2>2. ASSUME NEW res, NEW value, Finish(c, res, value) PROVE Goal
    BY <2>1, <2>2, <1>a
  <2>3. ASSUME proc' = [proc EXCEPT ![c].pc = "copyPayload", ![c].at = strBump, ![c].len = catalogEncodedLen(Len(Field(c).value))] PROVE Goal
    <3>1. Moves(c, "copyPayload") /\ proc'[c].off = proc[c].off /\ proc'[c].at = strBump
             /\ proc'[c].len = catalogEncodedLen(Len(Field(c).value)) /\ proc'[c].todo = proc[c].todo
      BY <2>3 DEF ProcTyped, ProcFields, Moves
    <3>2. CallOK(proc'[c])
      BY <1>20, <1>n, <2>1, <2>3, <3>1, PayloadLength DEF AddPayload, Moves, CallOK, OpAt, Allocating, Binding, Storing, Saving,
         Reading, StringField, Pointing, SavingPayload, Field
    <3> QED
      BY <2>1, <3>1, <3>2, <1>b
  <2> QED
    BY <1>20, <2>2, <2>3 DEF AddPayload
<1>21. CASE CopyPayload(c)
  <2>1. proc[c].pc \notin Outside /\ script' = script /\ CallOK(proc[c])
    BY <1>21, InCall DEF CopyPayload
  <2>2. ASSUME Goto(c, "notifyPayload") PROVE Goal
    <3>1. Moves(c, "notifyPayload") /\ proc'[c].off = proc[c].off /\ proc'[c].at = proc[c].at
             /\ proc'[c].len = proc[c].len /\ proc'[c].todo = proc[c].todo
      BY <2>2, GotoMoves
    <3>2. CallOK(proc'[c])
      BY <1>21, <1>n, <2>1, <2>2, <3>1 DEF CopyPayload, Moves, CallOK, OpAt, Allocating, Binding, Storing, Saving,
         Reading, StringField, Pointing, SavingPayload
    <3> QED
      BY <2>1, <3>1, <3>2, <1>b
  <2> QED
    BY <1>21, <2>2 DEF CopyPayload
<1>22. CASE NotifyPayload(c)
  <2>1. proc[c].pc \notin Outside /\ script' = script /\ CallOK(proc[c])
    BY <1>22, InCall DEF NotifyPayload
  <2>2. ASSUME proc' = [proc EXCEPT ![c].pc = "admit", ![c].off = proc[c].at] PROVE Goal
    <3>1. Moves(c, "admit") /\ proc'[c].off = proc[c].at /\ proc'[c].todo = proc[c].todo
      BY <2>2 DEF ProcTyped, ProcFields, Moves
    <3>2. CallOK(proc'[c])
      BY <1>22, <1>n, <2>1, <2>2, <3>1 DEF NotifyPayload, Moves, CallOK, OpAt, Allocating, Binding, Storing, Saving,
         Reading, StringField, Pointing, SavingPayload
    <3> QED
      BY <2>1, <3>1, <3>2, <1>b
  <2> QED
    BY <1>22, <2>2 DEF NotifyPayload
<1>23. CASE Search(c)
  <2>1. proc[c].pc \notin Outside /\ script' = script /\ CallOK(proc[c])
    BY <1>23, InCall DEF Search
  <2>2. ASSUME NEW res, NEW value, Finish(c, res, value) PROVE Goal
    BY <2>1, <2>2, <1>a
  <2>3. ASSUME Key(c) \notin OverlongKeys, Op(c) = "upsert",
                proc' = [proc EXCEPT ![c].pc = "seedRecord", ![c].value = "created"] PROVE Goal
    <3>1. Moves(c, "seedRecord") /\ proc'[c].off = proc[c].off /\ proc'[c].todo = proc[c].todo
      BY <2>3 DEF ProcTyped, ProcFields, Moves
    <3>2. CallOK(proc'[c])
      BY <1>23, <1>n, <2>1, <2>3, <3>1 DEF Search, Moves, CallOK, OpAt, Allocating, Binding, Storing, Saving,
         Reading, StringField, Pointing, SavingPayload, Op, Key
    <3> QED
      BY <2>1, <3>1, <3>2, <1>b
  <2>4. ASSUME Op(c) = "load", proc' = [proc EXCEPT ![c].pc = "payload", ![c].off = index[Key(c)]] PROVE Goal
    <3>1. Moves(c, "payload") /\ proc'[c].off = index[Key(c)] /\ proc'[c].todo = proc[c].todo
      BY <2>4 DEF ProcTyped, ProcFields, Moves
    <3>2. CallOK(proc'[c])
      BY <1>23, <1>n, <2>1, <2>4, <3>1, CallFacts DEF Search, Moves, CallOK, OpAt, Allocating, Binding, Storing, Saving,
         Reading, StringField, Pointing, SavingPayload, Op, Key, IndexKeys
    <3> QED
      BY <2>1, <3>1, <3>2, <1>b
  <2>5. ASSUME Op(c) # "load", Key(c) \notin OverlongKeys,
                proc' = [proc EXCEPT ![c].off = index[Key(c)], ![c].pc = IF Op(c) = "find" THEN "loadOffset" ELSE "fill"] PROVE Goal
    <3>1. Moves(c, IF Op(c) = "find" THEN "loadOffset" ELSE "fill") /\ proc'[c].off = index[Key(c)] /\ proc'[c].todo = proc[c].todo
      BY SMTT(60), <2>5 DEF ProcTyped, ProcFields, Moves
    <3>2. proc[c].call \in Calls /\ proc[c].call.key \notin InvalidKeys /\ proc[c].pc = "search" /\ index[Key(c)] \in Nat
      <4>1. proc[c].pc = "search"
        BY <1>23, Zenon DEF Search
      <4>2. proc[c].call \in Calls /\ proc[c].call.key \notin InvalidKeys /\ OpAt("search", proc[c].call.op)
        BY <2>1, <4>1 DEF CallOK
      <4>3. PICK call : call = proc[c].call
        OBVIOUS
      <4>4. call.key \in IndexKeys
        <5>1. call.op \in {"find", "update", "upsert", "load"}
          BY <4>2, <4>3 DEF OpAt, Allocating, Binding, Storing, Saving, Reading, Pointing, SavingPayload
        <5>2. call.key \in Keys \cup OverlongKeys \cup Tables /\ call.key \notin OverlongKeys
          BY <2>5, <4>2, <4>3, <5>1, CallFacts DEF Key
        <5> QED
          BY <5>2 DEF IndexKeys
      <4> QED
        BY <1>n, <4>1, <4>2, <4>3, <4>4 DEF Key
    <3>3. PICK p, q : p = proc[c] /\ q = proc'[c]
      OBVIOUS
    <3>4. /\ CallOK(p) /\ p.pc = "search" /\ p.call.op # "load" /\ p.call.key \notin OverlongKeys /\ p.call.key \notin InvalidKeys
          /\ q.call = p.call /\ q.todo = p.todo /\ q.off \in Nat
          /\ q.pc = IF p.call.op = "find" THEN "loadOffset" ELSE "fill"
      BY <2>1, <2>5, <3>1, <3>2, <3>3 DEF Moves, Op, Key
    <3>5. ASSUME p.call.op = "find" PROVE CallOK(q)
      BY <3>4, <3>5 DEF CallOK, OpAt, Allocating, Binding, Storing, Saving, Reading, StringField, Pointing, SavingPayload
    <3>6. ASSUME p.call.op # "find" PROVE CallOK(q)
      BY <3>4, <3>6 DEF CallOK, OpAt, Allocating, Binding, Storing, Saving, Reading, StringField, Pointing, SavingPayload
    <3>7. CallOK(proc'[c])
      <4>1. CallOK(q)
        BY <3>5, <3>6
      <4> QED
        BY <3>3, <4>1
    <3> QED
      BY <2>1, <3>1, <3>7, <1>b
  <2> QED
    BY <1>23, <2>2, <2>3, <2>4, <2>5 DEF Search
<1>24. CASE LoadOffset(c)
  <2>1. proc[c].pc \notin Outside /\ script' = script /\ CallOK(proc[c])
    BY <1>24, InCall DEF LoadOffset
  <2>2. ASSUME proc' = [proc EXCEPT ![c].pc = "loadLength", ![c].at = rec[proc[c].off].at] PROVE Goal
    <3>1. Moves(c, "loadLength") /\ proc'[c].off = proc[c].off /\ proc'[c].todo = proc[c].todo
      BY <2>2 DEF ProcTyped, ProcFields, Moves
    <3>2. CallOK(proc'[c])
      BY <1>24, <1>n, <2>1, <2>2, <3>1 DEF LoadOffset, Moves, CallOK, OpAt, Allocating, Binding, Storing, Saving,
         Reading, StringField, Pointing, SavingPayload
    <3> QED
      BY <2>1, <3>1, <3>2, <1>b
  <2> QED
    BY <1>24, <2>2 DEF LoadOffset
<1>25. CASE LoadLength(c)
  <2>1. proc[c].pc \notin Outside /\ script' = script /\ CallOK(proc[c])
    BY <1>25, InCall DEF LoadLength
  <2>2. ASSUME proc' = [proc EXCEPT ![c].pc = "decode", ![c].len = rec[proc[c].off].len] PROVE Goal
    <3>1. Moves(c, "decode") /\ proc'[c].off = proc[c].off /\ proc'[c].todo = proc[c].todo
      BY <2>2 DEF ProcTyped, ProcFields, Moves
    <3>2. CallOK(proc'[c])
      BY <1>25, <1>n, <2>1, <2>2, <3>1 DEF LoadLength, Moves, CallOK, OpAt, Allocating, Binding, Storing, Saving,
         Reading, StringField, Pointing, SavingPayload
    <3> QED
      BY <2>1, <3>1, <3>2, <1>b
  <2> QED
    BY <1>25, <2>2 DEF LoadLength
<1>26. CASE Decode(c)
  <2>1. proc[c].pc \notin Outside /\ script' = script /\ CallOK(proc[c])
    BY <1>26, InCall DEF Decode
  <2>2. ASSUME NEW res, NEW value, Finish(c, res, value) PROVE Goal
    BY <2>1, <2>2, <1>a
  <2> QED
    BY <1>26, <2>2 DEF Decode
<1>27. CASE ReadPayload(c)
  <2>1. proc[c].pc \notin Outside /\ script' = script /\ CallOK(proc[c])
    BY <1>27, InCall DEF ReadPayload
  <2>2. ASSUME NEW res, NEW value, Finish(c, res, value) PROVE Goal
    BY <2>1, <2>2, <1>a
  <2> QED
    BY <1>27, <2>2 DEF ReadPayload
<1>28. CASE remove_index(c)
  <2>1. proc[c].pc \notin Outside /\ script' = script /\ CallOK(proc[c])
    BY <1>28, InCall DEF remove_index
  <2>2. ASSUME NEW res, NEW value, Finish(c, res, value) PROVE Goal
    BY <2>1, <2>2, <1>a
  <2> QED
    BY <1>28, <2>2 DEF remove_index
<1>29. CASE UniqueScan(c)
  <2>1. proc[c].pc \notin Outside /\ script' = script /\ CallOK(proc[c])
    BY <1>29, InCall DEF UniqueScan
  <2>2. ASSUME NEW res, NEW value, Finish(c, res, value) PROVE Goal
    BY <2>1, <2>2, <1>a
  <2>3. ASSUME Goto(c, "admit") PROVE Goal
    <3>1. Moves(c, "admit") /\ proc'[c].off = proc[c].off /\ proc'[c].at = proc[c].at
             /\ proc'[c].len = proc[c].len /\ proc'[c].todo = proc[c].todo
      BY <2>3, GotoMoves
    <3>2. CallOK(proc'[c])
      BY <1>29, <1>n, <2>1, <2>3, <3>1 DEF UniqueScan, Moves, CallOK, OpAt, Allocating, Binding, Storing, Saving,
         Reading, StringField, Pointing, SavingPayload
    <3> QED
      BY <2>1, <3>1, <3>2, <1>b
  <2> QED
    BY <1>29, <2>2, <2>3 DEF UniqueScan
<1> QED
  BY <1>1, <1>2, <1>3, <1>4, <1>5, <1>6, <1>7, <1>8, <1>9, <1>10, <1>11, <1>12, <1>13, <1>14, <1>15, <1>16, <1>17, <1>18, <1>19, <1>20, <1>21, <1>22, <1>23, <1>24, <1>25, <1>26, <1>27, <1>28, <1>29 DEF Step, DeleteKey, unmirrorPk, RemoveEntry

-----------------------------------------------------------------------------
(* Which steps of a client change which variable. *)

LEMMA StepFrame ==
    ASSUME NEW c \in Clients, Step(c)
    PROVE  /\ seg' = seg /\ daemon' = daemon /\ head' = head /\ raced' = raced
           /\ recBump' = recBump \/ SeedRecord(c) \/ AddRecord(c)
           /\ strBump' = strBump \/ AllocKey(c) \/ SeedString(c) \/ AddString(c) \/ SeedPayload(c) \/ AddPayload(c)
           /\ index' = index \/ Bind(c) \/ remove_index(c)
           /\ rec' = rec \/ SetNumber(c) \/ SetOffset(c) \/ SetLength(c)
           /\ pushed' = pushed \/ PushKey(c) \/ Notify(c) \/ PushField(c) \/ NotifyPayload(c)
           /\ granted' = granted \/ AddRecord(c) \/ AllocKey(c) \/ AddString(c) \/ AddPayload(c)
<1> USE DEF mem, ring, hist
<1>1. CASE SeedRecord(c) \/ AddRecord(c)
  BY <1>1 DEF SeedRecord, AddRecord
<1>2. CASE Admit(c) \/ AllocKey(c) \/ PushKey(c) \/ PushTimeout(c) \/ Bind(c)
  BY <1>2 DEF Admit, AllocKey, PushKey, PushTimeout, Bind
<1>3. CASE FillDone(c) \/ FillInvalid(c) \/ SetNumber(c)
  BY <1>3 DEF FillDone, FillInvalid, SetNumber
<1>4. CASE SeedString(c) \/ AddString(c) \/ Copy(c) \/ Notify(c)
  BY <1>4 DEF SeedString, AddString, Copy, Notify
<1>5. CASE SetOffset(c) \/ SetLength(c) \/ PushField(c)
  BY <1>5 DEF SetOffset, SetLength, PushField
<1>6. CASE SaveInvalid(c) \/ SeedPayload(c) \/ AddPayload(c) \/ CopyPayload(c) \/ NotifyPayload(c)
  BY <1>6 DEF SaveInvalid, SeedPayload, AddPayload, CopyPayload, NotifyPayload
<1>7. CASE Search(c) \/ LoadOffset(c) \/ LoadLength(c) \/ Decode(c) \/ ReadPayload(c)
  BY <1>7 DEF Search, LoadOffset, LoadLength, Decode, ReadPayload
<1>8. CASE DeleteKey(c) \/ unmirrorPk(c) \/ RemoveEntry(c) \/ UniqueScan(c)
  BY <1>8 DEF DeleteKey, unmirrorPk, RemoveEntry, UniqueScan, remove_index
<1> QED
  BY <1>1, <1>2, <1>3, <1>4, <1>5, <1>6, <1>7, <1>8 DEF Step

-----------------------------------------------------------------------------
(* Types and the layout. *)

BaseInv == TypeOK /\ ProcTyped /\ LogTyped /\ ConnectedAccepted

LEMMA StepProc ==
    ASSUME TypeOK, ProcTyped, NEW c \in Clients, Step(c)
    PROVE  ProcTyped'
<1>1. CASE Returns(c)
  BY <1>1, StepProceeds, ReturnsTyped
<1>2. ASSUME NEW pc, Moves(c, pc), CallOK(proc'[c]) PROVE ProcTyped'
  BY <1>2, StepProceeds, MovesTyped
<1> QED
  BY <1>1, <1>2, StepProceeds DEF Proceeds

LEMMA StepConnected ==
    ASSUME TypeOK, ProcTyped, ConnectedAccepted, NEW c \in Clients, Step(c)
    PROVE  Accepted /\ ConnectedAccepted'
<1>1. proc[c].pc \notin Outside
  BY StepProceeds DEF CallOK, OpAt, Allocating, Binding, Storing, Saving, Reading, Pointing, SavingPayload, Outside
<1>2. Accepted
  BY <1>1 DEF ConnectedAccepted, Outside
<1>3. Accepted' = Accepted
  BY StepFrame DEF Accepted, R
<1> QED
  BY <1>2, <1>3 DEF ConnectedAccepted

LEMMA BumpTyped ==
    ASSUME TypeOK, ProcTyped, Accepted, NEW c \in Clients, Step(c)
    PROVE  recBump' \in 0 .. Word - 1 /\ strBump' \in 0 .. Word - 1
<1>1. /\ recBump \in 0 .. Word - 1 /\ strBump \in 0 .. Word - 1 /\ Word \in Nat \ {0} /\ seg \in Segments
      /\ recBump \in Nat /\ strBump \in Nat
  BY ClientAssumption DEF TypeOK
<1>2. /\ R.recordStart \in 0 .. Word - 1 /\ stringDataStart(R) \in 0 .. Word - 1
      /\ stringEnd(R) \in 0 .. Word - 1
  BY <1>1, LayoutFacts DEF recordEnd, stringDataStart, stringEnd
<1>3. ASSUME NEW n \in Nat PROVE (recBump + n) % Word \in 0 .. Word - 1 /\ (strBump + n) % Word \in 0 .. Word - 1
  <2>1. recBump + n \in Nat /\ strBump + n \in Nat
    BY <1>1
  <2> QED
    BY <1>1, <2>1, ModFacts
<1>4. CallOK(proc[c])
  BY StepProceeds
<1>5. recBump' \in 0 .. Word - 1
  <2>1. CASE SeedRecord(c)
    BY <2>1, <1>1, <1>2 DEF SeedRecord
  <2>2. CASE AddRecord(c)
    BY <2>2, <1>3, StrideValue DEF AddRecord
  <2> QED
    BY <1>1, <2>1, <2>2, StepFrame
<1>6. strBump' \in 0 .. Word - 1
  <2>1. CASE AllocKey(c)
    <3> DEFINE at == IF strBump = 0 THEN stringDataStart(R) ELSE strBump
               n  == alignUp(KeyLen, Unit)
    <3>1. at \in 0 .. Word - 1 /\ n \in Nat
      BY <1>1, <1>2, AlignFacts, ClientAssumption
    <3>2. strBump' = strBump \/ strBump' = at \/ (at + n <= stringEnd(R) /\ strBump' = at + n)
      <4>1. at + n \in Nat /\ stringEnd(R) \in Nat
        BY <1>1, <1>2, <3>1
      <4> HIDE DEF at, n
      <4> QED
        BY <2>1, <4>1 DEF AllocKey, at, n
    <3> HIDE DEF at, n
    <3> QED
      BY <1>1, <1>2, <3>1, <3>2
  <2>2. CASE SeedString(c) \/ SeedPayload(c)
    BY <2>2, <1>1, <1>2 DEF SeedString, SeedPayload
  <2>3. CASE AddString(c)
    <3>1. ByteLength[Field(c).value] \in Nat
      BY <2>3, <1>4, ClientAssumption DEF AddString, CallOK, Field
    <3> QED
      BY SMTT(60), <2>3, <1>3, <3>1 DEF AddString
  <2>4. CASE AddPayload(c)
    <3>1. catalogEncodedLen(Len(Field(c).value)) \in Nat
      BY <2>4, <1>4, PayloadLength
         DEF AddPayload, CallOK, OpAt, Allocating, Binding, Storing, Saving, Reading, Pointing, SavingPayload, Field
    <3> QED
      BY <2>4, <1>3, <3>1 DEF AddPayload
  <2> QED
    BY <1>1, <2>1, <2>2, <2>3, <2>4, StepFrame
<1> QED
  BY <1>5, <1>6

\* The key of a call that binds is one the index accepts.
LEMMA KeyOfBinding ==
    ASSUME NEW c \in Clients, CallOK(proc[c]), proc[c].pc \in Binding \cup {"remove"} \cup Storing,
           Key(c) \notin OverlongKeys
    PROVE  Key(c) \in IndexKeys
<1>1. proc[c].call \in Calls /\ proc[c].call.key \notin InvalidKeys
  BY DEF CallOK
<1> QED
  BY <1>1, CallFacts DEF Key, IndexKeys

LEMMA IndexTyped ==
    ASSUME TypeOK, ProcTyped, NEW c \in Clients, Step(c)
    PROVE  index' \in [IndexKeys -> Nat]
<1>1. CallOK(proc[c]) /\ proc[c].off \in Nat
  BY StepProceeds DEF CallOK
<1>2. CASE Bind(c)
  BY <1>1, <1>2 DEF Bind, TypeOK
<1>3. CASE remove_index(c)
  BY <1>1, <1>3 DEF remove_index, TypeOK
<1> QED
  BY <1>2, <1>3, StepFrame DEF TypeOK

LEMMA RecordsTyped ==
    ASSUME TypeOK, ProcTyped, NEW c \in Clients, Step(c)
    PROVE  rec' \in [Slots -> Rows]
<1>1. CallOK(proc[c])
  BY StepProceeds
<1>2. rec \in [Slots -> Rows]
  BY DEF TypeOK
<1> USE DEF Rows
<1>3. CASE SetNumber(c)
  <2>1. Field(c).value \in Nat
    BY <1>3, ClientAssumption DEF SetNumber
  <2> QED
    BY <1>2, <1>3, <2>1 DEF SetNumber
<1>4. CASE SetOffset(c)
  <2>1. proc[c].at \in Nat
    BY <1>1, <1>4 DEF SetOffset, CallOK, Pointing
  <2> QED
    BY <1>2, <1>4, <2>1 DEF SetOffset
<1>5. CASE SetLength(c)
  <2>1. proc[c].len \in Nat
    BY <1>1, <1>5 DEF SetLength, CallOK, Pointing
  <2> QED
    BY <1>2, <1>5, <2>1 DEF SetLength
<1> QED
  BY <1>2, <1>3, <1>4, <1>5, StepFrame

\* A step pushes at most one delta, and only into a ring with room.
LEMMA PushesOne ==
    ASSUME TypeOK, ProcTyped, LogTyped, NEW c \in Clients, Step(c)
    PROVE  \/ pushed' = pushed
           \/ ~RingFull /\ \E d \in Deltas : pushed' = Append(pushed, d)
<1>1. CallOK(proc[c]) /\ proc[c].off \in Nat
  BY StepProceeds DEF CallOK
<1>2. CASE PushKey(c)
  <2>1. Key(c) \in IndexKeys
    BY <1>1, <1>2, KeyOfBinding DEF PushKey, CallOK, Binding, Key
  <2> DEFINE d == [kind |-> "index", key |-> Key(c), off |-> proc[c].off]
  <2>2. d \in Deltas
    BY <1>1, <2>1 DEF Deltas
  <2> QED
    BY <1>2, <2>2 DEF PushKey
<1>3. CASE Notify(c) \/ NotifyPayload(c)
  <2>1. proc[c].at \in Nat /\ proc[c].len \in Nat
    BY <1>1, <1>3 DEF Notify, NotifyPayload, CallOK, Pointing, SavingPayload
  <2>2. Announcement(c) \in Deltas
    BY <2>1 DEF Deltas, Announcement
  <2> QED
    BY <1>3, <2>2 DEF Notify, NotifyPayload
<1>4. CASE PushField(c)
  <2> DEFINE w == IF Field(c).field = "num" THEN <<Field(c).value>> ELSE <<proc[c].at, proc[c].len>>
             d == [kind |-> "field", off |-> proc[c].off, field |-> Field(c).field, words |-> w]
  <2>1. proc[c].todo \in Seq(Assignments) /\ proc[c].todo # <<>>
    BY <1>1, <1>4 DEF PushField, CallOK, OpAt, Allocating, Binding, Storing, Saving, Reading, Pointing, SavingPayload
  <2>2. Field(c).field \in {"num", "str"}
    BY <2>1, FirstAssignment DEF Field
  <2>3. w \in Seq(Nat)
    BY <1>1, <1>4, <2>2, ClientAssumption DEF PushField, CallOK, StringField, Field
  <2>4. d \in Deltas
    BY <1>1, <2>2, <2>3 DEF Deltas
  <2> QED
    BY <1>4, <2>4 DEF PushField
<1> QED
  BY <1>2, <1>3, <1>4, StepFrame

LEMMA StepBase ==
    ASSUME BaseInv, NEW c \in Clients, Step(c)
    PROVE  BaseInv'
<1> USE DEF BaseInv
<1>1. ProcTyped' /\ ConnectedAccepted' /\ Accepted
  BY StepProc, StepConnected
<1>2. seg' = seg /\ daemon' = daemon /\ head' = head /\ raced' = raced
  BY StepFrame
<1>3. /\ recBump' \in 0 .. Word - 1 /\ strBump' \in 0 .. Word - 1
      /\ index' \in [IndexKeys -> Nat] /\ rec' \in [Slots -> Rows]
  BY <1>1, BumpTyped, IndexTyped, RecordsTyped
<1>4. Slots' = Slots /\ R' = R /\ R.ringCapacity \in Nat
  BY <1>2, SegmentAssumption DEF Slots, R, TypeOK, Regions
<1>5. LogTyped' /\ Len(pushed) <= Len(pushed)' /\ Depth' <= R.ringCapacity
  <2>1. Len(pushed) \in Nat /\ head \in 0 .. Len(pushed) /\ Depth <= R.ringCapacity
    BY DEF LogTyped, TypeOK
  <2>2. CASE pushed' = pushed
    BY <1>2, <2>1, <2>2 DEF LogTyped, Depth
  <2>3. ASSUME ~RingFull, NEW d \in Deltas, pushed' = Append(pushed, d)
        PROVE  LogTyped' /\ Len(pushed) <= Len(pushed)' /\ Depth' <= R.ringCapacity
    <3>1. LogTyped' /\ Len(pushed)' = Len(pushed) + 1
      BY <2>3 DEF LogTyped
    <3>2. Depth + 1 <= R.ringCapacity
      BY <1>4, <2>1, <2>3 DEF RingFull, Depth
    <3> QED
      BY <1>2, <1>4, <2>1, <3>1, <3>2 DEF Depth
  <2> QED
    BY <2>2, <2>3, PushesOne
<1>6. head' \in 0 .. Len(pushed)'
  BY <1>2, <1>5 DEF TypeOK, LogTyped
<1>7. TypeOK'
  BY <1>2, <1>3, <1>4, <1>5, <1>6 DEF TypeOK
<1> QED
  BY <1>1, <1>5, <1>7

LEMMA InitBase == Init => BaseInv
<1> SUFFICES ASSUME Init PROVE BaseInv
  OBVIOUS
<1>1. R.ringCapacity \in Nat
  BY SegmentAssumption DEF Init, R, Regions
<1>2. \A c \in Clients : DOMAIN proc[c] = ProcFields /\ proc[c].pc = "unmapped" /\ proc[c].call = None
  BY DEF Init, Idle, ProcFields
<1>3. ProcTyped
  BY <1>2, WorkloadAssumption DEF Init, ProcTyped, Outside
<1>4. ConnectedAccepted
  BY <1>2 DEF ConnectedAccepted
<1>5. LogTyped
  BY DEF Init, LogTyped
<1>6. TypeOK
  BY <1>1, ClientAssumption DEF Init, TypeOK, Depth, Rows, ZeroRow
<1> QED
  BY <1>3, <1>4, <1>5, <1>6 DEF BaseInv

LEMMA ConnectBase ==
    ASSUME BaseInv, NEW c \in Clients, Connect(c)
    PROVE  BaseInv'
<1> USE DEF BaseInv
<1>1. UNCHANGED <<seg, daemon, recBump, strBump, index, rec, heap, pushed, head, script, granted, raced>>
  BY DEF Connect, mem, ring, hist
<1>2. proc[c].call = None
  BY DEF Connect, ProcTyped, CallOK, OpAt, Allocating, Binding, Storing, Saving, Reading, Pointing, SavingPayload
<1>3. PICK pc : pc \in Outside /\ Goto(c, pc) /\ (pc = "idle" => Accepted)
  BY DEF Connect, Accepted, Outside
<1>4. ProcTyped'
  BY SMTT(60), <1>1, <1>2, <1>3, GotoMoves DEF ProcTyped, Moves
<1>5. Accepted' = Accepted
  BY <1>1 DEF Accepted, R
<1>6. ConnectedAccepted'
  BY <1>3, <1>5, GotoMoves DEF ConnectedAccepted, Moves, Outside
<1>7. TypeOK' /\ LogTyped'
  BY <1>1 DEF TypeOK, LogTyped, Slots, Depth, R
<1> QED
  BY <1>4, <1>6, <1>7

\* Call either refuses the key at once or starts the method.
LEMMA CallShape ==
    ASSUME BaseInv, NEW c \in Clients, Call(c)
    PROVE  LET call == Head(script[c])
           IN  /\ proc[c].call = None /\ call \in Calls
               /\ UNCHANGED <<seg, daemon, recBump, strBump, index, rec, heap, pushed, head, granted, unlogged, last>>
               /\ script' \in [Clients -> Seq(Calls)]
               /\ DOMAIN proc' = Clients /\ DOMAIN proc'[c] = ProcFields
               /\ \A d \in Clients \ {c} : proc'[d] = proc[d]
               /\ \/ Returns(c) /\ raced' = raced
                  \/ /\ proc'[c].call = call /\ CallOK(proc'[c])
                     /\ proc'[c].pc = FirstStep(call)
                     /\ proc'[c].off \in IF call.op \in {"mirror", "add"} THEN KnownOffsets ELSE {0}
                     /\ raced' = raced \cup
                           {x \in {Subject(call)} : \E d \in Clients \ {c} :
                               /\ Active(d) /\ Subject(proc[d].call) = x
                               /\ IsWrite(call.op) \/ IsWrite(Op(d))}
<1> DEFINE call == Head(script[c])
<1> USE DEF BaseInv
<1>1. /\ UNCHANGED <<seg, daemon, recBump, strBump, index, rec, heap, pushed, head, granted, unlogged, last>>
      /\ proc[c].pc = "idle" /\ script[c] # <<>> /\ script' = [script EXCEPT ![c] = Tail(@)]
  BY DEF Call, mem, ring
<1>2. script[c] \in Seq(Calls) /\ call \in Calls /\ script' \in [Clients -> Seq(Calls)]
  BY <1>1 DEF ProcTyped
<1>3. proc[c].call = None
  BY <1>1 DEF ProcTyped, CallOK, OpAt, Allocating, Binding, Storing, Saving, Reading, Pointing, SavingPayload
<1> HIDE DEF call
<1>4. CASE call.key \in InvalidKeys
  <2>1. PICK res : Finish(c, res, None) /\ raced' = raced
    BY <1>4 DEF Call, call
  <2>2. Returns(c)
    BY <2>1, FinishReturns
  <2> QED
    BY <1>1, <1>2, <1>3, <2>1, <2>2 DEF Returns, call
<1>5. CASE call.key \notin InvalidKeys
  <2>1. PICK off \in IF call.op \in {"mirror", "add"} THEN KnownOffsets ELSE {0} :
           proc' = [proc EXCEPT ![c] = [Idle EXCEPT !.pc = FirstStep(call), !.call = call,
                                                    !.off = off, !.todo = call.data]]
    BY <1>5 DEF Call, call
  <2>2. /\ DOMAIN proc' = Clients /\ DOMAIN proc'[c] = ProcFields
        /\ \A d \in Clients \ {c} : proc'[d] = proc[d]
        /\ proc'[c].pc = FirstStep(call) /\ proc'[c].call = call
        /\ proc'[c].off = off /\ proc'[c].todo = call.data
    BY <2>1 DEF ProcTyped, ProcFields, Idle
  <2>3. off \in Nat
    BY <2>1 DEF KnownOffsets, TypeOK, IndexKeys
  <2>4. OpAt(FirstStep(call), call.op) /\ FirstStep(call) \in {"seedRecord", "search", "remove", "encode", "scan", "admit"}
    BY <1>2, <1>5, CallFacts
       DEF FirstStep, OpAt, Allocating, Binding, Storing, Saving, Reading, Pointing, SavingPayload
  <2>5. CallOK(proc'[c])
    BY SMTT(60), <1>2, <1>5, <2>2, <2>3, <2>4, CallFacts DEF CallOK, Binding, Storing, Pointing, SavingPayload, StringField
  <2>6. raced' = raced \cup
                   {x \in {Subject(call)} : \E d \in Clients \ {c} :
                       /\ Active(d) /\ Subject(proc[d].call) = x
                       /\ IsWrite(call.op) \/ IsWrite(Op(d))}
    BY <1>5 DEF Call, call
  <2> QED
    BY SMTT(60), <1>1, <1>2, <1>3, <2>1, <2>2, <2>5, <2>6 DEF call
<1> QED
  BY SMTT(60), <1>4, <1>5

LEMMA SubjectTyped ==
    ASSUME NEW call \in Calls, call.key \notin InvalidKeys
    PROVE  Subject(call) \in IndexKeys \cup OverlongKeys \cup {[value |-> e.value] : e \in Entries}
<1>1. CASE call.op \in {"add", "remove"}
  BY <1>1, CallFacts DEF Subject
<1>2. CASE call.op \notin {"add", "remove"}
  BY <1>2, CallFacts DEF Subject, IndexKeys
<1> QED
  BY <1>1, <1>2

LEMMA CallBase ==
    ASSUME BaseInv, NEW c \in Clients, Call(c)
    PROVE  BaseInv'
<1> DEFINE call == Head(script[c])
<1>0. /\ UNCHANGED <<seg, daemon, recBump, strBump, index, rec, pushed, head>>
      /\ script' \in [Clients -> Seq(Calls)] /\ call \in Calls
      /\ DOMAIN proc' = Clients /\ DOMAIN proc'[c] = ProcFields
      /\ \A d \in Clients \ {c} : proc'[d] = proc[d]
      /\ \/ Returns(c)
         \/ proc'[c].call = call /\ CallOK(proc'[c])
  BY CallShape
<1> USE DEF BaseInv
<1>1. ProcTyped'
  BY <1>0, WorkloadAssumption DEF ProcTyped, Returns, Outside
<1>2. Accepted' = Accepted
  BY CallShape DEF Accepted, R
<1>3. ConnectedAccepted'
  <2>1. Accepted
    BY DEF Call, ConnectedAccepted
  <2> QED
    BY SMTT(60), <1>2, <2>1 DEF ConnectedAccepted
<1>4. raced' \subseteq IndexKeys \cup OverlongKeys \cup {[value |-> e.value] : e \in Entries}
  <2>1. CASE raced' = raced
    BY <2>1 DEF TypeOK
  <2>2. CASE raced' \subseteq raced \cup {Subject(call)} /\ CallOK(proc'[c]) /\ proc'[c].call = call
    <3>1. Subject(call) \in IndexKeys \cup OverlongKeys \cup {[value |-> e.value] : e \in Entries}
      BY <2>2, SubjectTyped DEF CallOK
    <3> QED
      BY <2>2, <3>1 DEF TypeOK
  <2> QED
    BY <2>1, <2>2, CallShape
<1>5. TypeOK' /\ LogTyped'
  BY <1>0, <1>4 DEF TypeOK, LogTyped, Slots, Depth, R
<1> QED
  BY <1>1, <1>3, <1>5

LEMMA DrainBase == ASSUME BaseInv, Drain PROVE BaseInv'
<1> USE DEF BaseInv
<1>1. UNCHANGED <<seg, daemon, recBump, strBump, index, rec, heap, pushed, proc, script, granted, raced>>
  BY DEF Drain, mem, hist
<1>2. ProcTyped' /\ LogTyped' /\ ConnectedAccepted'
  BY <1>1 DEF ProcTyped, LogTyped, ConnectedAccepted, Accepted, R
<1>3. Len(pushed) \in Nat /\ head \in 0 .. Len(pushed) /\ head' \in 0 .. Len(pushed) /\ head' >= head
  BY DEF Drain, TypeOK, LogTyped
<1>4. Depth' <= R.ringCapacity
  <2>1. R.ringCapacity \in Nat
    BY SegmentAssumption DEF TypeOK, R, Regions
  <2> QED
    BY <1>1, <1>3, <2>1 DEF Depth, TypeOK
<1>5. TypeOK'
  BY <1>1, <1>3, <1>4 DEF TypeOK, Slots, R
<1> QED
  BY <1>2, <1>5

LEMMA NextBase == BaseInv /\ [Next]_vars => BaseInv'
<1> SUFFICES ASSUME BaseInv, [Next]_vars PROVE BaseInv'
  OBVIOUS
<1>1. CASE Drain
  BY <1>1, DrainBase
<1>2. ASSUME NEW c \in Clients, Connect(c) \/ Call(c) \/ Step(c) PROVE BaseInv'
  BY <1>2, ConnectBase, CallBase, StepBase
<1>3. CASE UNCHANGED vars
  BY <1>3 DEF vars, mem, ring, hist, BaseInv, TypeOK, ProcTyped, LogTyped, ConnectedAccepted, Accepted, Slots, Depth, R
<1> QED
  BY <1>1, <1>2, <1>3 DEF Next

(* Types, call arguments and the accepted layout, in every reachable state. *)
THEOREM BaseInvariant == Spec => []BaseInv
  BY InitBase, NextBase, PTL DEF Spec

(* Every variable of the clients keeps its type: whatever is asked of      *)
(* them, the bump words stay inside their 32 bits and the ring inside its  *)
(* capacity.                                                               *)
THEOREM ClientTypeCorrect == Spec => []TypeOK
<1>1. BaseInv => TypeOK
  BY DEF BaseInv
<1> QED
  BY <1>1, BaseInvariant, PTL

(* The checks of readRegions and validateRegions are enough: whatever      *)
(* region table a segment carries, a client that is past its constructor   *)
(* never has two regions over each other, over the header, or past the     *)
(* mapping.                                                                *)
THEOREM LayoutIsSound == Spec => []ConnectedLayoutIsSound
<1>1. BaseInv => ConnectedLayoutIsSound
  BY AcceptedIsSound DEF BaseInv, ConnectedAccepted, TypeOK, ConnectedLayoutIsSound
<1> QED
  BY <1>1, BaseInvariant, PTL

-----------------------------------------------------------------------------
(* The steps at which a call acquires something it goes on to bind or to   *)
(* refer to; every other step leaves that stage or keeps what it holds.    *)

Keeps(c) ==
    /\ proc'[c].call = proc[c].call /\ proc'[c].off = proc[c].off /\ proc'[c].at = proc[c].at
    /\ proc'[c].len = proc[c].len /\ proc'[c].todo = proc[c].todo

Referring(p) == p.pc \in {"setOffset", "setLength"} \/ StringField(p)

Holding(p) == p.pc \in Binding \cup {"scan"} \cup SavingPayload \cup {"addPayload"} \/ Referring(p)

LEMMA Releases ==
    ASSUME BaseInv, NEW c \in Clients,
           \/ SeedRecord(c) \/ PushTimeout(c) \/ Bind(c) \/ FillDone(c) \/ FillInvalid(c) \/ SetNumber(c)
           \/ SeedString(c) \/ AddString(c) \/ Copy(c) \/ PushField(c) \/ SaveInvalid(c)
           \/ Search(c) \/ LoadOffset(c) \/ LoadLength(c) \/ Decode(c) \/ ReadPayload(c) \/ remove_index(c)
    PROVE  ~Holding(proc'[c])
<1> USE DEF Holding, Referring, StringField, Binding, SavingPayload
<1>0. ProcTyped
  BY DEF BaseInv
<1>1. ASSUME NEW res, NEW value, Finish(c, res, value) PROVE ~Holding(proc'[c])
  BY <1>0, <1>1, FinishReturns DEF Returns
<1>2. ASSUME NEW pc, Goto(c, pc), pc \in {"addRecord", "fill", "addString", "copy", "notify"}
      PROVE  ~Holding(proc'[c])
  BY <1>0, <1>2, GotoMoves DEF Moves
<1>3. CASE SetNumber(c)
  BY <1>0, <1>3, GotoMoves DEF SetNumber, Filling, Field, Moves
<1>4. CASE AddString(c) \/ PushField(c) \/ Search(c) \/ LoadOffset(c) \/ LoadLength(c)
  <2>1. ASSUME NEW pc, proc'[c].pc = pc, pc \in {"copy", "fill", "seedRecord", "payload", "loadOffset", "loadLength", "decode"}
        PROVE  ~Holding(proc'[c])
    BY <2>1
  <2>2. CASE AddString(c)
    BY <1>0, <2>1, <2>2, <1>1 DEF AddString, ProcTyped, ProcFields
  <2>3. CASE PushField(c) \/ LoadOffset(c) \/ LoadLength(c)
    BY <1>0, <2>1, <2>3 DEF PushField, LoadOffset, LoadLength, ProcTyped, ProcFields
  <2>4. CASE Search(c)
    <3>1. CASE proc' = [proc EXCEPT ![c].pc = "seedRecord", ![c].value = "created"]
      BY <1>0, <2>1, <3>1 DEF ProcTyped, ProcFields
    <3>2. CASE proc' = [proc EXCEPT ![c].pc = "payload", ![c].off = index[Key(c)]]
      BY <1>0, <2>1, <3>2 DEF ProcTyped, ProcFields
    <3>3. CASE proc' = [proc EXCEPT ![c].off = index[Key(c)],
                                    ![c].pc = IF Op(c) = "find" THEN "loadOffset" ELSE "fill"]
      BY <1>0, <2>1, <3>3 DEF ProcTyped, ProcFields
    <3> QED
      BY <1>1, <2>4, <3>1, <3>2, <3>3 DEF Search
  <2> QED
    BY <1>4, <2>2, <2>3, <2>4
<1>5. CASE SeedRecord(c) \/ Copy(c)
  BY <1>2, <1>5 DEF SeedRecord, Copy
<1>6. CASE PushTimeout(c) \/ FillDone(c) \/ FillInvalid(c) \/ SaveInvalid(c)
  BY <1>1, <1>6 DEF PushTimeout, FillDone, FillInvalid, SaveInvalid
<1>7. CASE Decode(c) \/ ReadPayload(c) \/ remove_index(c)
  BY <1>1, <1>7 DEF Decode, ReadPayload, remove_index
<1>8. CASE Bind(c) \/ SeedString(c)
  BY <1>1, <1>2, <1>8 DEF Bind, SeedString
<1> QED
  BY <1>3, <1>4, <1>5, <1>6, <1>7, <1>8

\* Where each thing held comes from.
LEMMA Acquires ==
    ASSUME BaseInv, NEW c \in Clients, Step(c), Holding(proc'[c])
    PROVE  \/ /\ AddRecord(c) /\ proc'[c].pc = "admit" /\ proc'[c].call = proc[c].call /\ proc'[c].off = recBump
              /\ granted' = granted \cup {Grant("record", recBump, Stride)}
           \/ /\ Admit(c) \/ AllocKey(c) \/ PushKey(c) \/ UniqueScan(c)
              /\ proc[c].pc \in Binding \cup {"scan"} /\ proc'[c].pc \in Binding /\ Keeps(c)
           \/ /\ SeedPayload(c) /\ proc'[c].pc = "addPayload" /\ Keeps(c)
           \/ /\ AddPayload(c) /\ proc'[c].pc = "copyPayload" /\ proc'[c].call = proc[c].call
              /\ proc'[c].todo = proc[c].todo /\ proc'[c].at = strBump
              /\ proc'[c].len = catalogEncodedLen(Len(Field(c).value))
              /\ granted' = granted \cup {Grant("catalog", strBump, catalogEncodedLen(Len(Field(c).value)))}
           \/ CopyPayload(c) /\ proc'[c].pc = "notifyPayload" /\ Keeps(c)
           \/ /\ NotifyPayload(c) /\ proc'[c].pc = "admit" /\ proc'[c].call = proc[c].call
              /\ proc'[c].off = proc[c].at
           \/ Notify(c) /\ proc'[c].pc = "setOffset" /\ Keeps(c) /\ pushed' = Append(pushed, Announcement(c))
           \/ /\ SetOffset(c) \/ SetLength(c)
              /\ proc'[c].pc \in {"setLength", "pushField"} /\ Keeps(c)
<1>0. ProcTyped
  BY DEF BaseInv
<1>1. ASSUME NEW res, NEW value, Finish(c, res, value) PROVE FALSE
  BY <1>0, <1>1, FinishReturns DEF Returns, Holding, Referring, StringField, Binding, SavingPayload
<1>2. ASSUME NEW pc, Goto(c, pc) PROVE proc'[c].pc = pc /\ Keeps(c)
  BY <1>0, <1>2, GotoMoves DEF Moves, Keeps
<1>3. CASE AddRecord(c)
  BY <1>0, <1>1, <1>3 DEF AddRecord, ProcTyped, ProcFields
<1>4. CASE Admit(c) \/ AllocKey(c) \/ PushKey(c) \/ UniqueScan(c)
  <2>1. \/ Goto(c, "bind") /\ proc[c].pc \in Binding
        \/ Goto(c, "allocKey") /\ proc[c].pc \in Binding
        \/ Goto(c, "pushKey") /\ proc[c].pc \in Binding
        \/ Goto(c, "admit") /\ proc[c].pc = "scan"
    BY <1>1, <1>4 DEF Admit, AllocKey, PushKey, UniqueScan, Binding
  <2> QED
    BY <1>2, <1>4, <2>1 DEF Binding
<1>5. CASE SeedPayload(c) \/ CopyPayload(c)
  BY <1>2, <1>5 DEF SeedPayload, CopyPayload
<1>6. CASE AddPayload(c)
  <2> DEFINE n == catalogEncodedLen(Len(Field(c).value))
  <2>1. ASSUME proc' = [proc EXCEPT ![c].pc = "copyPayload", ![c].at = strBump, ![c].len = n]
        PROVE  /\ proc'[c].pc = "copyPayload" /\ proc'[c].call = proc[c].call
               /\ proc'[c].todo = proc[c].todo /\ proc'[c].at = strBump /\ proc'[c].len = n
    BY <1>0, <2>1 DEF ProcTyped, ProcFields
  <2>2. /\ proc' = [proc EXCEPT ![c].pc = "copyPayload", ![c].at = strBump, ![c].len = n]
        /\ granted' = granted \cup {Grant("catalog", strBump, n)}
    BY <1>1, <1>6 DEF AddPayload
  <2> QED
    BY <1>6, <2>1, <2>2
<1>7. CASE NotifyPayload(c)
  BY <1>0, <1>7 DEF NotifyPayload, ProcTyped, ProcFields
<1>8. CASE Notify(c)
  BY <1>1, <1>2, <1>8 DEF Notify
<1>9. CASE SetOffset(c) \/ SetLength(c)
  BY <1>2, <1>9 DEF SetOffset, SetLength
<1> QED
  BY <1>3, <1>4, <1>5, <1>6, <1>7, <1>8, <1>9, Releases DEF Step, DeleteKey, unmirrorPk, RemoveEntry

-----------------------------------------------------------------------------
(* Bindings refer to allocated spans. *)

AllocInv == HeldAllocated /\ BoundToAllocated

\* Grants are never taken back.
LEMMA GrantedGrows ==
    ASSUME NEW c \in Clients, Step(c)
    PROVE  granted \subseteq granted'
<1>1. CASE AddRecord(c) \/ AllocKey(c) \/ AddString(c) \/ AddPayload(c)
  BY <1>1 DEF AddRecord, AllocKey, AddString, AddPayload
<1> QED
  BY <1>1, StepFrame

\* Only client c's place in proc changes in a step of c.
LEMMA OthersStay ==
    ASSUME BaseInv, NEW c \in Clients, Step(c) \/ Call(c) \/ Connect(c), NEW d \in Clients, d # c
    PROVE  proc'[d] = proc[d]
<1>1. CASE Step(c)
  BY <1>1, StepProceeds DEF BaseInv, Proceeds, Returns, Moves
<1>2. CASE Call(c)
  BY <1>2, CallShape
<1>3. CASE Connect(c)
  BY <1>3 DEF Connect, Goto, BaseInv, ProcTyped
<1> QED
  BY <1>1, <1>2, <1>3

\* Some span at lo was, or is now, handed out for an op.
LEMMA AllocatedStays ==
    ASSUME granted \subseteq granted', NEW call, NEW lo, AllocatedFor(call, lo)
    PROVE  \E g \in granted' : g.lo = lo /\ g.kind = IF call.op = "save" THEN "catalog" ELSE "record"
  BY DEF AllocatedFor

LEMMA StepHeld ==
    ASSUME BaseInv, AllocInv, NEW c \in Clients, Step(c)
    PROVE  HeldAllocated'
<1> DEFINE Now(call, lo) ==
        \E g \in granted' : g.lo = lo /\ g.kind = IF call.op = "save" THEN "catalog" ELSE "record"
<1>0. granted \subseteq granted'
  BY GrantedGrows
<1>1. ASSUME NEW d \in Clients
      PROVE  /\ proc[d].pc \in Binding \cup {"scan"} => Now(proc[d].call, proc[d].off)
             /\ proc[d].pc \in SavingPayload => Now(proc[d].call, proc[d].at)
  BY <1>0, AllocatedStays DEF AllocInv, HeldAllocated
<1>2. CallOK(proc[c])
  BY StepProceeds DEF BaseInv
<1>3. /\ proc'[c].pc \in Binding \cup {"scan"} => Now(proc'[c].call, proc'[c].off)
      /\ proc'[c].pc \in SavingPayload => Now(proc'[c].call, proc'[c].at)
  <2>1. CASE ~Holding(proc'[c])
    BY <2>1 DEF Holding
  <2>2. CASE /\ AddRecord(c) /\ proc'[c].pc = "admit" /\ proc'[c].call = proc[c].call /\ proc'[c].off = recBump
             /\ granted' = granted \cup {Grant("record", recBump, Stride)}
    <3>1. proc[c].call.op # "save"
      BY <1>2, <2>2 DEF AddRecord, CallOK, OpAt, Allocating, Binding, Storing, Saving, Reading, Pointing, SavingPayload
    <3>2. Grant("record", recBump, Stride).lo = recBump /\ Grant("record", recBump, Stride).kind = "record"
      BY DEF Grant
    <3> QED
      BY <2>2, <3>1, <3>2 DEF SavingPayload
  <2>3. CASE proc[c].pc \in Binding \cup {"scan"} /\ proc'[c].pc \in Binding /\ Keeps(c)
    BY <1>1, <2>3 DEF Keeps, Binding, SavingPayload
  <2>4. CASE proc'[c].pc \in {"addPayload", "setOffset", "setLength", "pushField"}
    BY <2>4 DEF Binding, SavingPayload
  <2>5. CASE /\ AddPayload(c) /\ proc'[c].pc = "copyPayload" /\ proc'[c].call = proc[c].call /\ proc'[c].at = strBump
             /\ granted' = granted \cup {Grant("catalog", strBump, catalogEncodedLen(Len(Field(c).value)))}
    <3> DEFINE g == Grant("catalog", strBump, catalogEncodedLen(Len(Field(c).value)))
    <3>1. proc[c].call.op = "save"
      BY <1>2, <2>5 DEF AddPayload, CallOK, OpAt, Allocating, Binding, Storing, Saving, Reading, Pointing, SavingPayload
    <3>2. g.lo = strBump /\ g.kind = "catalog"
      BY DEF Grant
    <3> HIDE DEF g
    <3>3. g \in granted'
      BY <2>5 DEF g
    <3> QED
      BY <2>5, <3>1, <3>2, <3>3 DEF Binding
  <2>6. CASE CopyPayload(c) /\ proc'[c].pc = "notifyPayload" /\ Keeps(c)
    BY <1>1, <2>6 DEF CopyPayload, Keeps, Binding, SavingPayload
  <2>7. CASE NotifyPayload(c) /\ proc'[c].pc = "admit" /\ proc'[c].call = proc[c].call /\ proc'[c].off = proc[c].at
    BY <1>1, <2>7 DEF NotifyPayload, Binding, SavingPayload
  <2> QED
    BY <2>1, <2>2, <2>3, <2>4, <2>5, <2>6, <2>7, Acquires
<1> QED
  BY <1>1, <1>3, OthersStay DEF HeldAllocated, AllocatedFor

\* A call's key names a table exactly if the call is one of the catalog store.
LEMMA TableKeys ==
    ASSUME NEW call \in Calls, call.key \notin InvalidKeys
    PROVE  call.key \in Tables <=> call.op \in {"save", "load"}
  BY CallFacts, NamespaceAssumption DEF IndexKeys

LEMMA StepBound ==
    ASSUME BaseInv, AllocInv, NEW c \in Clients, Step(c)
    PROVE  BoundToAllocated'
<1>0. granted \subseteq granted'
  BY GrantedGrows
<1>1. CallOK(proc[c]) /\ index \in [IndexKeys -> Nat]
  BY StepProceeds DEF BaseInv, TypeOK
<1>2. CASE index' = index
  BY <1>0, <1>2 DEF AllocInv, BoundToAllocated
<1>3. ASSUME NEW k \in IndexKeys, NEW v, index' = [index EXCEPT ![k] = v],
             v # 0 => \E g \in granted : g.lo = v /\ g.kind = IF k \in Tables THEN "catalog" ELSE "record"
      PROVE  BoundToAllocated'
  BY <1>0, <1>1, <1>3 DEF AllocInv, BoundToAllocated
<1>4. CASE Bind(c)
  <2>1. Key(c) \in IndexKeys
    BY <1>1, <1>4, KeyOfBinding DEF Bind, CallOK, Binding, Key
  <2>2. AllocatedFor(proc[c].call, proc[c].off)
    BY <1>4 DEF Bind, AllocInv, HeldAllocated, Binding
  <2>3. Key(c) \in Tables <=> proc[c].call.op = "save"
    BY <1>1, <1>4, TableKeys
       DEF Key, Bind, CallOK, OpAt, Allocating, Binding, Storing, Saving, Reading, Pointing, SavingPayload
  <2> QED
    BY <1>2, <1>3, <1>4, <2>1, <2>2, <2>3 DEF Bind, AllocatedFor
<1>5. CASE remove_index(c)
  <2>1. Key(c) \in OverlongKeys \/ Key(c) \in IndexKeys
    BY <1>1, <1>5, KeyOfBinding DEF remove_index
  <2> QED
    BY <1>2, <1>3, <1>5, <2>1 DEF remove_index
<1> QED
  BY <1>2, <1>4, <1>5, StepFrame

LEMMA CallAlloc ==
    ASSUME BaseInv, AllocInv, NEW c \in Clients, Call(c)
    PROVE  AllocInv'
<1> DEFINE call == Head(script[c])
<1>1. index' = index /\ granted' = granted
  BY CallShape
<1>2. BoundToAllocated'
  BY <1>1 DEF AllocInv, BoundToAllocated
<1>3. CASE Returns(c)
  <2>1. proc'[c].pc = "idle"
    BY <1>3 DEF Returns
  <2> QED
    BY <1>1, <1>2, <2>1, OthersStay DEF AllocInv, HeldAllocated, AllocatedFor, Binding, SavingPayload
<1>4. CASE /\ proc'[c].call = call /\ CallOK(proc'[c]) /\ proc'[c].pc = FirstStep(call)
           /\ proc'[c].off \in IF call.op \in {"mirror", "add"} THEN KnownOffsets ELSE {0}
  <2>1. call.op = "mirror" => FirstStep(call) = "admit"
    BY DEF FirstStep
  <2>2. call \in Calls /\ call.key \notin InvalidKeys
    BY <1>4 DEF CallOK
  <2>3. proc'[c].pc \in Binding \cup {"scan"} => call.op \in {"mirror", "add"}
    BY <1>4, <2>2, CallFacts DEF FirstStep, Binding
  <2>4. proc'[c].pc \notin SavingPayload
    BY <1>4, <2>2, CallFacts DEF FirstStep, SavingPayload
  <2>5. ASSUME proc'[c].off \in KnownOffsets
        PROVE  \E g \in granted : g.lo = proc'[c].off /\ g.kind = "record"
    <3>1. PICK k \in Keys : proc'[c].off = index[k] /\ index[k] # 0
      BY <2>5 DEF KnownOffsets
    <3>2. k \notin Tables /\ k \in IndexKeys
      BY NamespaceAssumption DEF IndexKeys
    <3> QED
      BY <3>1, <3>2 DEF AllocInv, BoundToAllocated
  <2>6. proc'[c].pc \in Binding \cup {"scan"} => AllocatedFor(proc'[c].call, proc'[c].off)
    BY <1>4, <2>3, <2>5 DEF AllocatedFor
  <2> QED
    BY <1>1, <1>2, <2>4, <2>6, OthersStay DEF AllocInv, HeldAllocated, AllocatedFor
<1> QED
  BY <1>3, <1>4, CallShape

LEMMA NextAlloc == BaseInv /\ AllocInv /\ [Next]_vars => AllocInv'
<1> SUFFICES ASSUME BaseInv, AllocInv, [Next]_vars PROVE AllocInv'
  OBVIOUS
<1>1. CASE Drain \/ UNCHANGED vars
  BY <1>1 DEF Drain, vars, mem, hist, AllocInv, HeldAllocated, BoundToAllocated, AllocatedFor
<1>2. ASSUME NEW c \in Clients, Connect(c) PROVE AllocInv'
  <2>1. index' = index /\ granted' = granted /\ proc'[c].pc \in Outside
    BY <1>2 DEF Connect, Goto, mem, hist, BaseInv, ProcTyped, ProcFields, Outside
  <2> QED
    BY <1>2, <2>1, OthersStay DEF AllocInv, HeldAllocated, BoundToAllocated, AllocatedFor, Outside, Binding, SavingPayload
<1>3. ASSUME NEW c \in Clients, Call(c) \/ Step(c) PROVE AllocInv'
  BY <1>3, CallAlloc, StepHeld, StepBound DEF AllocInv
<1> QED
  BY <1>1, <1>2, <1>3 DEF Next

(* Every key of the index is bound to the start of a span an allocator     *)
(* handed out for it: a row, a mirrored key or a secondary entry to a      *)
(* record, a table to a catalog payload, whatever calls race.              *)
THEOREM BindingsAreAllocated == Spec => []BoundToAllocated
<1>1. Init => AllocInv
  BY DEF Init, AllocInv, HeldAllocated, BoundToAllocated, Idle, Binding, SavingPayload
<1>2. AllocInv => BoundToAllocated
  BY DEF AllocInv
<1> QED
  BY <1>1, <1>2, NextAlloc, BaseInvariant, PTL DEF Spec

-----------------------------------------------------------------------------
(* The log refers backwards. *)

LogInv == ReferencesAnnounced /\ LogRefersBackwards

AnnouncedNow(lo, n) == \E j \in 1 .. Len(pushed') : pushed'[j] = [kind |-> "arena", lo |-> lo, hi |-> lo + n]

LEMMA AppendFacts ==
    ASSUME LogTyped, NEW d, pushed' = Append(pushed, d)
    PROVE  /\ Len(pushed) \in Nat /\ Len(pushed') = Len(pushed) + 1
           /\ pushed'[Len(pushed) + 1] = d
           /\ \A i \in 1 .. Len(pushed) : pushed'[i] = pushed[i]
  BY DEF LogTyped

LEMMA AppendBackwards ==
    ASSUME LogTyped, LogRefersBackwards, NEW d, pushed' = Append(pushed, d),
           d.kind = "field" /\ d.field = "str" => Announced(d.words[1], d.words[2]),
           d.kind = "index" /\ d.key \in Tables => \E n \in PayloadLengths : Announced(d.off, n)
    PROVE  LogRefersBackwards'
<1>1. /\ Len(pushed) \in Nat /\ Len(pushed') = Len(pushed) + 1 /\ pushed'[Len(pushed) + 1] = d
      /\ \A i \in 1 .. Len(pushed) : pushed'[i] = pushed[i]
  BY AppendFacts
<1> DEFINE A(m, lo, n) == \E j \in 1 .. m : pushed'[j] = [kind |-> "arena", lo |-> lo, hi |-> lo + n]
<1>2. ASSUME NEW i \in 1 .. Len(pushed')
      PROVE  /\ pushed'[i].kind = "field" /\ pushed'[i].field = "str" =>
                   A(i - 1, pushed'[i].words[1], pushed'[i].words[2])
             /\ pushed'[i].kind = "index" /\ pushed'[i].key \in Tables =>
                   \E n \in PayloadLengths : A(i - 1, pushed'[i].off, n)
  <2>1. CASE i = Len(pushed) + 1
    <3>1. pushed'[i] = d /\ i - 1 = Len(pushed)
      BY <1>1, <2>1
    <3>2. ASSUME NEW lo, NEW n, Announced(lo, n) PROVE A(i - 1, lo, n)
      BY <1>1, <3>1, <3>2 DEF Announced
    <3> HIDE DEF A
    <3> QED
      BY <3>1, <3>2
  <2>2. CASE i \in 1 .. Len(pushed)
    <3>1. \A j \in 1 .. i - 1 : pushed'[j] = pushed[j]
      BY <1>1, <2>2
    <3> QED
      BY ZenonT(60), <1>1, <2>2, <3>1 DEF LogRefersBackwards, PayloadLengths
  <2> QED
    BY <1>1, <2>1, <2>2
<1> QED
  BY <1>2 DEF LogRefersBackwards, PayloadLengths

LEMMA AnnouncedStays ==
    ASSUME LogTyped, pushed' = pushed \/ \E d : pushed' = Append(pushed, d),
           NEW lo, NEW n, Announced(lo, n)
    PROVE  AnnouncedNow(lo, n)
<1>1. CASE pushed' = pushed
  BY <1>1 DEF Announced, AnnouncedNow
<1>2. ASSUME NEW d, pushed' = Append(pushed, d) PROVE AnnouncedNow(lo, n)
  BY <1>2, AppendFacts DEF Announced, AnnouncedNow
<1> QED
  BY <1>1, <1>2

LEMMA EncodableLength ==
    ASSUME NEW d \in Descriptors, NEW name, Encodable(name, d.value)
    PROVE  catalogEncodedLen(Len(d.value)) \in PayloadLengths
<1>1. Len(d.value) \in Nat /\ Len(d.value) <= MaxCatalogCols /\ MaxCatalogCols \in Nat
  BY PayloadLength, CatalogRecordAssumption DEF Encodable
<1> QED
  BY SMTT(60), <1>1, EncodedLenFacts DEF PayloadLengths

LEMMA StepLog ==
    ASSUME BaseInv, LogInv, NEW c \in Clients, Step(c)
    PROVE  LogRefersBackwards'
<1>1. CallOK(proc[c]) /\ LogTyped
  BY StepProceeds DEF BaseInv
<1>2. CASE pushed' = pushed
  BY <1>2 DEF LogInv, LogRefersBackwards
<1>3. CASE PushKey(c)
  <2> DEFINE d == [kind |-> "index", key |-> Key(c), off |-> proc[c].off]
  <2>1. d.key \in Tables => Op(c) = "save"
    BY <1>1, <1>3, TableKeys
       DEF Key, Op, PushKey, CallOK, OpAt, Allocating, Binding, Storing, Saving, Reading, Pointing, SavingPayload
  <2>2. d.key \in Tables => \E n \in PayloadLengths : Announced(d.off, n)
    BY <1>3, <2>1 DEF PushKey, LogInv, ReferencesAnnounced, Binding
  <2>3. d.kind = "index" /\ pushed' = Append(pushed, d)
    BY <1>3 DEF PushKey
  <2> HIDE DEF d
  <2> QED
    BY <1>1, <2>2, <2>3, AppendBackwards DEF LogInv
<1>4. CASE Notify(c) \/ NotifyPayload(c)
  <2>1. Announcement(c).kind = "arena"
    BY DEF Announcement
  <2> QED
    BY <1>1, <1>2, <1>4, <2>1, AppendBackwards DEF Notify, NotifyPayload, LogInv
<1>5. CASE PushField(c)
  <2> DEFINE w == IF Field(c).field = "num" THEN <<Field(c).value>> ELSE <<proc[c].at, proc[c].len>>
             d == [kind |-> "field", off |-> proc[c].off, field |-> Field(c).field, words |-> w]
  <2>1. d.field = "str" => d.words[1] = proc[c].at /\ d.words[2] = proc[c].len
    OBVIOUS
  <2>2. d.field = "str" => Announced(proc[c].at, proc[c].len)
    BY <1>5 DEF PushField, LogInv, ReferencesAnnounced, StringField, Field
  <2>3. d.kind = "field" /\ pushed' = Append(pushed, d)
    BY <1>5 DEF PushField
  <2> HIDE DEF d
  <2> QED
    BY <1>1, <2>1, <2>2, <2>3, AppendBackwards DEF LogInv
<1> QED
  BY <1>2, <1>3, <1>4, <1>5, StepFrame

LEMMA StepAnnounced ==
    ASSUME BaseInv, LogInv, NEW c \in Clients, Step(c)
    PROVE  ReferencesAnnounced'
<1> DEFINE Good(p) ==
        /\ Referring(p) => AnnouncedNow(p.at, p.len)
        /\ p.pc = "addPayload" => Encodable(NameOf[p.call.key], p.todo[1].value)
        /\ p.pc \in SavingPayload => p.len \in PayloadLengths
        /\ p.pc \in Binding /\ p.call.op = "save" => \E n \in PayloadLengths : AnnouncedNow(p.off, n)
<1>1. CallOK(proc[c]) /\ LogTyped
  BY StepProceeds DEF BaseInv
<1>2. pushed' = pushed \/ \E d : pushed' = Append(pushed, d)
  BY PushesOne DEF BaseInv
<1>3. ASSUME NEW d \in Clients PROVE Good(proc[d])
  BY <1>1, <1>2, AnnouncedStays DEF LogInv, ReferencesAnnounced, Referring, Key, Op, Field
<1>4. ASSUME NEW lo, NEW n, pushed' = Append(pushed, [kind |-> "arena", lo |-> lo, hi |-> lo + n])
      PROVE  AnnouncedNow(lo, n)
  BY <1>1, <1>4, AppendFacts DEF AnnouncedNow
<1>5. Good(proc'[c])
  <2>1. CASE ~Holding(proc'[c])
    BY <2>1 DEF Holding
  <2>2. CASE AddRecord(c) /\ proc'[c].pc = "admit" /\ proc'[c].call = proc[c].call
    <3>1. proc[c].call.op # "save"
      BY <1>1, <2>2 DEF AddRecord, CallOK, OpAt, Allocating, Binding, Storing, Saving, Reading, Pointing, SavingPayload
    <3> QED
      BY <2>2, <3>1 DEF Binding, SavingPayload, Referring, StringField
  <2>3. CASE proc[c].pc \in Binding \cup {"scan"} /\ proc'[c].pc \in Binding /\ Keeps(c)
    <3>1. proc[c].pc = "scan" => proc[c].call.op # "save"
      BY <1>1 DEF CallOK, OpAt, Allocating, Binding, Storing, Saving, Reading, Pointing, SavingPayload
    <3>2. proc[c].pc \in Binding /\ proc[c].call.op = "save" => \E n \in PayloadLengths : AnnouncedNow(proc[c].off, n)
      BY <1>3
    <3> HIDE DEF Good
    <3>3. proc'[c].pc \notin {"addPayload", "setOffset", "setLength", "pushField"} \cup SavingPayload
      BY <2>3 DEF Binding, SavingPayload
    <3> QED
      BY <2>3, <3>1, <3>2, <3>3 DEF Good, Keeps, Referring, StringField
  <2>4. CASE SeedPayload(c) /\ proc'[c].pc = "addPayload" /\ Keeps(c)
    BY <2>4 DEF SeedPayload, Keeps, Key, Field, Binding, SavingPayload, Referring, StringField
  <2>5. CASE /\ AddPayload(c) /\ proc'[c].pc = "copyPayload"
             /\ proc'[c].len = catalogEncodedLen(Len(Field(c).value))
    <3>1. Field(c) \in Descriptors
      BY <1>1, <2>5 DEF AddPayload, CallOK, OpAt, Allocating, Binding, Storing, Saving, Reading, Pointing,
         SavingPayload, Field
    <3>2. Encodable(NameOf[Key(c)], Field(c).value)
      BY <2>5 DEF AddPayload, LogInv, ReferencesAnnounced
    <3>3. proc'[c].len \in PayloadLengths
      BY <2>5, <3>1, <3>2, EncodableLength
    <3> QED
      BY <2>5, <3>3 DEF Binding, SavingPayload, Referring, StringField
  <2>6. CASE CopyPayload(c) /\ proc'[c].pc = "notifyPayload" /\ Keeps(c)
    BY <1>3, <2>6 DEF CopyPayload, Keeps, Binding, SavingPayload, Referring, StringField
  <2>7. CASE NotifyPayload(c) /\ proc'[c].pc = "admit" /\ proc'[c].call = proc[c].call /\ proc'[c].off = proc[c].at
    <3>1. AnnouncedNow(proc[c].at, proc[c].len)
      BY <1>4, <2>7 DEF NotifyPayload, Announcement
    <3>2. proc[c].len \in PayloadLengths
      BY <1>3, <2>7 DEF NotifyPayload, SavingPayload
    <3> QED
      BY <2>7, <3>1, <3>2 DEF Binding, SavingPayload, Referring, StringField
  <2>8. CASE Notify(c) /\ proc'[c].pc = "setOffset" /\ Keeps(c) /\ pushed' = Append(pushed, Announcement(c))
    <3>1. AnnouncedNow(proc[c].at, proc[c].len)
      BY <1>4, <2>8 DEF Announcement
    <3> QED
      BY <2>8, <3>1 DEF Keeps, Binding, SavingPayload
  <2>9. CASE (SetOffset(c) \/ SetLength(c)) /\ proc'[c].pc \in {"setLength", "pushField"} /\ Keeps(c)
    <3>1. AnnouncedNow(proc[c].at, proc[c].len)
      BY <1>3, <2>9 DEF SetOffset, SetLength, Referring
    <3> QED
      BY <2>9, <3>1 DEF Keeps, Binding, SavingPayload
  <2> QED
    BY <2>1, <2>2, <2>3, <2>4, <2>5, <2>6, <2>7, <2>8, <2>9, Acquires
<1>6. ASSUME NEW d \in Clients PROVE Good(proc'[d])
  BY <1>3, <1>5, OthersStay
<1> QED
  BY <1>6 DEF ReferencesAnnounced, Referring, AnnouncedNow, Announced, Key, Op, Field, PayloadLengths

LEMMA NextLog == BaseInv /\ LogInv /\ [Next]_vars => LogInv'
<1> SUFFICES ASSUME BaseInv, LogInv, [Next]_vars PROVE LogInv'
  OBVIOUS
<1> USE DEF ReferencesAnnounced, LogRefersBackwards, Announced, StringField, Field, Key, Op
<1>1. CASE Drain \/ UNCHANGED vars
  BY SMTT(60), <1>1 DEF Drain, vars, mem, ring, hist, LogInv
<1>2. ASSUME NEW c \in Clients, pushed' = pushed, \A d \in Clients \ {c} : proc'[d] = proc[d],
             ~Holding(proc'[c]) \/ (proc'[c].pc \in Binding \cup {"scan"} /\ proc'[c].call.op # "save")
      PROVE  LogInv'
  <2>1. /\ proc'[c].pc \notin {"setOffset", "setLength", "addPayload"} \cup SavingPayload
        /\ ~StringField(proc'[c])
        /\ ~(proc'[c].pc \in Binding /\ proc'[c].call.op = "save")
    BY <1>2 DEF Holding, Referring, Binding, SavingPayload
  <2> QED
    BY SMTT(60), <1>2, <2>1 DEF LogInv
<1>3. ASSUME NEW c \in Clients, Connect(c) PROVE LogInv'
  <2>1. pushed' = pushed /\ proc'[c].pc \in Outside
    BY <1>3 DEF Connect, Goto, ring, BaseInv, ProcTyped, ProcFields, Outside
  <2> QED
    BY <1>2, <1>3, <2>1, OthersStay DEF Outside, Holding, Referring, Binding, SavingPayload
<1>4. ASSUME NEW c \in Clients, Call(c) PROVE LogInv'
  <2> DEFINE call == Head(script[c])
  <2>1. pushed' = pushed /\ \A d \in Clients \ {c} : proc'[d] = proc[d]
    BY <1>4, CallShape
  <2>2. CASE Returns(c)
    BY <1>2, <2>1, <2>2 DEF Returns, Holding, Referring, Binding, SavingPayload
  <2>3. CASE proc'[c].call = call /\ CallOK(proc'[c]) /\ proc'[c].pc = FirstStep(call)
    <3>1. \/ proc'[c].pc \in {"seedRecord", "search", "remove", "encode"}
          \/ proc'[c].pc \in {"admit", "scan"} /\ call.op \in {"mirror", "add"}
      BY <2>3, CallFacts DEF FirstStep, CallOK
    <3> QED
      BY SMTT(60), <1>2, <2>1, <2>3, <3>1 DEF Holding, Referring, Binding, SavingPayload
  <2> QED
    BY <1>4, <2>2, <2>3, CallShape
<1>5. ASSUME NEW c \in Clients, Step(c) PROVE LogInv'
  BY <1>5, StepLog, StepAnnounced DEF LogInv
<1> QED
  BY <1>1, <1>3, <1>4, <1>5 DEF Next

(* In ring order every string pointer and every catalog binding comes      *)
(* after the announcement of the bytes it refers to, however the pushes of *)
(* different clients interleave.                                           *)
THEOREM LogIsBackwards == Spec => []LogRefersBackwards
<1>1. Init => LogInv
  BY DEF Init, LogInv, ReferencesAnnounced, LogRefersBackwards, Idle, Binding, SavingPayload, StringField
<1>2. LogInv => LogRefersBackwards
  BY DEF LogInv
<1> QED
  BY <1>1, <1>2, NextLog, BaseInvariant, PTL DEF Spec

-----------------------------------------------------------------------------
(* Entries of a unique index. *)

UniqueInv == RacesNoted /\ ScanStillHolds /\ UniqueUnlessRaced

\* A step that adds an entry to the index is the bind of an add.
LEMMA EntryBound ==
    ASSUME BaseInv, NEW c \in Clients, Step(c), NEW e \in Entries, index'[e] # 0
    PROVE  \/ index[e] # 0
           \/ proc[c].pc = "bind" /\ Op(c) = "add" /\ e = Key(c) /\ Active(c)
<1>1. CallOK(proc[c]) /\ index \in [IndexKeys -> Nat] /\ e \in IndexKeys /\ proc[c].call # None
  BY StepProceeds DEF BaseInv, TypeOK, IndexKeys
<1>2. ASSUME Bind(c), e = Key(c) PROVE Op(c) = "add"
  <2>1. proc[c].call \in Calls /\ proc[c].call.key \notin InvalidKeys
    BY <1>1 DEF CallOK
  <2>2. proc[c].call.op \in {"insert", "upsert", "save", "add", "mirror"} /\ e \notin OverlongKeys
    BY <1>1, <1>2 DEF Bind, Key, CallOK, OpAt, Allocating, Binding, Storing, Saving, Reading, Pointing, SavingPayload
  <2> QED
    BY <1>2, <2>1, <2>2, CallFacts, NamespaceAssumption DEF Op, Key, IndexKeys
<1>3. CASE Bind(c)
  BY <1>1, <1>2, <1>3 DEF Bind, Active
<1>4. CASE remove_index(c)
  BY <1>1, <1>4 DEF remove_index
<1> QED
  BY <1>3, <1>4, StepFrame

\* The scan of add finds every entry of its value.
LEMMA ScanFindsAll ==
    ASSUME NEW v, lookup(Indexed, v) = {}, NEW e \in Indexed
    PROVE  e.value # v
<1>1. e \in Entries
  BY DEF Indexed
<1>2. EntryTyped(e)
  BY <1>1, EntryAssumption DEF EntryTyped
<1>3. IsPrefix(valuePrefix(e.value), entryKey(e))
  BY <1>2, OwnPrefix, Zenon
<1> DEFINE S == {f \in Indexed : IsPrefix(valuePrefix(v), entryKey(f))}
<1>4. IsFiniteSet(S) /\ \A f \in S : EntryTyped(f)
  <2>1. S \in SUBSET Entries
    BY DEF Indexed
  <2> QED
    BY <2>1, EntryAssumption, FS_Subset DEF EntryTyped
<1>5. Leading(LookupCap, S) = {}
  BY Zenon DEF lookup, scanPrefix
<1>6. S = {}
  <2> HIDE DEF S
  <2> QED
    BY <1>4, <1>5, LeadingSome, ScanCapAssumption
<1> QED
  BY <1>3, <1>6

LEMMA StepUnique ==
    ASSUME BaseInv, UniqueInv, NEW c \in Clients, Step(c)
    PROVE  UniqueInv'
<1>0. raced' = raced
  BY StepFrame
<1>1. \A d \in Clients : d # c => proc'[d] = proc[d]
  BY OthersStay
<1>2. proc'[c].call = proc[c].call \/ proc'[c].call = None
  BY StepProceeds DEF BaseInv, Proceeds, Returns, Moves
<1>3. \A d \in Clients : proc'[d].call # None => proc[d].call # None /\ proc'[d].call = proc[d].call
  BY <1>1, <1>2
<1>4. RacesNoted'
  BY <1>0, <1>3 DEF UniqueInv, RacesNoted, Active, Op, Subject
<1>5. ASSUME NEW e \in Entries, index'[e] # 0
      PROVE  \/ e \in Indexed
             \/ proc[c].pc = "bind" /\ Op(c) = "add" /\ e = Key(c) /\ Active(c)
  BY <1>5, EntryBound DEF Indexed
<1>6. CallOK(proc[c])
  BY StepProceeds DEF BaseInv
<1>7. ASSUME NEW e \in Entries, index'[e] # 0, e \notin Indexed, [value |-> e.value] \notin raced
      PROVE  \A f \in Indexed : f.value # e.value
  <2>1. proc[c].pc = "bind" /\ Op(c) = "add" /\ e = Key(c)
    BY <1>5, <1>7
  <2>2. Subject(proc[c].call) = [value |-> e.value]
    BY <2>1 DEF Subject, Op, Key
  <2> QED
    BY <1>7, <2>1, <2>2 DEF UniqueInv, ScanStillHolds, Binding
<1>8. UniqueUnlessRaced'
  <2> SUFFICES ASSUME NEW e \in Entries, NEW f \in Entries, index'[e] # 0, index'[f] # 0,
                      e # f, e.value = f.value
               PROVE  [value |-> e.value] \in raced
    BY <1>0 DEF UniqueUnlessRaced, Indexed
  <2>1. CASE e \in Indexed /\ f \in Indexed
    BY <2>1 DEF UniqueInv, UniqueUnlessRaced
  <2>2. CASE e \notin Indexed /\ f \in Indexed
    BY <1>7, <2>2
  <2>3. CASE f \notin Indexed /\ e \in Indexed
    BY <1>7, <2>3
  <2>4. CASE e \notin Indexed /\ f \notin Indexed
    BY <1>5, <2>4
  <2> QED
    BY <2>1, <2>2, <2>3, <2>4
<1>9. ASSUME NEW d \in Clients, proc'[d].pc \in Binding, proc'[d].call.op = "add",
             Subject(proc'[d].call) \notin raced, NEW e \in Entries, index'[e] # 0
      PROVE  e.value # proc'[d].call.key.value
  <2>1. CASE d = c
    <3>1. Holding(proc'[c])
      BY <1>9, <2>1 DEF Holding
    <3>2. CASE AddRecord(c) /\ proc'[c].call = proc[c].call
      BY <1>6, <1>9, <2>1, <3>2 DEF AddRecord, CallOK, OpAt, Allocating, Binding, Storing, Saving, Reading, Pointing, SavingPayload
    <3>3. CASE NotifyPayload(c) /\ proc'[c].call = proc[c].call
      BY <1>6, <1>9, <2>1, <3>3 DEF NotifyPayload, CallOK, OpAt, Allocating, Binding, Storing, Saving, Reading, Pointing, SavingPayload
    <3>4. CASE (Admit(c) \/ AllocKey(c) \/ PushKey(c)) /\ Keeps(c)
      <4>1. index' = index /\ proc[c].pc \in Binding
        BY <3>4 DEF Admit, AllocKey, PushKey, mem, Binding
      <4> QED
        BY <1>9, <2>1, <3>4, <4>1 DEF UniqueInv, ScanStillHolds, Keeps, Op, Key, Indexed
    <3>5. CASE UniqueScan(c) /\ Keeps(c)
      <4>1. index' = index /\ proc[c].pc = "scan"
        BY <3>5 DEF UniqueScan, mem
      <4>2. lookup(Indexed, Key(c).value) = {}
        <5>1. ASSUME NEW res, Finish(c, res, None) PROVE FALSE
          BY <1>9, <2>1, <5>1, FinishReturns DEF BaseInv, Returns, Binding
        <5> QED
          BY <3>5, <5>1 DEF UniqueScan
      <4>3. \A f \in Indexed : f.value # Key(c).value
        BY <4>2, ScanFindsAll
      <4>4. e \in Indexed /\ Key(c) = proc'[c].call.key
        BY <1>9, <3>5, <4>1 DEF Indexed, Key, Keeps
      <4> QED
        BY <2>1, <4>3, <4>4
    <3> QED
      BY <1>9, <2>1, <3>1, <3>2, <3>3, <3>4, <3>5, Acquires DEF Binding
  <2>2. CASE d # c
    <3>1. proc'[d] = proc[d]
      BY <1>1, <2>2
    <3>2. CASE e \in Indexed
      BY <1>9, <3>1, <3>2 DEF UniqueInv, ScanStillHolds, Op, Key
    <3>3. CASE e \notin Indexed
      <4>1. Op(c) = "add" /\ e = Key(c) /\ Active(c)
        BY <1>5, <1>9, <3>3
      <4>2. Active(d)
        BY <1>9, <3>1 DEF BaseInv, ProcTyped, Active, Binding, Outside
      <4>3. ASSUME e.value = proc[d].call.key.value PROVE FALSE
        <5>1. Subject(proc[c].call) = Subject(proc[d].call)
          BY <1>9, <3>1, <4>1, <4>3 DEF Subject, Op, Key
        <5>2. IsWrite(Op(c))
          BY <4>1 DEF IsWrite
        <5>3. Subject(proc[c].call) \in raced
          BY <2>2, <4>1, <4>2, <5>1, <5>2 DEF UniqueInv, RacesNoted
        <5> QED
          BY <1>9, <3>1, <5>1, <5>3
      <4> QED
        BY <3>1, <4>3
    <3> QED
      BY <3>2, <3>3
  <2> QED
    BY <2>1, <2>2
<1>10. ScanStillHolds'
  BY <1>0, <1>9 DEF ScanStillHolds, Indexed, Op, Key, Subject
<1> QED
  BY <1>4, <1>8, <1>10 DEF UniqueInv

LEMMA CallUnique ==
    ASSUME BaseInv, UniqueInv, NEW c \in Clients, Call(c)
    PROVE  UniqueInv'
<1> DEFINE call == Head(script[c])
<1>1. index' = index /\ Indexed' = Indexed /\ proc[c].call = None
  BY CallShape DEF Indexed
<1>2. \A d \in Clients : d # c => proc'[d] = proc[d]
  BY OthersStay
<1>3. raced \subseteq raced'
  BY CallShape
<1>4. CASE proc'[c].call = None /\ proc'[c].pc = "idle"
  <2>1. RacesNoted'
    BY <1>2, <1>3, <1>4 DEF UniqueInv, RacesNoted, Active, Op, Subject
  <2>2. ScanStillHolds'
    BY <1>1, <1>2, <1>3, <1>4 DEF UniqueInv, ScanStillHolds, Op, Key, Subject, Binding
  <2> QED
    BY <1>1, <1>3, <2>1, <2>2 DEF UniqueInv, UniqueUnlessRaced
<1>5. CASE /\ proc'[c].call = call /\ CallOK(proc'[c]) /\ proc'[c].pc = FirstStep(call)
           /\ raced' = raced \cup
                 {x \in {Subject(call)} : \E d \in Clients \ {c} :
                     /\ Active(d) /\ Subject(proc[d].call) = x
                     /\ IsWrite(call.op) \/ IsWrite(Op(d))}
  <2>1. ASSUME NEW d \in Clients, d # c, Active(d), Subject(proc[d].call) = Subject(call),
               IsWrite(call.op) \/ IsWrite(Op(d))
        PROVE  Subject(call) \in raced'
    BY <1>5, <2>1
  <2> HIDE DEF call
  <2>2. RacesNoted'
    <3> SUFFICES ASSUME NEW a \in Clients, NEW d \in Clients, a # d,
                        proc'[a].call # None, proc'[d].call # None,
                        Subject(proc'[a].call) = Subject(proc'[d].call),
                        IsWrite(proc'[a].call.op) \/ IsWrite(proc'[d].call.op)
                 PROVE  Subject(proc'[a].call) \in raced'
      BY DEF RacesNoted, Active, Op, Subject
    <3>1. CASE a = c
      BY <1>2, <1>5, <2>1, <3>1 DEF Active, Op
    <3>2. CASE d = c
      BY <1>2, <1>5, <2>1, <3>2 DEF Active, Op
    <3>3. CASE a # c /\ d # c
      BY <1>2, <1>3, <3>3 DEF UniqueInv, RacesNoted, Active, Op
    <3> QED
      BY <3>1, <3>2, <3>3
  <2>3. ~(proc'[c].pc \in Binding /\ proc'[c].call.op = "add")
    BY <1>5 DEF FirstStep, Binding
  <2>4. ScanStillHolds'
    <3> SUFFICES ASSUME NEW d \in Clients, proc'[d].pc \in Binding, proc'[d].call.op = "add",
                        Subject(proc'[d].call) \notin raced', NEW e \in Indexed
                 PROVE  e.value # proc'[d].call.key.value
      BY <1>1 DEF ScanStillHolds, Op, Key, Subject
    <3>1. d # c
      BY <2>3
    <3> QED
      BY <1>2, <1>3, <3>1 DEF UniqueInv, ScanStillHolds, Op, Key
  <2> QED
    BY <1>1, <1>3, <2>2, <2>4 DEF UniqueInv, UniqueUnlessRaced
<1> QED
  BY <1>4, <1>5, CallShape DEF Returns

LEMMA NextUnique == BaseInv /\ UniqueInv /\ [Next]_vars => UniqueInv'
<1> SUFFICES ASSUME BaseInv, UniqueInv, [Next]_vars PROVE UniqueInv'
  OBVIOUS
<1>1. CASE Drain \/ UNCHANGED vars
  BY <1>1 DEF Drain, vars, mem, hist, UniqueInv, RacesNoted, ScanStillHolds, UniqueUnlessRaced,
              Indexed, Active, Op, Key, Subject
<1>2. ASSUME NEW c \in Clients, Connect(c) PROVE UniqueInv'
  <2>1. index' = index /\ raced' = raced /\ proc'[c].pc \in Outside /\ proc'[c].call = proc[c].call
    BY <1>2 DEF Connect, Goto, mem, hist, BaseInv, ProcTyped, ProcFields, Outside
  <2>2. Indexed' = Indexed
    BY <2>1 DEF Indexed
  <2>3. \A d \in Clients : d # c => proc'[d] = proc[d]
    BY <1>2, OthersStay
  <2>4. RacesNoted'
    BY SMTT(60), <2>1, <2>3 DEF UniqueInv, RacesNoted, Active, Op, Subject
  <2>5. ScanStillHolds'
    BY <2>1, <2>2, <2>3 DEF UniqueInv, ScanStillHolds, Op, Key, Subject, Outside, Binding
  <2> QED
    BY <2>1, <2>2, <2>4, <2>5 DEF UniqueInv, UniqueUnlessRaced
<1>3. ASSUME NEW c \in Clients, Call(c) \/ Step(c) PROVE UniqueInv'
  BY <1>3, CallUnique, StepUnique
<1> QED
  BY <1>1, <1>2, <1>3 DEF Next

(* NativeSecondaryIndex.add checks a unique index by a scan and inserts    *)
(* afterwards, with no lock between the two: for any number of clients,    *)
(* two entries share a value only if two add or remove calls of that value *)
(* overlapped.  No value of the index needs to be printable for it.        *)
THEOREM UniqueWithoutRaces == Spec => []UniqueUnlessRaced
<1>1. Init => UniqueInv
  BY DEF Init, UniqueInv, RacesNoted, ScanStillHolds, UniqueUnlessRaced, Indexed, Active, Idle, Binding, IndexKeys
<1>2. UniqueInv => UniqueUnlessRaced
  BY DEF UniqueInv
<1> QED
  BY <1>1, <1>2, NextUnique, BaseInvariant, PTL DEF Spec

-----------------------------------------------------------------------------
(* The lookups of the secondary index, in every state clients can reach.   *)

\* What NativeIndexProofs needs of a column: its values hold no separator, none
\* sorts among the padded numbers without being one, and no primary key starts
\* at the sentinel.
WellEncoded == \A e \in Entries : PrintableEntry(e) /\ Numeric(e)

(* Whatever clients add and remove, lookup, lookupRange and                *)
(* lookupNumericRange return the entries of the values asked for, none     *)
(* more, and none fewer than the first in key order up to the cap, as long *)
(* as no value holds the separator and no primary key starts at the        *)
(* sentinel.                                                               *)
THEOREM LookupsExact ==
    ASSUME WellEncoded
    PROVE  Spec => []LookupsAreExact
<1>1. LookupsAreExact
  <2>1. \A e \in Indexed : PrintableEntry(e) /\ Numeric(e)
    BY DEF WellEncoded, Indexed
  <2>2. ASSUME NEW v \in Values PROVE v \in Seq(Nat) /\ Printable(v)
    BY DEF WellEncoded, Values, PrintableEntry, EntryTyped
  <2>3. <<>> \in Seq(Nat) /\ Printable(<<>>)
    BY DEF Printable
  <2>4. ASSUME NEW v \in Values PROVE lookup(Indexed, v) = Leading(LookupCap, {e \in Indexed : e.value = v})
    BY <2>1, <2>2, LookupIsExact, Zenon
  <2>5. ASSUME NEW lo \in Values \cup {<<>>}, NEW hi \in Values \cup {<<>>}
        PROVE  lookupRange(Indexed, lo, hi) =
                 Leading(RangeCap,
                         {e \in Indexed : (lo = <<>> \/ KeyLeq(lo, e.value)) /\ (hi = <<>> \/ KeyLeq(e.value, hi))})
    <3>1. lo \in Seq(Nat) /\ Printable(lo) /\ hi \in Seq(Nat) /\ Printable(hi)
      BY <2>2, <2>3
    <3> QED
      BY <2>1, <3>1, RangeIsExact
  <2>6. ASSUME NEW m \in 0 .. Base ^ Digits - 1, NEW n \in 0 .. Base ^ Digits - 1
        PROVE  lookupNumericRange(Indexed, m, n) =
                 Leading(RangeCap, {e \in Indexed : \E k \in m .. n : e.value = padU32Hex(k)})
    <3>1. m \in PaddedNumbers /\ n \in PaddedNumbers
      BY DEF PaddedNumbers
    <3> QED
      BY <2>1, <3>1, NumericRangeIsExact
  <2> QED
    BY <2>4, <2>5, <2>6, Zenon DEF LookupsAreExact
<1> QED
  BY <1>1, PTL

-----------------------------------------------------------------------------
(* The two bump words hand out no byte twice, as long as neither wraps.    *)
(*                                                                         *)
(* allocateRecordOffset, the string set trap and CatalogRecordStore.save   *)
(* advance a 32-bit word before they check the bound, and a refusal does   *)
(* not put it back: after enough refused calls the word wraps and the      *)
(* region is handed out again.  BumpsForward is the hypothesis that this   *)
(* has not happened; everything else is proved of every step.              *)


BumpsForward == recBump <= recBump' /\ strBump <= strBump'

-----------------------------------------------------------------------------
(* The inductive invariant. *)

\* A span lies in the region it was asked from.
InRegion(g) ==
    IF g.kind = "record" THEN R.recordStart <= g.lo /\ g.hi <= recordEnd(R)
    ELSE /\ stringDataStart(R) <= g.lo
         /\ g.hi <= IF g.kind = "catalog" THEN seg.mapped ELSE stringEnd(R)

\* The bump word of the region is past every span handed out.
BumpPast(g) == g.hi <= IF g.kind = "record" THEN recBump ELSE strBump

GrantsBehindBump ==
    /\ \A g \in granted : g.lo \in Nat /\ g.hi \in Nat /\ g.lo <= g.hi /\ InRegion(g) /\ BumpPast(g)
    /\ granted # {} => Accepted

\* A word is zero until the first allocation seeds it.
Seeded ==
    /\ recBump = 0 \/ R.recordStart <= recBump
    /\ strBump = 0 \/ stringDataStart(R) <= strBump
    /\ \A c \in Clients :
          /\ proc[c].pc = "addRecord" => recBump # 0
          /\ proc[c].pc \in {"addString", "addPayload"} => strBump # 0

GrantInv == GrantsBehindBump /\ Seeded /\ GrantsApart

-----------------------------------------------------------------------------
\* A bump word is seeded by the same call, just before it is advanced.
LEMMA SeedsFirst ==
    ASSUME BaseInv, NEW c \in Clients, Step(c)
    PROVE  /\ proc'[c].pc = "addRecord" => SeedRecord(c)
           /\ proc'[c].pc = "addString" => SeedString(c)
           /\ proc'[c].pc = "addPayload" => SeedPayload(c)
<1> DEFINE Seeding == {"addRecord", "addString"}
<1>0. ProcTyped
  BY DEF BaseInv
<1>1. ASSUME NEW res, NEW value, Finish(c, res, value) PROVE proc'[c].pc = "idle"
  BY <1>0, <1>1, FinishReturns DEF Returns
<1>2. ASSUME NEW pc, Goto(c, pc) PROVE proc'[c].pc = pc
  BY <1>0, <1>2, GotoMoves DEF Moves
<1>3. CASE Holding(proc'[c])
  <2>1. proc'[c].pc \notin Seeding
    BY <1>3 DEF Holding, Referring, StringField, Binding, SavingPayload
  <2> QED
    BY <1>3, <2>1, Acquires DEF Binding
<1>4. CASE ~Holding(proc'[c])
  <2>0. proc'[c].pc # "addPayload"
    BY <1>4 DEF Holding
  <2>1. CASE SeedRecord(c) \/ SeedString(c)
    BY <1>1, <1>2, <2>0, <2>1 DEF SeedRecord, SeedString
  <2>2. CASE AddRecord(c) \/ AddString(c) \/ AddPayload(c) \/ PushField(c) \/ LoadOffset(c) \/ LoadLength(c) \/ NotifyPayload(c)
    <3>1. CASE AddRecord(c)
      BY <1>0, <1>1, <2>0, <3>1 DEF AddRecord, ProcTyped, ProcFields
    <3>2. CASE AddString(c)
      BY <1>0, <1>1, <2>0, <3>2 DEF AddString, ProcTyped, ProcFields
    <3>3. CASE AddPayload(c)
      BY <1>0, <1>1, <2>0, <3>3 DEF AddPayload, ProcTyped, ProcFields
    <3>4. CASE PushField(c) \/ LoadOffset(c) \/ LoadLength(c) \/ NotifyPayload(c)
      BY <1>0, <2>0, <3>4 DEF PushField, LoadOffset, LoadLength, NotifyPayload, ProcTyped, ProcFields
    <3> QED
      BY <2>2, <3>1, <3>2, <3>3, <3>4
  <2>3. CASE Admit(c) \/ AllocKey(c) \/ PushKey(c) \/ PushTimeout(c) \/ Bind(c)
    BY <1>1, <1>2, <2>0, <2>3 DEF Admit, AllocKey, PushKey, PushTimeout, Bind
  <2>4. CASE SetNumber(c) \/ FillDone(c) \/ FillInvalid(c) \/ Copy(c) \/ Notify(c) \/ SetOffset(c) \/ SetLength(c)
    BY <1>1, <1>2, <2>0, <2>4 DEF SetNumber, FillDone, FillInvalid, Copy, Notify, SetOffset, SetLength
  <2>5. CASE SaveInvalid(c) \/ SeedPayload(c) \/ CopyPayload(c) \/ Decode(c) \/ ReadPayload(c) \/ remove_index(c) \/ UniqueScan(c)
    BY <1>1, <1>2, <2>0, <2>5 DEF SaveInvalid, SeedPayload, CopyPayload, Decode, ReadPayload, remove_index, UniqueScan
  <2>6. CASE Search(c)
    <3>1. CASE proc' = [proc EXCEPT ![c].pc = "seedRecord", ![c].value = "created"]
      BY <1>0, <2>0, <3>1 DEF ProcTyped, ProcFields
    <3>2. CASE proc' = [proc EXCEPT ![c].pc = "payload", ![c].off = index[Key(c)]]
      BY <1>0, <2>0, <3>2 DEF ProcTyped, ProcFields
    <3>3. CASE proc' = [proc EXCEPT ![c].off = index[Key(c)],
                                    ![c].pc = IF Op(c) = "find" THEN "loadOffset" ELSE "fill"]
      BY <1>0, <2>0, <3>3 DEF ProcTyped, ProcFields
    <3> QED
      BY <1>1, <2>0, <2>6, <3>1, <3>2, <3>3 DEF Search
  <2> QED
    BY <2>1, <2>2, <2>3, <2>4, <2>5, <2>6 DEF Step, DeleteKey, unmirrorPk, RemoveEntry
<1> QED
  BY <1>3, <1>4

-----------------------------------------------------------------------------
(* What a step hands out. *)

\* A span handed out by a step starts at or past the bump word and ends at its new value.
HandsOut(g) ==
    /\ g.lo \in Nat /\ g.hi \in Nat /\ g.lo <= g.hi /\ InRegion(g)
    /\ IF g.kind = "record" THEN recBump <= g.lo /\ g.hi <= recBump'
       ELSE strBump <= g.lo /\ g.hi <= strBump'

LEMMA GrantFields ==
    ASSUME NEW kind, NEW lo \in Nat, NEW n \in Nat
    PROVE  LET g == Grant(kind, lo, n) IN g.kind = kind /\ g.lo = lo /\ g.hi = lo + n
  BY DEF Grant

LEMMA StepHandsOut ==
    ASSUME BaseInv, Accepted, Seeded, NEW c \in Clients, Step(c)
    PROVE  granted' = granted \/ \E g : granted' = granted \cup {g} /\ HandsOut(g)
<1>0. /\ recBump \in 0 .. Word - 1 /\ strBump \in 0 .. Word - 1 /\ Word \in Nat \ {0} /\ seg \in Segments
      /\ recBump \in Nat /\ strBump \in Nat
  BY ClientAssumption DEF BaseInv, TypeOK
<1>1. CallOK(proc[c])
  BY StepProceeds DEF BaseInv
<1>2. /\ R.recordStart \in Nat /\ recordEnd(R) \in Nat /\ stringDataStart(R) \in Nat /\ stringEnd(R) \in Nat
      /\ seg.mapped \in Nat /\ recordEnd(R) < Word /\ stringEnd(R) < Word /\ seg.mapped < Word
      /\ stringEnd(R) <= seg.mapped
  BY <1>0, LayoutFacts DEF recordEnd, stringDataStart, stringEnd
<1>3. ASSUME NEW n \in Nat, recBump + n < Word PROVE (recBump + n) % Word = recBump + n
  <2>1. recBump + n \in Nat
    BY <1>0
  <2> QED
    BY <1>0, <1>3, <2>1, ModFacts
<1>4. ASSUME NEW n \in Nat, strBump + n < Word PROVE (strBump + n) % Word = strBump + n
  <2>1. strBump + n \in Nat
    BY <1>0
  <2> QED
    BY <1>0, <1>4, <2>1, ModFacts
<1>5. CASE AddRecord(c)
  <2>1. R.recordStart <= recBump
    BY <1>5 DEF Seeded, AddRecord
  <2>2. CASE recBump + 16 > recordEnd(R)
    BY <1>5, <2>2, StrideValue DEF AddRecord
  <2>3. CASE recBump + 16 <= recordEnd(R)
    <3> DEFINE g == Grant("record", recBump, 16)
    <3>1. granted' = granted \cup {g}
      BY <1>0, <1>2, <1>5, <2>3, StrideValue DEF AddRecord
    <3>2. recBump' = recBump + 16
      BY <1>0, <1>2, <1>3, <1>5, <2>3, StrideValue DEF AddRecord
    <3>3. g.kind = "record" /\ g.lo = recBump /\ g.hi = recBump + 16
      BY <1>0, GrantFields
    <3> HIDE DEF g
    <3>4. HandsOut(g)
      BY <1>0, <1>2, <2>1, <2>3, <3>2, <3>3 DEF HandsOut, InRegion
    <3> QED
      BY <3>1, <3>4
  <2> QED
    BY <1>0, <1>2, <2>2, <2>3
<1>6. CASE AllocKey(c)
  <2> DEFINE at == IF strBump = 0 THEN stringDataStart(R) ELSE strBump
             n  == alignUp(KeyLen, Unit)
             g  == Grant("key", at, n)
  <2>1. at \in Nat /\ n \in Nat /\ strBump <= at /\ stringDataStart(R) <= at
    <3>1. n \in Nat
      BY AlignFacts, ClientAssumption
    <3>2. at \in Nat /\ strBump <= at /\ stringDataStart(R) <= at
      BY <1>0, <1>2 DEF Seeded
    <3> QED
      BY <3>1, <3>2, Zenon
  <2>2. \/ granted' = granted
        \/ ~(at + n > stringEnd(R)) /\ strBump' = at + n /\ granted' = granted \cup {g}
    BY <1>6, Zenon DEF AllocKey
  <2>3. g.kind = "key" /\ g.lo = at /\ g.hi = at + n
    <3> HIDE DEF at, n
    <3> QED
      BY <2>1, GrantFields
  <2> HIDE DEF at, n, g
  <2>4. ASSUME ~(at + n > stringEnd(R)), strBump' = at + n PROVE HandsOut(g)
    BY <1>0, <1>2, <2>1, <2>3, <2>4 DEF HandsOut, InRegion
  <2> QED
    BY <2>2, <2>4
<1>7. CASE AddString(c)
  <2> DEFINE n == ByteLength[Field(c).value]
             g == Grant("string", strBump, n)
  <2>1. n \in Nat
    BY <1>1, <1>7, ClientAssumption DEF AddString, CallOK, Field
  <2>2. \/ granted' = granted
        \/ ~(strBump + n > stringEnd(R)) /\ strBump' = (strBump + n) % Word /\ granted' = granted \cup {g}
    BY <1>7, Zenon DEF AddString
  <2>3. g.kind = "string" /\ g.lo = strBump /\ g.hi = strBump + n
    <3> HIDE DEF n
    <3> QED
      BY <1>0, <2>1, GrantFields
  <2>4. stringDataStart(R) <= strBump
    BY <1>7 DEF Seeded, AddString
  <2> HIDE DEF n, g
  <2>5. ASSUME ~(strBump + n > stringEnd(R)), strBump' = (strBump + n) % Word PROVE HandsOut(g)
    BY <1>0, <1>2, <1>4, <2>1, <2>3, <2>4, <2>5 DEF HandsOut, InRegion
  <2> QED
    BY SMTT(60), <2>2, <2>5
<1>8. CASE AddPayload(c)
  <2> DEFINE n == catalogEncodedLen(Len(Field(c).value))
             g == Grant("catalog", strBump, n)
  <2>1. n \in Nat
    BY <1>1, <1>8, PayloadLength
       DEF AddPayload, CallOK, OpAt, Allocating, Binding, Storing, Saving, Reading, Pointing, SavingPayload, Field
  <2>2. \/ granted' = granted
        \/ ~(strBump + n > seg.mapped) /\ strBump' = (strBump + n) % Word /\ granted' = granted \cup {g}
    BY <1>8, Zenon DEF AddPayload
  <2>3. g.kind = "catalog" /\ g.lo = strBump /\ g.hi = strBump + n
    <3> HIDE DEF n
    <3> QED
      BY <1>0, <2>1, GrantFields
  <2>4. stringDataStart(R) <= strBump
    BY <1>8 DEF Seeded, AddPayload
  <2> HIDE DEF n, g
  <2>5. ASSUME ~(strBump + n > seg.mapped), strBump' = (strBump + n) % Word PROVE HandsOut(g)
    BY <1>0, <1>2, <1>4, <2>1, <2>3, <2>4, <2>5 DEF HandsOut, InRegion
  <2> QED
    BY <2>2, <2>5
<1> QED
  BY <1>5, <1>6, <1>7, <1>8, StepFrame

-----------------------------------------------------------------------------
(* Every step keeps the invariant while the words move forward.            *)

LEMMA StepSeeded ==
    ASSUME BaseInv, Accepted, Seeded, BumpsForward, NEW c \in Clients, Step(c)
    PROVE  Seeded'
<1>0. recBump \in Nat /\ strBump \in Nat /\ recBump' \in Nat /\ strBump' \in Nat /\ seg' = seg /\ seg \in Segments
  <2>1. TypeOK'
    BY StepBase DEF BaseInv
  <2> QED
    BY <2>1, StepFrame, ClientAssumption DEF BaseInv, TypeOK
<1>1. /\ R.recordStart \in Nat \ {0} /\ stringDataStart(R) \in Nat \ {0}
      /\ R' = R /\ stringDataStart(R') = stringDataStart(R)
  BY <1>0, LayoutFacts DEF stringDataStart, R
<1>2. recBump' = 0 \/ R.recordStart <= recBump'
  <2>1. CASE SeedRecord(c)
    BY <1>0, <1>1, <2>1 DEF SeedRecord, Seeded
  <2>2. CASE AddRecord(c)
    BY <1>0, <1>1, <2>2 DEF AddRecord, Seeded, BumpsForward
  <2> QED
    BY <2>1, <2>2, StepFrame DEF Seeded
<1>3. strBump' = 0 \/ stringDataStart(R) <= strBump'
  <2>1. CASE AllocKey(c) \/ SeedString(c) \/ SeedPayload(c)
    <3>1. CASE strBump # 0
      BY <1>0, <1>1, <3>1 DEF Seeded, BumpsForward
    <3>2. CASE strBump = 0 /\ (SeedString(c) \/ SeedPayload(c))
      BY <1>0, <1>1, <3>2 DEF SeedString, SeedPayload
    <3>3. CASE strBump = 0 /\ AllocKey(c)
      <4>1. alignUp(KeyLen, Unit) \in Nat
        BY AlignFacts, ClientAssumption
      <4>2. \/ strBump' = strBump \/ strBump' = stringDataStart(R)
            \/ strBump' = stringDataStart(R) + alignUp(KeyLen, Unit)
        BY <3>3 DEF AllocKey
      <4> QED
        BY <1>1, <3>3, <4>1, <4>2
    <3> QED
      BY <2>1, <3>1, <3>2, <3>3
  <2>2. CASE AddString(c) \/ AddPayload(c)
    BY <1>0, <1>1, <2>2 DEF AddString, AddPayload, Seeded, BumpsForward
  <2> QED
    BY <2>1, <2>2, StepFrame DEF Seeded
<1>4. proc'[c].pc = "addRecord" => recBump' # 0
  BY <1>1, SeedsFirst DEF SeedRecord
<1>5. proc'[c].pc \in {"addString", "addPayload"} => strBump' # 0
  <2>1. CASE SeedPayload(c)
    BY <1>1, <2>1 DEF SeedPayload
  <2>2. CASE SeedString(c) /\ proc'[c].pc = "addString"
    <3>1. ASSUME NEW res, Finish(c, res, None) PROVE FALSE
      BY <2>2, <3>1, FinishReturns DEF Returns, BaseInv
    <3> QED
      BY <1>1, <2>2, <3>1 DEF SeedString
  <2> QED
    BY <2>1, <2>2, SeedsFirst
<1>6. ASSUME NEW d \in Clients
      PROVE  /\ proc'[d].pc = "addRecord" => recBump' # 0
             /\ proc'[d].pc \in {"addString", "addPayload"} => strBump' # 0
  <2>1. CASE d = c
    BY <1>4, <1>5, <2>1
  <2>2. CASE d # c
    BY <1>0, <2>2, OthersStay DEF Seeded, BumpsForward
  <2> QED
    BY <2>1, <2>2
<1> QED
  BY <1>1, <1>2, <1>3, <1>6 DEF Seeded

\* A span handed out now overlaps none handed out before.
LEMMA NewGrantApart ==
    ASSUME BaseInv, Accepted, GrantInv, NEW g, HandsOut(g), NEW h \in granted
    PROVE  ~Overlap(g, h) /\ ~Overlap(h, g)
<1>1. /\ h.lo \in Nat /\ h.hi \in Nat /\ h.lo <= h.hi /\ InRegion(h) /\ BumpPast(h)
      /\ g.lo \in Nat /\ g.hi \in Nat /\ g.lo <= g.hi /\ InRegion(g)
  BY DEF GrantInv, GrantsBehindBump, HandsOut
<1>2. /\ recBump \in Nat /\ strBump \in Nat /\ recordEnd(R) \in Nat /\ stringDataStart(R) \in Nat
      /\ recordEnd(R) <= stringDataStart(R)
  <2>1. seg \in Segments /\ recBump \in Nat /\ strBump \in Nat
    BY ClientAssumption DEF BaseInv, TypeOK
  <2>2. /\ R.recordStart \in Nat /\ R.recordBytes \in Nat /\ R.artRoot \in Nat /\ R.artBytes \in Nat
        /\ R.stringStart \in Nat /\ recordEnd(R) <= R.artRoot /\ R.artRoot + R.artBytes <= R.stringStart
    BY <2>1, LayoutFacts
  <2> QED
    BY <2>1, <2>2 DEF recordEnd, stringDataStart
<1>3. CASE g.kind = "record" /\ h.kind = "record"
  BY <1>1, <1>2, <1>3 DEF HandsOut, BumpPast, Overlap
<1>4. CASE g.kind # "record" /\ h.kind # "record"
  BY <1>1, <1>2, <1>4 DEF HandsOut, BumpPast, Overlap
<1>5. CASE g.kind = "record" /\ h.kind # "record"
  BY <1>1, <1>2, <1>5 DEF InRegion, Overlap
<1>6. CASE g.kind # "record" /\ h.kind = "record"
  BY <1>1, <1>2, <1>6 DEF InRegion, Overlap
<1> QED
  BY <1>3, <1>4, <1>5, <1>6

LEMMA StepGrants ==
    ASSUME BaseInv, GrantInv, BumpsForward, NEW c \in Clients, Step(c)
    PROVE  GrantInv'
<1>0. Accepted
  BY StepConnected DEF BaseInv
<1>1. seg' = seg /\ Accepted'
  BY <1>0, StepFrame DEF Accepted, R
<1>2. recBump \in Nat /\ strBump \in Nat /\ recBump' \in Nat /\ strBump' \in Nat
  <2>1. TypeOK'
    BY StepBase DEF BaseInv
  <2> QED
    BY <2>1, ClientAssumption DEF BaseInv, TypeOK
<1>3. Seeded'
  BY <1>0, StepSeeded DEF GrantInv
<1>4. ASSUME NEW g \in granted
      PROVE  g.lo \in Nat /\ g.hi \in Nat /\ g.lo <= g.hi /\ InRegion(g)' /\ BumpPast(g)'
  <2>1. g.lo \in Nat /\ g.hi \in Nat /\ g.lo <= g.hi /\ InRegion(g) /\ BumpPast(g)
    BY DEF GrantInv, GrantsBehindBump
  <2>2. InRegion(g)'
    BY <1>1, <2>1 DEF InRegion, R
  <2> QED
    BY <1>2, <2>1, <2>2 DEF BumpPast, BumpsForward
<1>5. CASE granted' = granted
  <2>1. GrantsBehindBump'
    BY <1>1, <1>4, <1>5 DEF GrantsBehindBump
  <2>2. GrantsApart'
    BY <1>1, <1>5 DEF GrantInv, GrantsApart, R
  <2> QED
    BY <1>3, <2>1, <2>2 DEF GrantInv
<1>6. ASSUME NEW g, granted' = granted \cup {g}, HandsOut(g) PROVE GrantInv'
  <2>1. InRegion(g)' /\ BumpPast(g)'
    BY <1>1, <1>6 DEF HandsOut, InRegion, BumpPast, R
  <2>2. GrantsBehindBump'
    BY <1>1, <1>4, <1>6, <2>1 DEF GrantsBehindBump, HandsOut
  <2>3. \A h \in granted : ~Overlap(g, h) /\ ~Overlap(h, g)
    BY <1>0, <1>6, NewGrantApart
  <2>4. \A a, b \in granted : a # b => ~Overlap(a, b)
    BY DEF GrantInv, GrantsApart
  <2>5. \A a, b \in granted' : a # b => ~Overlap(a, b)
    BY <1>6, <2>3, <2>4
  <2>6. GrantsApart'
    <3>1. ASSUME NEW a \in granted'
          PROVE  CASE a.kind = "record"  -> R'.recordStart <= a.lo /\ a.hi <= recordEnd(R')
                   [] a.kind = "catalog" -> stringDataStart(R') <= a.lo /\ a.hi <= seg'.mapped
                   [] OTHER              -> stringDataStart(R') <= a.lo /\ a.hi <= stringEnd(R')
      <4>1. InRegion(a)'
        BY <2>2 DEF GrantsBehindBump
      <4>2. CASE a.kind = "record"
        BY <4>1, <4>2 DEF InRegion
      <4>3. CASE a.kind = "catalog"
        BY <4>1, <4>3 DEF InRegion
      <4>4. CASE a.kind # "record" /\ a.kind # "catalog"
        BY <4>1, <4>4 DEF InRegion
      <4> QED
        BY <4>2, <4>3, <4>4
    <3> QED
      BY <2>5, <3>1 DEF GrantsApart
  <2> QED
    BY <1>3, <2>2, <2>6 DEF GrantInv
<1> QED
  BY <1>0, <1>5, <1>6, StepHandsOut DEF GrantInv

LEMMA NextGrants == BaseInv /\ GrantInv /\ [Next]_vars /\ [BumpsForward]_vars => GrantInv'
<1> SUFFICES ASSUME BaseInv, GrantInv, [Next]_vars, [BumpsForward]_vars PROVE GrantInv'
  OBVIOUS
<1>1. ASSUME UNCHANGED <<seg, recBump, strBump, granted>>,
             \A d \in Clients : proc'[d].pc = proc[d].pc \/ proc'[d].pc \notin {"addRecord", "addString", "addPayload"}
      PROVE  GrantInv'
  BY <1>1 DEF GrantInv, GrantsBehindBump, GrantsApart, Seeded, InRegion, BumpPast, Accepted, R
<1>2. CASE Drain \/ UNCHANGED vars
  BY <1>1, <1>2 DEF Drain, vars, mem, hist
<1>3. ASSUME NEW c \in Clients, Connect(c) PROVE GrantInv'
  <2>1. UNCHANGED <<seg, recBump, strBump, granted>> /\ proc'[c].pc \in Outside
    BY <1>3 DEF Connect, Goto, mem, hist, BaseInv, ProcTyped, ProcFields, Outside
  <2> QED
    BY <1>1, <1>3, <2>1, OthersStay DEF Outside
<1>4. ASSUME NEW c \in Clients, Call(c) PROVE GrantInv'
  <2>1. UNCHANGED <<seg, recBump, strBump, granted>>
    BY <1>4, CallShape
  <2>2. proc'[c].pc \notin {"addRecord", "addString", "addPayload"}
    <3>1. CASE Returns(c)
      BY <3>1 DEF Returns
    <3>2. CASE CallOK(proc'[c]) /\ proc'[c].pc = FirstStep(proc'[c].call)
      <4>1. proc'[c].call \in Calls /\ proc'[c].call.key \notin InvalidKeys
        BY <3>2 DEF CallOK
      <4> QED
        BY <3>2, <4>1, CallFacts DEF FirstStep
    <3> QED
      BY <1>4, <3>1, <3>2, CallShape
  <2> QED
    BY <1>1, <1>4, <2>1, <2>2, OthersStay
<1>5. ASSUME NEW c \in Clients, Step(c) PROVE GrantInv'
  <2>1. CASE UNCHANGED vars
    BY <1>2, <2>1
  <2>2. CASE BumpsForward
    BY <1>5, <2>2, StepGrants
  <2> QED
    BY <2>1, <2>2
<1> QED
  BY <1>2, <1>3, <1>4, <1>5 DEF Next

(* allocateRecordOffset, the string set trap, allocString and              *)
(* CatalogRecordStore.save race on two shared words with no lock: for any  *)
(* number of clients and any region table they accepted, no byte is handed *)
(* out twice and every span lies in its region, until a word wraps.        *)
THEOREM NoByteTwice == Spec /\ [][BumpsForward]_vars => []GrantsApart
<1>1. Init => GrantInv
  BY DEF Init, GrantInv, GrantsBehindBump, GrantsApart, Seeded, Idle
<1>2. GrantInv => GrantsApart
  BY DEF GrantInv
<1> QED
  BY <1>1, <1>2, NextGrants, BaseInvariant, PTL DEF Spec

=============================================================================
