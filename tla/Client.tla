------------------------------- MODULE Client -------------------------------
(***************************************************************************)
(* Client processes of the TypeScript SDK over one shared arena: the       *)
(* collections of takyon.ts, the record proxies of client/proxy.ts, and    *)
(* the catalog records, secondary indexes and key mirrors of the           *)
(* relational layer, which use the same allocators, index and ring.        *)
(*                                                                         *)
(* JavaScript is single-threaded, so a process runs one call at a time.    *)
(* Processes interleave at every access to shared state: each atomic       *)
(* operation on a bump word, each store into a record, each copy into the  *)
(* arena and each native call is a step of its own.  proc[c].pc names the  *)
(* step that client c performs next.                                       *)
(*                                                                         *)
(* A record has a uint32 field "num" and a string field "str", whose cell  *)
(* is a fat pointer of two 32-bit words, offset and length.  The string    *)
(* region is a set of written spans: writing over a span destroys it.      *)
(***************************************************************************)
EXTENDS Layout, NativeIndex, CatalogRecord, FiniteSets

CONSTANTS
    Clients,       \* processes
    Segments,      \* what initSharedMemory may map
    Keys,          \* collection keys the engine accepts
    InvalidKeys,   \* keys that keyError refuses
    OverlongKeys,  \* pass keyError, but are over the limit once namespaced
    Tables,        \* tables with a catalog record
    Pks,           \* mirrored primary keys
    Entries,       \* entries of one unique secondary index
    Strings,       \* string values
    ByteLength,    \* UTF-8 length of each of them
    Numbers,       \* values a uint32 field accepts
    Workloads,     \* the calls each application makes, in order (bound)
    KeyLen,        \* bytes of a key in the string region
    NameOf,        \* UTF-8 bytes of a table's name
    ArtCap,        \* keys the index region has room for
    Word,          \* 2^32, the size of a bump word
    BadValue,      \* a value of the wrong type
    Empty,         \* the string that a zero fat pointer reads as
    Garbage,       \* bytes that are no value anybody wrote
    None

IndexKeys == Keys \cup Tables \cup Pks \cup Entries

ASSUME ClientAssumption ==
    /\ ByteLength \in [Strings -> Nat]
    /\ Numbers \subseteq Nat /\ 0 \in Numbers
    /\ KeyLen \in Nat \ {0} /\ NameOf \in [Tables -> Seq(0 .. 255)]
    /\ Word \in Nat \ {0} /\ ArtCap \in Nat

\* The addon maps 1 to 2^32 - 1 bytes.
ASSUME SegmentAssumption ==
    \A s \in Segments : s.table \in Regions /\ s.mapped \in 0 .. Word - 1

\* Collections, catalog, mirrors and secondary indexes prefix their keys apart.
ASSUME NamespaceAssumption ==
    /\ \A S \in {Keys, Pks, Entries} : S \cap Tables = {}
    /\ \A S \in {Keys, Tables, Pks} : S \cap Entries = {}
    /\ Keys \cap Pks = {}
    /\ InvalidKeys \cap (IndexKeys \cup OverlongKeys) = {}
    /\ OverlongKeys \cap IndexKeys = {}

\* The value and the primary key of a secondary entry are strings.  An entry
\* stands for its key in the index, so no two have the same.
ASSUME EntryAssumption ==
    /\ IsFiniteSet(Entries)
    /\ \A e \in Entries : e.value \in Seq(Nat) /\ e.pk \in Seq(Nat)
    /\ \A e, f \in Entries : entryKey(e) = entryKey(f) => e = f

-----------------------------------------------------------------------------
(* The calls an application can make. *)

Assignments ==
    [field : {"num"}, value : Numbers \cup {BadValue}]
        \cup [field : {"str"}, value : Strings \cup {BadValue}]

Descriptors == [field : {"cols"}, value : Seq([name : Seq(0 .. 255), type : Range(Types), nullable : BOOLEAN,
                                               primaryKey : BOOLEAN, unique : BOOLEAN])]

Calls ==
    [op : {"insert", "upsert", "update", "find", "delete"},
     key : Keys \cup InvalidKeys \cup OverlongKeys, data : Seq(Assignments)]
        \cup [op : {"save"}, key : Tables, data : [1 .. 1 -> Descriptors]]
        \cup [op : {"load"}, key : Tables, data : {<<>>}]
        \cup [op : {"mirror", "unmirror"}, key : Pks, data : {<<>>}]
        \cup [op : {"add", "remove"}, key : Entries, data : {<<>>}]

ASSUME WorkloadAssumption == Workloads \subseteq [Clients -> Seq(Calls)] /\ None \notin Calls

VARIABLES
    seg,       \* the mapped segment: size, magic, version, region table
    daemon,    \* whether a daemon owns the segment and drains the ring
    recBump,   \* the record bump word
    strBump,   \* the string bump word
    index,     \* the engine's index: key -> offset, 0 when absent
    rec,       \* the records: offset -> fields
    heap,      \* the string region: spans [lo, hi, val]
    pushed,    \* every delta pushed, in ring order
    head,      \* how many of them the daemon has popped
    proc,      \* each client's call in progress
    script,    \* the calls each client has yet to make
    granted,   \* history: spans the allocators handed out
    raced,     \* history: keys and values on which two calls overlapped
    unlogged,  \* history: keys with a write whose delta was refused
    last       \* history: what was last stored under each key

mem == <<recBump, strBump, index, rec, heap>>
ring == <<pushed, head>>
hist == <<granted, raced, unlogged, last>>
vars == <<seg, daemon, mem, ring, proc, script, hist>>

R == seg.table
Stride == totalSize(<<"uint32", "string">>)
Slots == {R.recordStart + i * Stride : i \in 0 .. (R.recordBytes \div Stride) - 1}
ZeroRow == [num |-> 0, at |-> 0, len |-> 0]
NewRow == [num |-> 0, str |-> Empty]

Idle == [pc |-> "idle", call |-> None, off |-> 0, at |-> 0, len |-> 0,
         todo |-> <<>>, res |-> "none", value |-> None]

-----------------------------------------------------------------------------
(* Helpers. *)

Overlap(a, b) == a.lo < b.hi /\ b.lo < a.hi

\* History: the n-th span handed out.
Grant(kind, lo, n) == [kind |-> kind, lo |-> lo, hi |-> lo + n, id |-> Cardinality(granted)]

Written(lo, n, v) ==
    LET s == [lo |-> lo, hi |-> lo + n, val |-> v]
    IN  {t \in heap : ~Overlap(s, t)} \cup {s}

ReadSpan(lo, n) ==
    IF \E s \in heap : s.lo = lo /\ s.hi = lo + n
    THEN (CHOOSE s \in heap : s.lo = lo /\ s.hi = lo + n).val
    ELSE Garbage

\* The catalog payload that starts at lo, if one does.
PayloadAt(lo) ==
    IF \E s \in heap : s.lo = lo THEN (CHOOSE s \in heap : s.lo = lo).val.payload ELSE <<>>

\* What decoding the fat pointer <<at, n>> gives.
StringAt(at, n) == IF at = 0 /\ n = 0 THEN Empty ELSE ReadSpan(at, n)

\* The delta that announces the bytes client c has copied.
Announcement(c) == [kind |-> "arena", lo |-> proc[c].at, hi |-> proc[c].at + proc[c].len]

Depth == Len(pushed) - head
RingFull == Depth >= R.ringCapacity

Active(c) == proc[c].call # None
Op(c) == proc[c].call.op
Key(c) == proc[c].call.key

\* The calls that change what is stored under their key.
IsWrite(op) == op \notin {"find", "load"}

\* What two calls can collide on: the key, or the value of a unique index.
Subject(call) == IF call.op \in {"add", "remove"} THEN [value |-> call.key.value] ELSE call.key

Goto(c, pc) == proc' = [proc EXCEPT ![c].pc = pc]

Finish(c, res, value) ==
    proc' = [proc EXCEPT ![c] = [Idle EXCEPT !.res = res, !.value = value]]

\* createProxy: the record must end inside the record region.
ProxyOk(off) == off + Stride <= recordEnd(R)

-----------------------------------------------------------------------------
Init ==
    /\ seg \in Segments
    /\ daemon \in BOOLEAN
    /\ recBump = 0 /\ strBump = 0
    /\ index = [k \in IndexKeys |-> 0]
    /\ rec = [o \in Slots |-> ZeroRow]
    /\ heap = {}
    /\ pushed = <<>> /\ head = 0
    /\ proc = [c \in Clients |-> [Idle EXCEPT !.pc = "unmapped"]]
    /\ script \in Workloads
    /\ granted = {} /\ raced = {} /\ unlogged = {}
    /\ last = [k \in IndexKeys |-> NewRow]

\* new TakyonClient: map the segment, read its region table, check it.
Connect(c) ==
    /\ proc[c].pc = "unmapped"
    /\ Goto(c, IF readRegions(seg) /\ validateRegions(R, seg.mapped) THEN "idle" ELSE "refused")
    /\ UNCHANGED <<seg, daemon, mem, ring, script, hist>>

\* Where each method starts; a key that keyError refuses throws or reads as absent.
FirstStep(call) ==
    CASE call.op = "insert"              -> "seedRecord"
      [] call.op \in {"find", "update", "upsert", "load"} -> "search"
      [] call.op \in {"delete", "remove", "unmirror"} -> "remove"
      [] call.op = "save"                -> "encode"
      [] call.op = "add"                 -> "scan"
      [] call.op = "mirror"              -> "admit"

\* mirrorPk and add bind a record that the application found before.
KnownOffsets == {index[k] : k \in Keys} \ {0}

Call(c) ==
    LET call == Head(script[c])
    IN  /\ proc[c].pc = "idle" /\ script[c] # <<>>
        /\ script' = [script EXCEPT ![c] = Tail(@)]
        /\ IF call.key \in InvalidKeys
           THEN /\ Finish(c, IF call.op \in {"find", "update"} THEN "null" ELSE "KeyError", None)
                /\ UNCHANGED raced
           ELSE /\ \E off \in IF call.op \in {"mirror", "add"} THEN KnownOffsets ELSE {0} :
                     proc' = [proc EXCEPT ![c] = [Idle EXCEPT !.pc = FirstStep(call), !.call = call,
                                                              !.off = off, !.todo = call.data]]
                /\ raced' = raced \cup
                      {x \in {Subject(call)} : \E d \in Clients \ {c} :
                          /\ Active(d) /\ Subject(proc[d].call) = x
                          /\ IsWrite(call.op) \/ IsWrite(Op(d))}
        /\ UNCHANGED <<seg, daemon, mem, ring, granted, unlogged, last>>

-----------------------------------------------------------------------------
(* TakyonDB.allocateRecordOffset: two atomic operations on the bump word.  *)

SeedRecord_PlainStore(c) ==
    /\ proc[c].pc = "seedRecord"
    /\ recBump' = R.recordStart
    /\ Goto(c, "addRecord")
    /\ UNCHANGED <<seg, daemon, strBump, index, rec, heap, ring, script, hist>>

SeedRecord(c) ==
    /\ proc[c].pc = "seedRecord"
    /\ recBump' = IF recBump = 0 THEN R.recordStart ELSE recBump
    /\ Goto(c, "addRecord")
    /\ UNCHANGED <<seg, daemon, strBump, index, rec, heap, ring, script, hist>>

AddRecord_NewBump(c) ==
    /\ proc[c].pc = "addRecord"
    /\ recBump' = (recBump + Stride) % Word
    /\ IF recBump + Stride > recordEnd(R)
       THEN Finish(c, "OutOfRecords", None) /\ UNCHANGED granted
       ELSE /\ proc' = [proc EXCEPT ![c].pc = "admit", ![c].off = recBump']
            /\ granted' = granted \cup {Grant("record", recBump, Stride)}
    /\ UNCHANGED <<seg, daemon, strBump, index, rec, heap, ring, script, raced, unlogged, last>>

AddRecord(c) ==
    /\ proc[c].pc = "addRecord"
    /\ recBump' = (recBump + Stride) % Word
    /\ IF recBump + Stride > recordEnd(R)
       THEN Finish(c, "OutOfRecords", None) /\ UNCHANGED granted
       ELSE /\ proc' = [proc EXCEPT ![c].pc = "admit", ![c].off = recBump]
            /\ granted' = granted \cup {Grant("record", recBump, Stride)}
    /\ UNCHANGED <<seg, daemon, strBump, index, rec, heap, ring, script, raced, unlogged, last>>

-----------------------------------------------------------------------------
(* insert_index (native): without a daemon the key goes straight into the  *)
(* index; with one, its bytes and a delta come first.                      *)

\* -2 is a BackpressureError to every caller but NativeSecondaryIndex.add.
Refusal(op) == IF op = "add" THEN "Error" ELSE "Backpressure"

Admit(c) ==
    /\ proc[c].pc = "admit"
    /\ CASE Key(c) \in OverlongKeys          -> Finish(c, "Error", None) /\ UNCHANGED unlogged
         [] Key(c) \notin OverlongKeys /\ ~daemon -> Goto(c, "bind") /\ UNCHANGED unlogged
         [] Key(c) \notin OverlongKeys /\ daemon /\ RingFull ->
                Finish(c, Refusal(Op(c)), None) /\ unlogged' = unlogged \cup {Key(c)}
         [] OTHER                            -> Goto(c, "allocKey") /\ UNCHANGED unlogged
    /\ UNCHANGED <<seg, daemon, mem, ring, script, granted, raced, last>>

\* allocString: seeds, checks and advances in one compare-and-swap; a refusal keeps the word.
AllocKey(c) ==
    LET at == IF strBump = 0 THEN stringDataStart(R) ELSE strBump
        n  == alignUp(KeyLen, Unit)
    IN  /\ proc[c].pc = "allocKey"
        /\ IF at + n > stringEnd(R)
           THEN /\ strBump' = IF n > R.stringBytes THEN strBump ELSE at
                /\ Finish(c, "Error", None) /\ UNCHANGED <<heap, granted>>
           ELSE /\ strBump' = at + n
                /\ heap' = Written(at, KeyLen, Key(c))
                /\ granted' = granted \cup {Grant("key", at, n)}
                /\ Goto(c, "pushKey")
        /\ UNCHANGED <<seg, daemon, recBump, index, rec, ring, script, raced, unlogged, last>>

PushKey(c) ==
    /\ proc[c].pc = "pushKey" /\ ~RingFull
    /\ pushed' = Append(pushed, [kind |-> "index", key |-> Key(c), off |-> proc[c].off])
    /\ Goto(c, "bind")
    /\ UNCHANGED <<seg, daemon, mem, head, script, hist>>

\* The ring stayed full for the whole wait of a push: RC_BACKPRESSURE.
PushTimeout_Never(c) == FALSE /\ UNCHANGED vars

PushTimeout(c) ==
    /\ proc[c].pc \in {"pushKey", "notify", "pushField", "notifyPayload"} /\ RingFull
    /\ proc[c].pc = "notify" => proc[c].len > 0
    /\ Finish(c, IF proc[c].pc = "notifyPayload" THEN "Error" ELSE Refusal(Op(c)), None)
    /\ unlogged' = unlogged \cup {Key(c)}
    /\ UNCHANGED <<seg, daemon, mem, ring, script, granted, raced, last>>

\* ArtIndex.insert, and what the caller does after rc 0.
Bind(c) ==
    /\ proc[c].pc = "bind"
    /\ IF index[Key(c)] = 0 /\ Cardinality({k \in IndexKeys : index[k] # 0}) >= ArtCap
       THEN Finish(c, "Error", None) /\ UNCHANGED <<index, last>>
       ELSE /\ index' = [index EXCEPT ![Key(c)] = proc[c].off]
            /\ last' = [last EXCEPT ![Key(c)] =
                          IF Op(c) = "save" THEN [@ EXCEPT !.str = proc[c].todo[1].value] ELSE NewRow]
            /\ IF Op(c) \notin {"insert", "upsert"} THEN Finish(c, "ok", None)
               ELSE IF ProxyOk(proc[c].off) THEN Goto(c, "fill")
               ELSE Finish(c, "Error", None)
    /\ UNCHANGED <<seg, daemon, recBump, strBump, rec, heap, ring, script, granted, raced, unlogged>>

-----------------------------------------------------------------------------
(* The set trap of a proxy, for each assigned field in turn.               *)

Field(c) == proc[c].todo[1]
Filling(c, f) == proc[c].pc = "fill" /\ proc[c].todo # <<>> /\ Field(c).field = f

FillDone(c) ==
    /\ proc[c].pc = "fill" /\ proc[c].todo = <<>>
    /\ Finish(c, IF Op(c) = "upsert" /\ proc[c].value = "created" THEN "created" ELSE "ok", None)
    /\ UNCHANGED <<seg, daemon, mem, ring, script, hist>>

FillInvalid(c) ==
    /\ proc[c].pc = "fill" /\ proc[c].todo # <<>> /\ Field(c).value = BadValue
    /\ Finish(c, "TypeError", None)
    /\ UNCHANGED <<seg, daemon, mem, ring, script, hist>>

SetNumber_NoDelta(c) ==
    /\ Filling(c, "num") /\ Field(c).value \in Numbers
    /\ rec' = [rec EXCEPT ![proc[c].off].num = Field(c).value]
    /\ last' = [last EXCEPT ![Key(c)].num = Field(c).value]
    /\ proc' = [proc EXCEPT ![c].todo = Tail(@)]
    /\ UNCHANGED <<seg, daemon, recBump, strBump, index, heap, ring, script, granted, raced, unlogged>>

SetNumber(c) ==
    /\ Filling(c, "num") /\ Field(c).value \in Numbers
    /\ rec' = [rec EXCEPT ![proc[c].off].num = Field(c).value]
    /\ last' = [last EXCEPT ![Key(c)].num = Field(c).value]
    /\ Goto(c, "pushField")
    /\ UNCHANGED <<seg, daemon, recBump, strBump, index, heap, ring, script, granted, raced, unlogged>>

SeedString_PlainStore(c) ==
    /\ Filling(c, "str") /\ Field(c).value # BadValue
    /\ strBump' = stringDataStart(R)
    /\ Goto(c, "addString")
    /\ UNCHANGED <<seg, daemon, recBump, index, rec, heap, ring, script, hist>>

SeedString(c) ==
    /\ Filling(c, "str") /\ Field(c).value # BadValue
    /\ IF stringDataStart(R) >= seg.mapped
       THEN Finish(c, "Error", None) /\ UNCHANGED strBump
       ELSE /\ strBump' = IF strBump = 0 THEN stringDataStart(R) ELSE strBump
            /\ Goto(c, "addString")
    /\ UNCHANGED <<seg, daemon, recBump, index, rec, heap, ring, script, hist>>

\* The bump moves before the bound is checked.
AddString(c) ==
    LET n == ByteLength[Field(c).value]
    IN  /\ proc[c].pc = "addString"
        /\ strBump' = (strBump + n) % Word
        /\ IF strBump + n > stringEnd(R)
           THEN Finish(c, "OutOfStrings", None) /\ UNCHANGED granted
           ELSE /\ proc' = [proc EXCEPT ![c].pc = "copy", ![c].at = strBump, ![c].len = n]
                /\ granted' = granted \cup {Grant("string", strBump, n)}
        /\ UNCHANGED <<seg, daemon, recBump, index, rec, heap, ring, script, raced, unlogged, last>>

Copy(c) ==
    /\ proc[c].pc = "copy"
    /\ heap' = IF proc[c].len = 0 THEN heap ELSE Written(proc[c].at, proc[c].len, Field(c).value)
    /\ Goto(c, "notify")
    /\ UNCHANGED <<seg, daemon, recBump, strBump, index, rec, ring, script, hist>>

\* The bytes are announced before anything refers to them; the engine
\* refuses to announce zero bytes.
Notify_AfterPointer(c) ==
    /\ proc[c].pc = "notify" /\ ~RingFull /\ proc[c].len > 0
    /\ pushed' = Append(pushed, [kind |-> "field", off |-> proc[c].off, field |-> "str",
                                 words |-> <<proc[c].at, proc[c].len>>])
    /\ Goto(c, "setOffset")
    /\ UNCHANGED <<seg, daemon, mem, head, script, hist>>

Notify(c) ==
    /\ proc[c].pc = "notify"
    /\ IF proc[c].len = 0
       THEN Finish(c, "Error", None) /\ UNCHANGED pushed
       ELSE /\ ~RingFull
            /\ pushed' = Append(pushed, Announcement(c))
            /\ Goto(c, "setOffset")
    /\ UNCHANGED <<seg, daemon, mem, head, script, hist>>

SetOffset_FirstOnly(c) ==
    /\ proc[c].pc = "setOffset"
    /\ rec' = [rec EXCEPT ![proc[c].off].at = IF @ = 0 THEN proc[c].at ELSE @]
    /\ Goto(c, "setLength")
    /\ UNCHANGED <<seg, daemon, recBump, strBump, index, heap, ring, script, hist>>

SetOffset(c) ==
    /\ proc[c].pc = "setOffset"
    /\ rec' = [rec EXCEPT ![proc[c].off].at = proc[c].at]
    /\ Goto(c, "setLength")
    /\ UNCHANGED <<seg, daemon, recBump, strBump, index, heap, ring, script, hist>>

SetLength(c) ==
    /\ proc[c].pc = "setLength"
    /\ rec' = [rec EXCEPT ![proc[c].off].len = proc[c].len]
    /\ last' = [last EXCEPT ![Key(c)].str = Field(c).value]
    /\ Goto(c, "pushField")
    /\ UNCHANGED <<seg, daemon, recBump, strBump, index, heap, ring, script, granted, raced, unlogged>>

PushField_Unbounded(c) ==
    /\ proc[c].pc = "pushField"
    /\ pushed' = Append(pushed, [kind |-> "field", off |-> proc[c].off, field |-> "num", words |-> <<0>>])
    /\ proc' = [proc EXCEPT ![c].pc = "fill", ![c].todo = Tail(@)]
    /\ UNCHANGED <<seg, daemon, mem, head, script, hist>>

PushField(c) ==
    /\ proc[c].pc = "pushField" /\ ~RingFull
    /\ pushed' = Append(pushed,
          [kind |-> "field", off |-> proc[c].off, field |-> Field(c).field,
           words |-> IF Field(c).field = "num" THEN <<Field(c).value>>
                     ELSE <<proc[c].at, proc[c].len>>])
    /\ proc' = [proc EXCEPT ![c].pc = "fill", ![c].todo = Tail(@)]
    /\ UNCHANGED <<seg, daemon, mem, head, script, hist>>

-----------------------------------------------------------------------------
(* CatalogRecordStore.save, up to its insert_index.                        *)

\* encodeCatalogRecord throws before anything is allocated.
SaveInvalid(c) ==
    /\ proc[c].pc = "encode" /\ ~Encodable(NameOf[Key(c)], Field(c).value)
    /\ Finish(c, "Error", None)
    /\ UNCHANGED <<seg, daemon, mem, ring, script, hist>>

SeedPayload(c) ==
    /\ proc[c].pc = "encode" /\ Encodable(NameOf[Key(c)], Field(c).value)
    /\ strBump' = IF strBump = 0 THEN stringDataStart(R) ELSE strBump
    /\ Goto(c, "addPayload")
    /\ UNCHANGED <<seg, daemon, recBump, index, rec, heap, ring, script, hist>>

\* A payload has to end inside the mapping, not inside the string region.
AddPayload(c) ==
    LET n == catalogEncodedLen(Len(Field(c).value))
    IN  /\ proc[c].pc = "addPayload"
        /\ strBump' = (strBump + n) % Word
        /\ IF strBump + n > seg.mapped
           THEN Finish(c, "OutOfStrings", None) /\ UNCHANGED granted
           ELSE /\ proc' = [proc EXCEPT ![c].pc = "copyPayload", ![c].at = strBump, ![c].len = n]
                /\ granted' = granted \cup {Grant("catalog", strBump, n)}
        /\ UNCHANGED <<seg, daemon, recBump, index, rec, heap, ring, script, raced, unlogged, last>>

CopyPayload(c) ==
    /\ proc[c].pc = "copyPayload"
    /\ heap' = Written(proc[c].at, proc[c].len,
                       [payload |-> encodeCatalogRecord(NameOf[Key(c)], Field(c).value)])
    /\ Goto(c, "notifyPayload")
    /\ UNCHANGED <<seg, daemon, recBump, strBump, index, rec, ring, script, hist>>

NotifyPayload(c) ==
    /\ proc[c].pc = "notifyPayload" /\ ~RingFull
    /\ pushed' = Append(pushed, Announcement(c))
    /\ proc' = [proc EXCEPT ![c].pc = "admit", ![c].off = proc[c].at]
    /\ UNCHANGED <<seg, daemon, mem, head, script, hist>>

-----------------------------------------------------------------------------
(* search_index, then what find, update, upsert and load do with it.       *)

Search(c) ==
    LET off == index[Key(c)]
    IN  /\ proc[c].pc = "search"
        /\ CASE Key(c) \in OverlongKeys -> Finish(c, "Error", None)
             [] Key(c) \notin OverlongKeys /\ off = 0 /\ Op(c) = "upsert" ->
                    proc' = [proc EXCEPT ![c].pc = "seedRecord", ![c].value = "created"]
             [] Key(c) \notin OverlongKeys /\ off = 0 /\ Op(c) # "upsert" -> Finish(c, "null", None)
             [] Key(c) \notin OverlongKeys /\ off # 0 /\ Op(c) = "load" ->
                    proc' = [proc EXCEPT ![c].pc = "payload", ![c].off = off]
             [] Key(c) \notin OverlongKeys /\ off # 0 /\ Op(c) # "load" ->
                    IF ProxyOk(off)
                    THEN proc' = [proc EXCEPT ![c].off = off,
                                    ![c].pc = IF Op(c) = "find" THEN "loadOffset" ELSE "fill"]
                    ELSE Finish(c, "Error", None)
        /\ UNCHANGED <<seg, daemon, mem, ring, script, hist>>

\* The get trap on the string field: two loads, then the bytes.
LoadOffset(c) ==
    /\ proc[c].pc = "loadOffset"
    /\ proc' = [proc EXCEPT ![c].pc = "loadLength", ![c].at = rec[proc[c].off].at]
    /\ UNCHANGED <<seg, daemon, mem, ring, script, hist>>

LoadLength(c) ==
    /\ proc[c].pc = "loadLength"
    /\ proc' = [proc EXCEPT ![c].pc = "decode", ![c].len = rec[proc[c].off].len]
    /\ UNCHANGED <<seg, daemon, mem, ring, script, hist>>

Decode(c) ==
    /\ proc[c].pc = "decode"
    /\ IF proc[c].at + proc[c].len > seg.mapped
       THEN Finish(c, "Error", None)
       ELSE Finish(c, "ok", StringAt(proc[c].at, proc[c].len))
    /\ UNCHANGED <<seg, daemon, mem, ring, script, hist>>

\* CatalogRecordStore.load: the header, the payload, the name in it.
ReadPayload(c) ==
    LET buf == PayloadAt(proc[c].off)
        dec == IF buf = <<>> THEN Corrupt ELSE decodeCatalogRecord(buf)
    IN  /\ proc[c].pc = "payload"
        /\ IF dec = Corrupt \/ dec.table # NameOf[Key(c)]
           THEN Finish(c, "corrupt", None)
           ELSE Finish(c, "loaded", dec.columns)
        /\ UNCHANGED <<seg, daemon, mem, ring, script, hist>>

\* remove_index: the key leaves the index, and nothing is logged.
remove_index(c) ==
    /\ proc[c].pc = "remove"
    /\ IF Key(c) \in OverlongKeys THEN Finish(c, "Error", None) /\ UNCHANGED index
       ELSE /\ Finish(c, IF index[Key(c)] # 0 THEN "true" ELSE "false", None)
            /\ index' = [index EXCEPT ![Key(c)] = 0]
    /\ UNCHANGED <<seg, daemon, recBump, strBump, rec, heap, ring, script, hist>>

DeleteKey(c) == remove_index(c) /\ Op(c) = "delete"

unmirrorPk(c) == remove_index(c) /\ Op(c) = "unmirror"

RemoveEntry(c) == remove_index(c) /\ Op(c) = "remove"

\* NativeSecondaryIndex.add: the scan of a unique index, then insert_index.
Indexed == {e \in Entries : index[e] # 0}

UniqueScan_Skipped(c) ==
    /\ proc[c].pc = "scan" /\ Goto(c, "admit")
    /\ UNCHANGED <<seg, daemon, mem, ring, script, hist>>

UniqueScan(c) ==
    /\ proc[c].pc = "scan"
    /\ IF lookup(Indexed, Key(c).value) # {} THEN Finish(c, "Duplicate", None) ELSE Goto(c, "admit")
    /\ UNCHANGED <<seg, daemon, mem, ring, script, hist>>

-----------------------------------------------------------------------------
\* The daemon pops a delta (Wal says what becomes of it).
Drain ==
    /\ daemon /\ head < Len(pushed)
    /\ head' = head + 1
    /\ UNCHANGED <<seg, daemon, mem, pushed, proc, script, hist>>

Step(c) ==
    \/ SeedRecord(c) \/ AddRecord(c)
    \/ Admit(c) \/ AllocKey(c) \/ PushKey(c) \/ PushTimeout(c) \/ Bind(c)
    \/ FillDone(c) \/ FillInvalid(c) \/ SetNumber(c)
    \/ SeedString(c) \/ AddString(c) \/ Copy(c) \/ Notify(c)
    \/ SetOffset(c) \/ SetLength(c) \/ PushField(c)
    \/ SaveInvalid(c) \/ SeedPayload(c) \/ AddPayload(c) \/ CopyPayload(c) \/ NotifyPayload(c)
    \/ Search(c) \/ LoadOffset(c) \/ LoadLength(c) \/ Decode(c) \/ ReadPayload(c)
    \/ DeleteKey(c) \/ unmirrorPk(c) \/ RemoveEntry(c) \/ UniqueScan(c)

Next == Drain \/ \E c \in Clients : Connect(c) \/ Call(c) \/ Step(c)

Spec == Init /\ [][Next]_vars

\* A process that runs keeps running; calls and the daemon may stop at any time.
FairSpec == Spec /\ \A c \in Clients : WF_vars(Step(c))

-----------------------------------------------------------------------------
(* Properties. *)

Rows == [num : Nat, at : Nat, len : Nat]

\* Types of all variables; the bump words stay inside their 32 bits.
TypeOK ==
    /\ seg \in Segments /\ daemon \in BOOLEAN
    /\ recBump \in 0 .. Word - 1 /\ strBump \in 0 .. Word - 1
    /\ index \in [IndexKeys -> Nat]
    /\ rec \in [Slots -> Rows]
    /\ head \in 0 .. Len(pushed)
    /\ Depth <= R.ringCapacity
    /\ raced \subseteq IndexKeys \cup OverlongKeys \cup {[value |-> e.value] : e \in Entries}

\* A client that passed the constructor's checks never maps two regions over
\* each other, over the header, or past the end of the mapping
\* (readRegions, validateRegions).
ConnectedLayoutIsSound ==
    (\E c \in Clients : proc[c].pc \notin {"unmapped", "refused"}) =>
        LET S == Spans(R)
        IN  /\ \A i, j \in 1 .. Len(S) : i # j => Apart(S[i], S[j])
            /\ \A i \in 1 .. Len(S) : HeaderBytes <= S[i].lo /\ S[i].hi <= seg.mapped
            /\ seg.version >= SpokenVersion

\* Whatever clients race on the two bump words (allocateRecordOffset, the
\* string set trap, allocString, CatalogRecordStore.save), no byte is handed
\* out twice, and every span lies in the region it was asked from.
GrantsApart ==
    /\ \A g, h \in granted : g # h => ~Overlap(g, h)
    /\ \A g \in granted :
         CASE g.kind = "record"  -> R.recordStart <= g.lo /\ g.hi <= recordEnd(R)
           [] g.kind = "catalog" -> stringDataStart(R) <= g.lo /\ g.hi <= seg.mapped
           [] OTHER              -> stringDataStart(R) <= g.lo /\ g.hi <= stringEnd(R)

Quiet(k) == k \notin raced /\ \A c \in Clients : Active(c) => Key(c) # k

\* A row on whose key no two calls overlapped holds exactly what was last
\* stored in it, whatever other clients do to other keys at the same time.
RowsHoldTheirWrites ==
    \A k \in Keys : index[k] # 0 /\ Quiet(k) =>
        LET row == rec[index[k]]
        IN  /\ row.num = last[k].num
            /\ StringAt(row.at, row.len) = last[k].str

\* Every key is bound to the start of a span that was allocated for it: a row
\* or a mirrored key to a record, a table to a catalog payload.
BoundToAllocated ==
    \A k \in IndexKeys : index[k] # 0 =>
        \E g \in granted : /\ g.lo = index[k]
                            /\ g.kind = IF k \in Tables THEN "catalog" ELSE "record"

\* In ring order every string pointer and every catalog binding comes after
\* the announcement of the bytes it refers to, so each prefix of the log that
\* a crash can leave replays to references that resolve.
LogRefersBackwards ==
    \A i \in 1 .. Len(pushed) :
        LET d == pushed[i]
            Announced(lo, n) == \E j \in 1 .. i - 1 : pushed[j] = [kind |-> "arena", lo |-> lo, hi |-> lo + n]
        IN  /\ d.kind = "field" /\ d.field = "str" => Announced(d.words[1], d.words[2])
            /\ d.kind = "index" /\ d.key \in Tables => \E n \in 1 .. catalogEncodedLen(MaxCatalogCols) : Announced(d.off, n)

\* What replaying the deltas pushed so far gives for a field of the record at off.
ReplayedField(off, f, zero) ==
    LET at == {i \in 1 .. Len(pushed) : /\ pushed[i].kind = "field"
                                        /\ pushed[i].off = off /\ pushed[i].field = f}
    IN  IF at = {} THEN zero ELSE pushed[Max(at)].words

ReplayedBinding(k) ==
    LET at == {i \in 1 .. Len(pushed) : pushed[i].kind = "index" /\ pushed[i].key = k}
    IN  IF at = {} THEN 0 ELSE pushed[Max(at)].off

\* With a daemon, a bound row none of whose deltas was refused is in the log
\* as it is in memory: the same offset, number and string pointer.
LogAgreesWithMemory ==
    \A k \in Keys : daemon /\ index[k] # 0 /\ Quiet(k) /\ k \notin unlogged =>
        LET o == ReplayedBinding(k)
        IN  /\ o = index[k]
            /\ <<rec[o].num>> = ReplayedField(o, "num", <<0>>)
            /\ <<rec[o].at, rec[o].len>> = ReplayedField(o, "str", <<0, 0>>)

SavedColumns ==
    {call.data[1].value : call \in {x \in UNION {Range(w[c]) : w \in Workloads, c \in Clients} : x.op = "save"}}

\* load never meets a half-written or foreign descriptor, even while another
\* client saves the same table, and answers column for column and flag for
\* flag what some client saved (CatalogRecordStore, encodeCatalogRecord,
\* decodeCatalogRecord).
CatalogLoadsWhole ==
    \A c \in Clients :
        /\ proc[c].res # "corrupt"
        /\ proc[c].res = "loaded" => proc[c].value \in SavedColumns

\* Two entries of a unique secondary index share a value only if two add or
\* remove calls for that value overlapped.
UniqueUnlessRaced ==
    \A e, f \in Indexed : e # f /\ e.value = f.value => [value |-> e.value] \in raced

Values == {e.value : e \in Entries}

\* The separator and sentinel encodings answer what the caller asked: lookup
\* the entries of one value, lookupRange and lookupNumericRange those of an
\* interval of values, none more, and none fewer than the first in key order
\* that the cap leaves room for.  No value or primary key of the run's entries
\* contains the separator or lies above the sentinel; CommentsHold below
\* is about one that does.
LookupsAreExact ==
    Indexed # {} =>
    /\ \A v \in Values : lookup(Indexed, v) = Leading(LookupCap, {e \in Indexed : e.value = v})
    /\ \A lo, hi \in Values \cup {<<>>} :
         lookupRange(Indexed, lo, hi) =
            Leading(RangeCap,
                    {e \in Indexed : (lo = <<>> \/ KeyLeq(lo, e.value)) /\ (hi = <<>> \/ KeyLeq(e.value, hi))})
    /\ \A m, n \in 0 .. Base ^ Digits - 1 :
         m <= n => lookupNumericRange(Indexed, m, n) =
                      Leading(RangeCap, {e \in Indexed : \E k \in m .. n : e.value = padU32Hex(k)})

\* A read of a row that nobody wrote meanwhile returns the string last stored
\* there: the two words of the fat pointer and the bytes belong together.
ReadsLastWrite ==
    [][\A c \in Clients :
         (proc[c].pc = "decode" /\ proc'[c].pc = "idle" /\ Key(c) \notin raced /\ index[Key(c)] = proc[c].off)
            => proc'[c].res = "ok" /\ proc'[c].value = last[Key(c)].str]_vars

\* Every call returns or throws, with or without a daemon and whatever the
\* ring and the regions hold.
CallsReturn == \A c \in Clients : Active(c) ~> ~Active(c)

-----------------------------------------------------------------------------
(* What comments of the code say and the code does not do.                 *)

\* SECONDARY_SEP: "a value containing arbitrary text cannot forge the boundary".
NothingForged == \A v \in Values : \A e \in lookup(Indexed, v) : e.value = v

\* HI_SENTINEL "admits all of them", the primary keys of the bound's value.
AllAdmitted ==
    \A v \in Values :
        LET wanted == {e \in Indexed : e.value = v}
        IN  Cardinality(wanted) <= RangeCap => wanted \subseteq lookupRange(Indexed, v, v)

\* encodeCatalogRecord: "an over-long name throws rather than being cut", so
\* what was saved decodes.
NamesFitOrThrow == \A c \in Clients : proc[c].res # "corrupt"

\* The set trap's allocation "mirrors `allocString`", which refuses only what
\* does not fit behind the last string.
RefusedDidNotFit ==
    \A c \in Clients :
      (proc[c].pc = "addString" /\ proc'[c].res = "OutOfStrings") =>
         LET used == {g.hi : g \in {h \in granted : h.kind # "record"}} \cup {stringDataStart(R)}
         IN  Max(used) + ByteLength[Field(c).value] > stringEnd(R)

\* At every step one of these comments, at least, is right.  (A step that
\* violates this contradicts all four of them.)
CommentsHold ==
    [][NothingForged' \/ AllAdmitted' \/ NamesFitOrThrow' \/ RefusedDidNotFit]_vars

=============================================================================
