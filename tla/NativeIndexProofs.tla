-------------------------- MODULE NativeIndexProofs --------------------------
(***************************************************************************)
(* The keys of NativeSecondaryIndex answer exactly what is asked, up to    *)
(* the cap of a scan, for every set of entries whose values are printable: *)
(* no character of a value is U+001F or below, and no primary key starts   *)
(* at the sentinel.                                                        *)
(***************************************************************************)
EXTENDS NativeIndex, FiniteSetTheorems, SequenceTheorems, WellFoundedInduction, TLAPS

Printable(v) == \A i \in 1 .. Len(v) : v[i] > SECONDARY_SEP

EntryTyped(e) == e.value \in Seq(Nat) /\ e.pk \in Seq(Nat)

PrintableEntry(e) ==
    /\ EntryTyped(e) /\ Printable(e.value)
    /\ e.pk # <<>> => e.pk[1] < HI_SENTINEL

-----------------------------------------------------------------------------
(* The characters of the keys and of the bounds. *)

LEMMA ConcatChars ==
    ASSUME NEW s \in Seq(Nat), NEW t \in Seq(Nat)
    PROVE  /\ s \o t \in Seq(Nat) /\ Len(s) \in Nat /\ Len(t) \in Nat /\ Len(s \o t) = Len(s) + Len(t)
           /\ \A i \in 1 .. Len(s) : (s \o t)[i] = s[i]
           /\ \A i \in 1 .. Len(t) : (s \o t)[Len(s) + i] = t[i]
<1>1. Len(s) \in Nat /\ Len(t) \in Nat
  OBVIOUS
<1>2. /\ s \o t \in Seq(Nat) /\ Len(s \o t) = Len(s) + Len(t)
      /\ \A i \in 1 .. Len(s) + Len(t) : (s \o t)[i] = IF i <= Len(s) THEN s[i] ELSE t[i - Len(s)]
  BY ConcatProperties
<1>3. ASSUME NEW i \in 1 .. Len(s) PROVE (s \o t)[i] = s[i]
  BY <1>1, <1>2
<1>4. ASSUME NEW i \in 1 .. Len(t) PROVE (s \o t)[Len(s) + i] = t[i]
  <2>1. /\ Len(s) + i \in 1 .. Len(s) + Len(t) /\ ~(Len(s) + i <= Len(s))
        /\ Len(s) + i - Len(s) = i
    BY <1>1
  <2> QED
    BY <1>2, <2>1
<1> QED
  BY <1>1, <1>2, <1>3, <1>4

LEMMA ThreeParts ==
    ASSUME NEW v \in Seq(Nat), NEW q \in Seq(Nat), NEW k, k = v \o <<SECONDARY_SEP>> \o q
    PROVE  /\ k \in Seq(Nat) /\ Len(v) \in Nat /\ Len(q) \in Nat /\ Len(k) = Len(v) + 1 + Len(q)
           /\ \A i \in 1 .. Len(v) : k[i] = v[i]
           /\ k[Len(v) + 1] = SECONDARY_SEP
           /\ \A i \in 1 .. Len(q) : k[Len(v) + 1 + i] = q[i]
<1> DEFINE s == <<SECONDARY_SEP>>
           p == v \o s
<1>0. s \in Seq(Nat) /\ Len(s) = 1 /\ s[1] = SECONDARY_SEP
  BY DEF SECONDARY_SEP
<1>2. k = p \o q
  BY Zenon
<1> HIDE DEF s
<1>1. /\ p \in Seq(Nat) /\ Len(v) \in Nat /\ Len(p) = Len(v) + Len(s)
      /\ \A i \in 1 .. Len(v) : p[i] = v[i]
      /\ \A i \in 1 .. Len(s) : p[Len(v) + i] = s[i]
  BY <1>0, ConcatChars, Zenon
<1> HIDE DEF p
<1>3. Len(q) \in Nat /\ Len(p) = Len(v) + 1 /\ p[Len(v) + 1] = SECONDARY_SEP
  BY <1>0, <1>1
<1>4. /\ k \in Seq(Nat) /\ Len(k) = Len(p) + Len(q)
      /\ \A i \in 1 .. Len(p) : k[i] = p[i]
      /\ \A i \in 1 .. Len(q) : k[Len(p) + i] = q[i]
  <2>1. /\ p \o q \in Seq(Nat) /\ Len(p \o q) = Len(p) + Len(q)
        /\ \A i \in 1 .. Len(p) : (p \o q)[i] = p[i]
        /\ \A i \in 1 .. Len(q) : (p \o q)[Len(p) + i] = q[i]
    BY <1>1, ConcatChars, Zenon
  <2> QED
    BY <1>2, <2>1, Zenon
<1>5. ASSUME NEW i \in 1 .. Len(v) PROVE k[i] = v[i]
  <2>1. i \in 1 .. Len(p)
    BY <1>1, <1>3
  <2> QED
    BY <1>1, <1>4, <2>1, Zenon
<1>6. k[Len(v) + 1] = SECONDARY_SEP
  <2>1. Len(v) + 1 \in 1 .. Len(p)
    BY <1>1, <1>3
  <2> QED
    BY <1>3, <1>4, <2>1, Zenon
<1>7. Len(k) = Len(v) + 1 + Len(q) /\ \A i \in 1 .. Len(q) : k[Len(v) + 1 + i] = q[i]
  BY <1>3, <1>4
<1> QED
  BY <1>1, <1>3, <1>4, <1>5, <1>6, <1>7

LEMMA EntryKeyShape ==
    ASSUME NEW e, EntryTyped(e)
    PROVE  /\ entryKey(e) \in Seq(Nat) /\ Len(e.value) \in Nat /\ Len(e.pk) \in Nat
           /\ Len(entryKey(e)) = Len(e.value) + 1 + Len(e.pk)
           /\ \A i \in 1 .. Len(e.value) : entryKey(e)[i] = e.value[i]
           /\ entryKey(e)[Len(e.value) + 1] = SECONDARY_SEP
           /\ \A i \in 1 .. Len(e.pk) : entryKey(e)[Len(e.value) + 1 + i] = e.pk[i]
<1> DEFINE Shape(v, q, k) ==
        /\ k \in Seq(Nat) /\ Len(v) \in Nat /\ Len(q) \in Nat /\ Len(k) = Len(v) + 1 + Len(q)
        /\ \A i \in 1 .. Len(v) : k[i] = v[i]
        /\ k[Len(v) + 1] = SECONDARY_SEP
        /\ \A i \in 1 .. Len(q) : k[Len(v) + 1 + i] = q[i]
<1>1. \A v \in Seq(Nat), q \in Seq(Nat) : \A k : k = v \o <<SECONDARY_SEP>> \o q => Shape(v, q, k)
  BY ThreeParts, Zenon
<1>2. e.value \in Seq(Nat) /\ e.pk \in Seq(Nat)
  BY DEF EntryTyped
<1>3. entryKey(e) = e.value \o <<SECONDARY_SEP>> \o e.pk
  BY Zenon DEF entryKey
<1> HIDE DEF Shape
<1>4. Shape(e.value, e.pk, entryKey(e))
  BY <1>1, <1>2, <1>3, Zenon
<1> QED
  BY <1>4 DEF Shape

LEMMA ValuePrefixShape ==
    ASSUME NEW v \in Seq(Nat)
    PROVE  /\ valuePrefix(v) \in Seq(Nat) /\ Len(v) \in Nat /\ Len(valuePrefix(v)) = Len(v) + 1
           /\ \A i \in 1 .. Len(v) : valuePrefix(v)[i] = v[i]
           /\ valuePrefix(v)[Len(v) + 1] = SECONDARY_SEP
  BY DEF valuePrefix, SECONDARY_SEP

LEMMA HighBoundShape ==
    ASSUME NEW v \in Seq(Nat)
    PROVE  LET b == Append(valuePrefix(v), HI_SENTINEL)
           IN  /\ b \in Seq(Nat) /\ Len(v) \in Nat /\ Len(b) = Len(v) + 2 /\ b # <<>>
               /\ \A i \in 1 .. Len(v) : b[i] = v[i]
               /\ b[Len(v) + 1] = SECONDARY_SEP /\ b[Len(v) + 2] = HI_SENTINEL
<1> DEFINE p == valuePrefix(v)
<1>1. p \in Seq(Nat) /\ Len(v) \in Nat /\ Len(p) = Len(v) + 1
  BY ValuePrefixShape
<1> HIDE DEF p
<1>2. HI_SENTINEL \in Nat
  BY DEF HI_SENTINEL
<1>3. /\ Append(p, HI_SENTINEL) \in Seq(Nat) /\ Append(p, HI_SENTINEL) # <<>>
      /\ Len(Append(p, HI_SENTINEL)) = Len(p) + 1
      /\ \A i \in 1 .. Len(p) : Append(p, HI_SENTINEL)[i] = p[i]
      /\ Append(p, HI_SENTINEL)[Len(p) + 1] = HI_SENTINEL
  BY <1>1, <1>2, AppendProperties
<1> DEFINE b == Append(p, HI_SENTINEL)
<1>4. (\A i \in 1 .. Len(v) : p[i] = v[i]) /\ p[Len(v) + 1] = SECONDARY_SEP
  BY ValuePrefixShape DEF p
<1>5. b \in Seq(Nat) /\ b # <<>> /\ Len(b) = Len(v) + 2 /\ b[Len(v) + 2] = HI_SENTINEL
  BY <1>1, <1>3
<1>6. \A i \in 1 .. Len(v) + 1 : b[i] = p[i]
  BY <1>1, <1>3
<1> HIDE DEF b
<1>7. (\A i \in 1 .. Len(v) : b[i] = v[i]) /\ b[Len(v) + 1] = SECONDARY_SEP
  BY <1>1, <1>4, <1>6
<1> QED
  BY <1>1, <1>5, <1>7 DEF b, p

LEMMA PrefixChars ==
    ASSUME NEW s \in Seq(Nat), NEW t \in Seq(Nat)
    PROVE  IsPrefix(s, t) <=> Len(s) <= Len(t) /\ \A i \in 1 .. Len(s) : s[i] = t[i]
<1>1. Len(s) \in Nat /\ Len(t) \in Nat
  OBVIOUS
<1>2. SubSeq(s, 1, Len(s)) = s
  BY SubSeqFull
<1>3. ASSUME Len(s) <= Len(t)
      PROVE  /\ SubSeq(t, 1, Len(s)) \in Seq(Nat) /\ Len(SubSeq(t, 1, Len(s))) = Len(s)
             /\ \A i \in 1 .. Len(s) : SubSeq(t, 1, Len(s))[i] = t[i]
  <2>1. \A i \in 1 .. Len(s) : t[i] \in Nat
    BY <1>1, <1>3
  <2> QED
    BY <1>1, <2>1, SubSeqProperties
<1>4. ASSUME Len(s) <= Len(t), \A i \in 1 .. Len(s) : s[i] = t[i]
      PROVE  s = SubSeq(t, 1, Len(s))
  BY <1>1, <1>3, <1>4, SeqEqual
<1> QED
  BY <1>1, <1>2, <1>3, <1>4 DEF IsPrefix

-----------------------------------------------------------------------------
(* The separator sorts below every character of a value, so it marks where *)
(* a value ends: k and b below are keys that start with w and v, each      *)
(* followed by the separator.                                              *)

Marked(k, w) ==
    /\ w \in Seq(Nat) /\ Printable(w) /\ Len(w) \in Nat /\ Len(k) \in Nat /\ Len(k) >= Len(w) + 1
    /\ \A i \in 1 .. Len(w) : k[i] = w[i]
    /\ k[Len(w) + 1] = SECONDARY_SEP

LEMMA NotShorter ==
    ASSUME NEW b, NEW v, NEW k, NEW w, Marked(b, v), Marked(k, w),
           \A j \in 1 .. Len(v) : b[j] = k[j]
    PROVE  Len(w) >= Len(v)
<1> SUFFICES ASSUME Len(w) < Len(v) PROVE FALSE
  BY DEF Marked
<1>1. Len(w) + 1 \in 1 .. Len(v)
  BY DEF Marked
<1>2. b[Len(w) + 1] = v[Len(w) + 1] /\ b[Len(w) + 1] = k[Len(w) + 1]
  BY <1>1 DEF Marked
<1>3. v[Len(w) + 1] > SECONDARY_SEP
  BY <1>1 DEF Marked, Printable
<1> QED
  BY <1>2, <1>3 DEF Marked, SECONDARY_SEP

LEMMA SameValue ==
    ASSUME NEW b, NEW v, NEW k, NEW w, Marked(b, v), Marked(k, w),
           \A j \in 1 .. Len(v) + 1 : b[j] = k[j]
    PROVE  v = w
<1>1. /\ v \in Seq(Nat) /\ w \in Seq(Nat) /\ Len(v) \in Nat /\ Len(w) \in Nat
      /\ \A j \in 1 .. Len(v) : b[j] = k[j]
  BY DEF Marked
<1>2. Len(w) >= Len(v)
  BY <1>1, NotShorter
<1>3. Len(w) = Len(v)
  <2> SUFFICES ASSUME Len(w) > Len(v) PROVE FALSE
    BY <1>1, <1>2
  <2>1. Len(v) + 1 \in 1 .. Len(w) /\ Len(v) + 1 \in 1 .. Len(v) + 1
    BY <1>1
  <2>2. k[Len(v) + 1] = w[Len(v) + 1] /\ w[Len(v) + 1] > SECONDARY_SEP
    BY <2>1 DEF Marked, Printable
  <2>3. k[Len(v) + 1] = SECONDARY_SEP
    BY <2>1 DEF Marked
  <2> QED
    BY <2>2, <2>3 DEF SECONDARY_SEP
<1>4. \A j \in 1 .. Len(v) : v[j] = w[j]
  BY <1>1, <1>3 DEF Marked
<1> QED
  BY <1>1, <1>3, <1>4, SeqEqual

\* A smaller key belongs to a smaller or to the same value.
LEMMA LessOfKeys ==
    ASSUME NEW b, NEW v, NEW k, NEW w, Marked(b, v), Marked(k, w), KeyLess(b, k)
    PROVE  v = w \/ KeyLess(v, w)
<1>0. Len(v) \in Nat /\ Len(w) \in Nat /\ Len(b) \in Nat /\ Len(k) \in Nat /\ Len(b) >= Len(v) + 1 /\ Len(k) >= Len(w) + 1
  BY DEF Marked
<1>1. PICK i \in 1 .. Len(k) :
        /\ i <= Len(b) + 1
        /\ \A j \in 1 .. i - 1 : b[j] = k[j]
        /\ i > Len(b) \/ b[i] < k[i]
  BY DEF KeyLess
<1>2. CASE i <= Len(v)
  <2>1. b[i] = v[i] /\ b[i] < k[i] /\ v[i] > SECONDARY_SEP /\ v[i] \in Nat
    BY SMTT(60), <1>0, <1>1, <1>2 DEF Marked, Printable
  <2>2. CASE i <= Len(w)
    <3>1. k[i] = w[i]
      BY <1>1, <2>2 DEF Marked
    <3>2. ASSUME NEW j \in 1 .. i - 1 PROVE v[j] = w[j]
      <4>1. j \in 1 .. Len(v) /\ j \in 1 .. Len(w)
        BY <1>0, <1>1, <1>2, <2>2
      <4> QED
        BY <1>1, <4>1 DEF Marked
    <3> QED
      BY SMTT(60), <1>0, <1>1, <1>2, <2>1, <2>2, <3>1, <3>2 DEF KeyLess
  <2>3. CASE i > Len(w)
    <3>1. Len(w) + 1 <= i /\ Len(w) + 1 \in 1 .. Len(v)
      BY <1>0, <1>1, <1>2, <2>3
    <3>2. k[Len(w) + 1] = SECONDARY_SEP /\ b[Len(w) + 1] = v[Len(w) + 1] /\ v[Len(w) + 1] > SECONDARY_SEP
      BY <3>1 DEF Marked, Printable
    <3>3. CASE i = Len(w) + 1
      BY <2>1, <3>2, <3>3 DEF SECONDARY_SEP
    <3>4. CASE Len(w) + 1 < i
      <4>1. b[Len(w) + 1] = k[Len(w) + 1]
        BY <1>0, <1>1, <3>4
      <4> QED
        BY <3>2, <4>1 DEF SECONDARY_SEP
    <3> QED
      BY <1>0, <1>1, <3>1, <3>3, <3>4
  <2> QED
    BY <1>0, <1>1, <2>2, <2>3
<1>3. CASE i = Len(v) + 1
  <2>1. b[i] = SECONDARY_SEP /\ b[i] < k[i] /\ \A j \in 1 .. Len(v) : b[j] = k[j]
    BY <1>0, <1>1, <1>3 DEF Marked
  <2>2. Len(w) >= Len(v)
    BY <2>1, NotShorter
  <2>3. Len(w) # Len(v)
    BY <1>3, <2>1 DEF Marked, SECONDARY_SEP
  <2>4. i \in 1 .. Len(w) /\ i <= Len(v) + 1 /\ i > Len(v)
    BY <1>0, <1>1, <1>3, <2>2, <2>3
  <2>5. ASSUME NEW j \in 1 .. i - 1 PROVE v[j] = w[j]
    <3>1. j \in 1 .. Len(v) /\ j \in 1 .. Len(w)
      BY <1>0, <1>3, <2>4
    <3> QED
      BY <2>1, <3>1 DEF Marked
  <2> QED
    BY <2>4, <2>5 DEF KeyLess
<1>4. CASE i > Len(v) + 1
  <2>1. \A j \in 1 .. Len(v) + 1 : b[j] = k[j]
    BY <1>0, <1>1, <1>4
  <2> QED
    BY <2>1, SameValue
<1> QED
  BY <1>0, <1>1, <1>2, <1>3, <1>4

\* Keys of different values are ordered like the values.
LEMMA LessOfValues ==
    ASSUME NEW b, NEW v, NEW k, NEW w, Marked(b, v), Marked(k, w), KeyLess(v, w)
    PROVE  KeyLess(b, k)
<1>0. Len(v) \in Nat /\ Len(w) \in Nat /\ Len(b) \in Nat /\ Len(k) \in Nat /\ Len(b) >= Len(v) + 1 /\ Len(k) >= Len(w) + 1
  BY DEF Marked
<1>1. PICK i \in 1 .. Len(w) :
        /\ i <= Len(v) + 1
        /\ \A j \in 1 .. i - 1 : v[j] = w[j]
        /\ i > Len(v) \/ v[i] < w[i]
  BY DEF KeyLess
<1>2. ASSUME NEW j \in 1 .. i - 1 PROVE b[j] = k[j]
  <2>1. j \in 1 .. Len(v) /\ j \in 1 .. Len(w)
    BY <1>0, <1>1
  <2> QED
    BY <1>1, <2>1 DEF Marked
<1>3. i \in 1 .. Len(k) /\ i <= Len(b) + 1 /\ k[i] = w[i] /\ w[i] > SECONDARY_SEP
  BY <1>0, <1>1 DEF Marked, Printable
<1>4. b[i] < k[i]
  <2>1. CASE i = Len(v) + 1
    BY <1>3, <2>1 DEF Marked, SECONDARY_SEP
  <2>2. CASE i \in 1 .. Len(v)
    BY <1>0, <1>1, <1>3, <2>2 DEF Marked
  <2> QED
    BY <1>0, <1>1, <2>1, <2>2
<1> QED
  BY <1>2, <1>3, <1>4 DEF KeyLess

-----------------------------------------------------------------------------
(* The two bounds of a scan, and what the lookups return. *)

LEMMA KeyMarked ==
    ASSUME NEW e, PrintableEntry(e)
    PROVE  Marked(entryKey(e), e.value) /\ Len(entryKey(e)) = Len(e.value) + 1 + Len(e.pk)
<1>1. EntryTyped(e) /\ e.value \in Seq(Nat) /\ Printable(e.value)
  BY DEF PrintableEntry, EntryTyped
<1>2. /\ Len(e.value) \in Nat /\ Len(e.pk) \in Nat
      /\ Len(entryKey(e)) = Len(e.value) + 1 + Len(e.pk)
      /\ \A i \in 1 .. Len(e.value) : entryKey(e)[i] = e.value[i]
      /\ entryKey(e)[Len(e.value) + 1] = SECONDARY_SEP
  BY <1>1, EntryKeyShape, Zenon
<1>3. \A m, n, l : m \in Nat /\ n \in Nat /\ l = m + 1 + n => l \in Nat /\ l >= m + 1
  OBVIOUS
<1>4. Len(entryKey(e)) \in Nat /\ Len(entryKey(e)) >= Len(e.value) + 1
  BY <1>2, <1>3, Zenon
<1> QED
  BY <1>1, <1>2, <1>4, Zenon DEF Marked

LEMMA PrefixMarked ==
    ASSUME NEW v \in Seq(Nat), Printable(v)
    PROVE  Marked(valuePrefix(v), v) /\ Len(valuePrefix(v)) = Len(v) + 1 /\ valuePrefix(v) # <<>>
<1>1. /\ Len(v) \in Nat /\ Len(valuePrefix(v)) = Len(v) + 1 /\ valuePrefix(v) \in Seq(Nat)
      /\ \A i \in 1 .. Len(v) : valuePrefix(v)[i] = v[i]
      /\ valuePrefix(v)[Len(v) + 1] = SECONDARY_SEP
  BY ValuePrefixShape, Zenon
<1>2. Len(valuePrefix(v)) \in Nat /\ Len(valuePrefix(v)) >= Len(v) + 1 /\ Len(valuePrefix(v)) # 0
  BY <1>1
<1>3. valuePrefix(v) # <<>>
  <2>1. Len(<<>>) = 0
    OBVIOUS
  <2> QED
    BY <1>2, <2>1, Zenon
<1> QED
  BY <1>1, <1>2, <1>3 DEF Marked

LEMMA HighMarked ==
    ASSUME NEW v \in Seq(Nat), Printable(v)
    PROVE  LET b == Append(valuePrefix(v), HI_SENTINEL)
           IN  /\ Marked(b, v) /\ Len(b) = Len(v) + 2 /\ b # <<>>
               /\ b[Len(v) + 2] = HI_SENTINEL
<1> DEFINE b == Append(valuePrefix(v), HI_SENTINEL)
<1> SUFFICES Marked(b, v) /\ Len(b) = Len(v) + 2 /\ b # <<>> /\ b[Len(v) + 2] = HI_SENTINEL
  OBVIOUS
<1>1. /\ b \in Seq(Nat) /\ Len(v) \in Nat /\ Len(b) = Len(v) + 2 /\ b # <<>>
      /\ \A i \in 1 .. Len(v) : b[i] = v[i]
      /\ b[Len(v) + 1] = SECONDARY_SEP /\ b[Len(v) + 2] = HI_SENTINEL
  BY HighBoundShape, Zenon
<1> HIDE DEF b
<1>2. Len(b) \in Nat /\ Len(b) >= Len(v) + 1
  BY <1>1
<1> QED
  BY <1>1, <1>2 DEF Marked

\* The prefix of a value is a prefix of exactly the keys of that value.
LEMMA PrefixIsValue ==
    ASSUME NEW v \in Seq(Nat), NEW e, Printable(v), PrintableEntry(e)
    PROVE  IsPrefix(valuePrefix(v), entryKey(e)) <=> e.value = v
<1> DEFINE p == valuePrefix(v)
           k == entryKey(e)
           w == e.value
<1> SUFFICES IsPrefix(p, k) <=> w = v
  OBVIOUS
<1>1. Marked(p, v) /\ Len(p) = Len(v) + 1 /\ p \in Seq(Nat)
  BY PrefixMarked, ValuePrefixShape, Zenon
<1>2. Marked(k, w) /\ k \in Seq(Nat)
  BY KeyMarked, EntryKeyShape DEF PrintableEntry
<1> HIDE DEF p, k, w
<1>3. Len(p) \in Nat /\ Len(k) \in Nat /\ Len(v) \in Nat
  BY <1>1, <1>2 DEF Marked
<1>4. IsPrefix(p, k) <=> Len(p) <= Len(k) /\ \A i \in 1 .. Len(p) : p[i] = k[i]
  BY <1>1, <1>2, PrefixChars, Zenon
<1>5. ASSUME IsPrefix(p, k) PROVE w = v
  <2>1. \A j \in 1 .. Len(v) + 1 : p[j] = k[j]
    BY <1>1, <1>4, <1>5
  <2> QED
    BY <1>1, <1>2, <2>1, SameValue
<1>6. ASSUME w = v PROVE IsPrefix(p, k)
  <2>1. Len(p) <= Len(k)
    BY <1>1, <1>2, <1>3, <1>6 DEF Marked
  <2>2. ASSUME NEW i \in 1 .. Len(p) PROVE p[i] = k[i]
    <3>1. i \in 1 .. Len(v) \/ i = Len(v) + 1
      BY <1>1, <1>3
    <3> QED
      BY <1>1, <1>2, <1>6, <3>1 DEF Marked
  <2> QED
    BY <1>4, <2>1, <2>2
<1> QED
  BY <1>5, <1>6

\* A key carries the prefix of its own value, whatever characters it holds.
LEMMA OwnPrefix ==
    ASSUME NEW e, EntryTyped(e)
    PROVE  IsPrefix(valuePrefix(e.value), entryKey(e))
<1> DEFINE v == e.value
           p == valuePrefix(v)
           k == entryKey(e)
           q == e.pk
<1> SUFFICES IsPrefix(p, k)
  OBVIOUS
<1>1. v \in Seq(Nat)
  BY DEF EntryTyped
<1>2. /\ p \in Seq(Nat) /\ Len(v) \in Nat /\ Len(p) = Len(v) + 1
      /\ (\A i \in 1 .. Len(v) : p[i] = v[i]) /\ p[Len(v) + 1] = SECONDARY_SEP
  BY <1>1, ValuePrefixShape, Zenon
<1>3. /\ k \in Seq(Nat) /\ Len(q) \in Nat /\ Len(k) = Len(v) + 1 + Len(q)
      /\ (\A i \in 1 .. Len(v) : k[i] = v[i]) /\ k[Len(v) + 1] = SECONDARY_SEP
  BY EntryKeyShape, Zenon
<1> HIDE DEF v, p, k, q
<1>4. IsPrefix(p, k) <=> Len(p) <= Len(k) /\ \A i \in 1 .. Len(p) : p[i] = k[i]
  BY <1>2, <1>3, PrefixChars, Zenon
<1>5. Len(p) <= Len(k)
  BY <1>2, <1>3
<1>6. ASSUME NEW i \in 1 .. Len(p) PROVE p[i] = k[i]
  <2>1. i \in 1 .. Len(v) \/ i = Len(v) + 1
    BY <1>2
  <2> QED
    BY <1>2, <1>3, <2>1
<1> QED
  BY <1>4, <1>5, <1>6

\* The low bound of a value lets through the keys of that value and of the
\* larger ones.
LEMMA LowBound ==
    ASSUME NEW v \in Seq(Nat), NEW e, Printable(v), PrintableEntry(e)
    PROVE  KeyLeq(valuePrefix(v), entryKey(e)) <=> KeyLeq(v, e.value)
<1> DEFINE p == valuePrefix(v)
           k == entryKey(e)
           w == e.value
<1> SUFFICES KeyLeq(p, k) <=> KeyLeq(v, w)
  OBVIOUS
<1>1. Marked(p, v) /\ Len(p) = Len(v) + 1 /\ p \in Seq(Nat)
  BY PrefixMarked, ValuePrefixShape, Zenon
<1>2. Marked(k, w) /\ k \in Seq(Nat)
  BY KeyMarked, EntryKeyShape DEF PrintableEntry
<1> HIDE DEF p, k, w
<1>3. /\ Len(p) \in Nat /\ Len(k) \in Nat /\ Len(v) \in Nat /\ Len(w) \in Nat
      /\ Len(k) >= Len(w) + 1
  BY <1>1, <1>2 DEF Marked
<1>4. ASSUME KeyLeq(p, k) PROVE KeyLeq(v, w)
  <2>1. CASE p = k
    BY <1>1, <1>2, <2>1, SameValue DEF KeyLeq
  <2>2. CASE KeyLess(p, k)
    BY <1>1, <1>2, <2>2, LessOfKeys DEF KeyLeq
  <2> QED
    BY <1>4, <2>1, <2>2 DEF KeyLeq
<1>5. ASSUME v = w PROVE KeyLeq(p, k)
  <2>1. \A j \in 1 .. Len(p) : p[j] = k[j]
    <3>1. SUFFICES ASSUME NEW j \in 1 .. Len(p) PROVE p[j] = k[j]
      OBVIOUS
    <3>2. j \in 1 .. Len(v) \/ j = Len(v) + 1
      BY <1>1, <1>3
    <3> QED
      BY <1>1, <1>2, <1>5, <3>2 DEF Marked
  <2>2. CASE Len(k) = Len(p)
    BY <1>1, <1>2, <2>1, <2>2, SeqEqual DEF KeyLeq
  <2>3. CASE Len(k) # Len(p)
    <3>1. Len(p) + 1 \in 1 .. Len(k) /\ Len(p) + 1 <= Len(p) + 1 /\ Len(p) + 1 > Len(p)
      BY <1>1, <1>3, <1>5, <2>3
    <3>2. \A j \in 1 .. (Len(p) + 1) - 1 : p[j] = k[j]
      BY <1>3, <2>1
    <3> QED
      BY <3>1, <3>2 DEF KeyLeq, KeyLess
  <2> QED
    BY <2>2, <2>3
<1>6. ASSUME KeyLess(v, w) PROVE KeyLeq(p, k)
  BY <1>1, <1>2, <1>6, LessOfValues DEF KeyLeq
<1> QED
  BY <1>4, <1>5, <1>6 DEF KeyLeq

\* The high bound of a value, closed by the sentinel, lets through the keys of
\* that value, whatever their primary key, and of the smaller ones.
LEMMA HighBound ==
    ASSUME NEW v \in Seq(Nat), NEW e, Printable(v), PrintableEntry(e)
    PROVE  KeyLeq(entryKey(e), Append(valuePrefix(v), HI_SENTINEL)) <=> KeyLeq(e.value, v)
<1> DEFINE b == Append(valuePrefix(v), HI_SENTINEL)
           k == entryKey(e)
           w == e.value
           q == e.pk
<1> SUFFICES KeyLeq(k, b) <=> KeyLeq(w, v)
  OBVIOUS
<1>1. Marked(b, v) /\ Len(b) = Len(v) + 2 /\ b[Len(v) + 2] = HI_SENTINEL
  BY HighMarked, Zenon
<1>2. /\ Marked(k, w) /\ Len(k) = Len(w) + 1 + Len(q) /\ Len(q) \in Nat /\ q \in Seq(Nat)
      /\ \A i \in 1 .. Len(q) : k[Len(w) + 1 + i] = q[i]
  <2>1. EntryTyped(e) /\ e.pk \in Seq(Nat)
    BY DEF PrintableEntry, EntryTyped
  <2> QED
    BY <2>1, KeyMarked, EntryKeyShape, Zenon
<1>3. q # <<>> => q[1] < HI_SENTINEL
  BY DEF PrintableEntry
<1> HIDE DEF b, k, w, q
<1>4. Len(b) \in Nat /\ Len(k) \in Nat /\ Len(v) \in Nat /\ Len(w) \in Nat
  BY <1>1, <1>2 DEF Marked
<1>5. ASSUME KeyLeq(k, b) PROVE KeyLeq(w, v)
  <2>1. CASE k = b
    BY <1>1, <1>2, <2>1, SameValue DEF KeyLeq
  <2>2. CASE KeyLess(k, b)
    BY <1>1, <1>2, <2>2, LessOfKeys DEF KeyLeq
  <2> QED
    BY <1>5, <2>1, <2>2 DEF KeyLeq
<1>6. ASSUME w = v PROVE KeyLess(k, b)
  <2>1. Len(v) + 2 \in 1 .. Len(b) /\ Len(v) + 2 <= Len(k) + 1
    BY <1>1, <1>2, <1>4, <1>6
  <2>2. ASSUME NEW j \in 1 .. (Len(v) + 2) - 1 PROVE k[j] = b[j]
    <3>1. j \in 1 .. Len(v) \/ j = Len(v) + 1
      BY <1>4
    <3> QED
      BY <1>1, <1>2, <1>6, <3>1 DEF Marked
  <2>3. Len(v) + 2 > Len(k) \/ k[Len(v) + 2] < b[Len(v) + 2]
    <3>1. CASE Len(q) = 0
      BY <1>2, <1>4, <1>6, <3>1
    <3>2. CASE Len(q) # 0
      <4>1. 1 \in 1 .. Len(q) /\ q # <<>> /\ Len(w) + 1 + 1 = Len(v) + 2
        BY <1>2, <1>4, <1>6, <3>2
      <4>2. k[Len(v) + 2] = q[1]
        BY <1>2, <4>1
      <4> QED
        BY <1>1, <1>3, <4>1, <4>2
    <3> QED
      BY <3>1, <3>2
  <2> QED
    BY <2>1, <2>2, <2>3 DEF KeyLess
<1>7. ASSUME KeyLess(w, v) PROVE KeyLess(k, b)
  BY <1>1, <1>2, <1>7, LessOfValues
<1> QED
  BY <1>5, <1>6, <1>7 DEF KeyLeq

-----------------------------------------------------------------------------
(* The cap of a scan. *)

LEMMA KeyLessIrreflexive == ASSUME NEW s \in Seq(Nat) PROVE ~KeyLess(s, s)
<1> SUFFICES ASSUME NEW i \in 1 .. Len(s), s[i] < s[i] PROVE FALSE
  BY DEF KeyLess
<1>1. s[i] \in Nat
  BY ElementOfSeq
<1> QED
  BY <1>1

LEMMA KeyLessTransitive ==
    ASSUME NEW r \in Seq(Nat), NEW s \in Seq(Nat), NEW t \in Seq(Nat), KeyLess(r, s), KeyLess(s, t)
    PROVE  KeyLess(r, t)
<1>1. PICK i \in 1 .. Len(s) :
        i <= Len(r) + 1 /\ (\A k \in 1 .. i - 1 : r[k] = s[k]) /\ (i > Len(r) \/ r[i] < s[i])
  BY DEF KeyLess
<1>2. PICK j \in 1 .. Len(t) :
        j <= Len(s) + 1 /\ (\A k \in 1 .. j - 1 : s[k] = t[k]) /\ (j > Len(s) \/ s[j] < t[j])
  BY DEF KeyLess
<1>3. Len(r) \in Nat /\ Len(s) \in Nat /\ Len(t) \in Nat
  OBVIOUS
<1>7. /\ i \in Nat /\ 1 <= i /\ i <= Len(s) /\ i <= Len(r) + 1
      /\ j \in Nat /\ 1 <= j /\ j <= Len(t) /\ j <= Len(s) + 1
  BY <1>1, <1>2, <1>3
<1>4. CASE i < j
  <2>1. i \in 1 .. Len(t) /\ \A k \in 1 .. i - 1 : r[k] = t[k]
    <3>1. i \in 1 .. Len(t) /\ \A k \in 1 .. i - 1 : k \in 1 .. j - 1
      BY <1>1, <1>2, <1>3, <1>4
    <3> QED
      BY <1>1, <1>2, <3>1
  <2>2. s[i] = t[i]
    BY <1>1, <1>2, <1>3, <1>4
  <2> QED
    BY <1>1, <2>1, <2>2 DEF KeyLess
<1>5. CASE j < i
  <2>1. j <= Len(r) + 1 /\ \A k \in 1 .. j - 1 : r[k] = t[k]
    <3>1. j <= Len(r) + 1 /\ \A k \in 1 .. j - 1 : k \in 1 .. i - 1
      BY <1>3, <1>5, <1>7
    <3> QED
      BY <1>1, <1>2, <3>1
  <2>2. r[j] = s[j] /\ s[j] < t[j]
    <3>1. j \in 1 .. i - 1 /\ ~(j > Len(s))
      BY <1>1, <1>2, <1>3, <1>5
    <3> QED
      BY <1>1, <1>2, <3>1
  <2> QED
    BY <1>2, <2>1, <2>2 DEF KeyLess
<1>6. CASE i = j
  <2>1. \A k \in 1 .. i - 1 : r[k] = t[k]
    BY <1>1, <1>2, <1>3, <1>6
  <2>2. s[i] < t[i]
    <3>1. ~(j > Len(s))
      BY <1>1, <1>3, <1>6
    <3> QED
      BY <1>2, <1>6, <3>1
  <2>3. i <= Len(r) => r[i] < t[i]
    <3> SUFFICES ASSUME i <= Len(r) PROVE r[i] < t[i]
      OBVIOUS
    <3>1. r[i] \in Nat /\ s[i] \in Nat /\ t[i] \in Nat
      <4>1. i \in 1 .. Len(r) /\ i \in 1 .. Len(s) /\ i \in 1 .. Len(t)
        BY <1>1, <1>2, <1>3, <1>6
      <4>2. r[i] \in Nat
        BY <4>1, ElementOfSeq
      <4>3. s[i] \in Nat
        BY <4>1, ElementOfSeq
      <4>4. t[i] \in Nat
        BY <4>1, ElementOfSeq
      <4> QED
        BY <4>2, <4>3, <4>4
    <3>2. r[i] < s[i]
      BY <1>1, <1>3
    <3> QED
      BY <2>2, <3>1, <3>2
  <2>4. i \in 1 .. Len(t) /\ i <= Len(r) + 1 /\ (i > Len(r) \/ r[i] < t[i])
    BY <1>3, <1>6, <1>7, <2>3
  <2> QED
    BY <2>1, <2>4 DEF KeyLess
<1> QED
  BY <1>4, <1>5, <1>6, <1>7

LEMMA BelowFinite ==
    ASSUME NEW S, IsFiniteSet(S), \A e \in S : EntryTyped(e), NEW e \in S
    PROVE  /\ IsFiniteSet(Below(S, e)) /\ Cardinality(Below(S, e)) \in Nat
           /\ Cardinality(Below(S, e)) < Cardinality(S)
<1>1. Below(S, e) \in SUBSET S /\ e \notin Below(S, e)
  <2>1. entryKey(e) \in Seq(Nat)
    BY EntryKeyShape
  <2> QED
    BY <2>1, KeyLessIrreflexive DEF Below
<1>2. IsFiniteSet(Below(S, e)) /\ Cardinality(Below(S, e)) <= Cardinality(S) /\ Cardinality(Below(S, e)) # Cardinality(S)
  BY <1>1, FS_Subset, Zenon
<1>3. Cardinality(Below(S, e)) \in Nat /\ Cardinality(S) \in Nat
  BY <1>2, FS_CardinalityType
<1> QED
  BY <1>2, <1>3

\* A scan that finds no more entries than its cap returns them all.
LEMMA LeadingAll ==
    ASSUME NEW S, IsFiniteSet(S), \A e \in S : EntryTyped(e), NEW n \in Nat, Cardinality(S) <= n
    PROVE  Leading(n, S) = S
<1>1. ASSUME NEW e \in S PROVE Cardinality(Below(S, e)) < n
  <2>1. Cardinality(Below(S, e)) \in Nat /\ Cardinality(Below(S, e)) < Cardinality(S) /\ Cardinality(S) \in Nat
    BY BelowFinite, FS_CardinalityType
  <2> QED
    BY <2>1
<1> QED
  BY <1>1 DEF Leading

\* A scan that finds any entry returns one.
LEMMA LeadingSome ==
    ASSUME NEW S, IsFiniteSet(S), \A e \in S : EntryTyped(e), S # {}, NEW n \in Nat \ {0}
    PROVE  Leading(n, S) # {}
<1> DEFINE C(e) == Cardinality(Below(S, e))
           T == {C(e) : e \in S}
<1>1. T \subseteq Nat /\ T # {}
  BY BelowFinite
<1>2. PICK x \in T : \A y \in T : ~(<<y, x>> \in OpToRel(<, Nat))
  BY <1>1, NatLessThanWellFounded, WFMin, Zenon
<1>3. \A y \in T : ~(y < x)
  BY <1>1, <1>2 DEF OpToRel
<1>4. PICK e \in S : x = C(e)
  OBVIOUS
<1>5. ASSUME NEW f \in Below(S, e) PROVE FALSE
  <2>1. f \in S /\ KeyLess(entryKey(f), entryKey(e))
    BY DEF Below
  <2>2. \A g \in S : entryKey(g) \in Seq(Nat)
    BY EntryKeyShape
  <2>3. Below(S, f) \in SUBSET Below(S, e) /\ f \notin Below(S, f)
    BY <2>1, <2>2, KeyLessTransitive, KeyLessIrreflexive DEF Below
  <2>4. Below(S, f) # Below(S, e)
    BY <2>3
  <2>5. C(f) <= C(e) /\ C(f) # C(e)
    BY <2>3, <2>4, BelowFinite, FS_Subset, Zenon
  <2>6. C(f) \in Nat /\ C(e) \in Nat
    BY <2>1, BelowFinite
  <2> HIDE DEF C
  <2> QED
    BY <1>3, <1>4, <2>1, <2>5, <2>6
<1>6. C(e) = 0
  <2>1. Below(S, e) = {}
    BY <1>5
  <2> QED
    BY <2>1, FS_EmptySet
<1> QED
  BY <1>6 DEF Leading

-----------------------------------------------------------------------------
(* The three lookups. *)

\* NativeSecondaryIndex.lookup: scanning the prefix <value><SEP> returns the
\* entries of exactly that value, whatever other values and primary keys the
\* index holds: a value that is a prefix of another, or a primary key that
\* looks like the end of a value, brings in nothing.
THEOREM LookupIsExact ==
    ASSUME NEW E, \A e \in E : PrintableEntry(e), NEW v \in Seq(Nat), Printable(v)
    PROVE  lookup(E, v) = Leading(LookupCap, {e \in E : e.value = v})
<1>1. \A e \in E : IsPrefix(valuePrefix(v), entryKey(e)) <=> e.value = v
  BY PrefixIsValue
<1>2. {e \in E : IsPrefix(valuePrefix(v), entryKey(e))} = {e \in E : e.value = v}
  BY <1>1, Zenon
<1> QED
  BY <1>2, Zenon DEF lookup, scanPrefix

\* NativeSecondaryIndex.lookup: with no more rows of a value than the cap of a
\* scan, lookup misses none of them; with more it still finds some, which is
\* all that the unique check of add needs.
THEOREM LookupMissesNone ==
    ASSUME NEW E, IsFiniteSet(E), \A e \in E : PrintableEntry(e), NEW v \in Seq(Nat), Printable(v)
    PROVE  LET wanted == {e \in E : e.value = v}
           IN  /\ Cardinality(wanted) <= LookupCap => lookup(E, v) = wanted
               /\ wanted # {} => lookup(E, v) # {}
<1> DEFINE W == {e \in E : e.value = v}
<1>1. W \in SUBSET E /\ \A e \in W : EntryTyped(e)
  BY DEF PrintableEntry
<1>2. IsFiniteSet(W)
  BY <1>1, FS_Subset
<1>3. lookup(E, v) = Leading(LookupCap, W)
  BY LookupIsExact
<1>4. LookupCap \in Nat \ {0} /\ LookupCap \in Nat
  BY ScanCapAssumption
<1> HIDE DEF W
<1>5. Cardinality(W) <= LookupCap => lookup(E, v) = W
  BY <1>1, <1>2, <1>3, <1>4, LeadingAll
<1>6. W # {} => lookup(E, v) # {}
  BY <1>1, <1>2, <1>3, <1>4, LeadingSome
<1> QED
  BY <1>5, <1>6 DEF W

\* NativeSecondaryIndex.lookupRange: the scan between <lo><SEP> and
\* <hi><SEP><U+FFFF> returns the entries whose value lies between lo and hi,
\* both included; an empty bound is open.
THEOREM RangeIsExact ==
    ASSUME NEW E, \A e \in E : PrintableEntry(e),
           NEW lo \in Seq(Nat), NEW hi \in Seq(Nat), Printable(lo), Printable(hi)
    PROVE  lookupRange(E, lo, hi) =
              Leading(RangeCap,
                      {e \in E : (lo = <<>> \/ KeyLeq(lo, e.value)) /\ (hi = <<>> \/ KeyLeq(e.value, hi))})
<1> DEFINE L == IF lo = <<>> THEN <<>> ELSE valuePrefix(lo)
           H == IF hi = <<>> THEN <<>> ELSE Append(valuePrefix(hi), HI_SENTINEL)
<1>1. valuePrefix(lo) # <<>> /\ Append(valuePrefix(hi), HI_SENTINEL) # <<>>
  BY PrefixMarked, HighMarked, Zenon
<1>2. ASSUME NEW e \in E
      PROVE  /\ (L = <<>> \/ KeyLeq(L, entryKey(e))) <=> (lo = <<>> \/ KeyLeq(lo, e.value))
             /\ (H = <<>> \/ KeyLeq(entryKey(e), H)) <=> (hi = <<>> \/ KeyLeq(e.value, hi))
  <2>1. KeyLeq(valuePrefix(lo), entryKey(e)) <=> KeyLeq(lo, e.value)
    BY LowBound
  <2>2. KeyLeq(entryKey(e), Append(valuePrefix(hi), HI_SENTINEL)) <=> KeyLeq(e.value, hi)
    BY HighBound
  <2> QED
    BY <1>1, <2>1, <2>2, Zenon
<1>3. lookupRange(E, lo, hi) = scanRange(E, L, H, RangeCap)
  BY Zenon DEF lookupRange
<1> HIDE DEF L, H
<1>4. {e \in E : (L = <<>> \/ KeyLeq(L, entryKey(e))) /\ (H = <<>> \/ KeyLeq(entryKey(e), H))}
        = {e \in E : (lo = <<>> \/ KeyLeq(lo, e.value)) /\ (hi = <<>> \/ KeyLeq(e.value, hi))}
  BY <1>2, Zenon
<1> QED
  BY <1>3, <1>4, Zenon DEF scanRange

-----------------------------------------------------------------------------
(* PaddedNumbers are stored in padded digits, so that their keys sort like them.  *)

PaddedNumbers == 0 .. Base ^ Digits - 1

LEMMA PaddedChars ==
    ASSUME NEW n \in PaddedNumbers
    PROVE  /\ padU32Hex(n) \in Seq(Nat) /\ Len(padU32Hex(n)) = 3 /\ Printable(padU32Hex(n))
           /\ \E a, b, c \in 0 .. 1 :
                /\ n = 4 * a + 2 * b + c
                /\ padU32Hex(n)[1] = 48 + a /\ padU32Hex(n)[2] = 48 + b /\ padU32Hex(n)[3] = 48 + c
<1> DEFINE s == padU32Hex(n)
<1>1. n \in 0 .. 7 /\ Digits = 3 /\ Base = 2
  BY DEF PaddedNumbers, Base, Digits
<1> SUFFICES /\ s \in Seq(Nat) /\ Len(s) = 3 /\ Printable(s)
             /\ \E a, b, c \in 0 .. 1 :
                  n = 4 * a + 2 * b + c /\ s[1] = 48 + a /\ s[2] = 48 + b /\ s[3] = 48 + c
  BY SMTT(60)
<1>2. s = [i \in 1 .. 3 |-> 48 + ((n \div (2 ^ (3 - i))) % 2)]
  BY DEF padU32Hex, DigitChar, Base, Digits
<1>3. s[1] = 48 + ((n \div 4) % 2) /\ s[2] = 48 + ((n \div 2) % 2) /\ s[3] = 48 + (n % 2)
  BY <1>1, <1>2
<1> DEFINE a == (n \div 4) % 2
           b == (n \div 2) % 2
           c == n % 2
<1>4. a \in 0 .. 1 /\ b \in 0 .. 1 /\ c \in 0 .. 1 /\ n = 4 * a + 2 * b + c
  BY <1>1
<1>5. s[1] = 48 + a /\ s[2] = 48 + b /\ s[3] = 48 + c
  BY <1>3
<1>6. s = [i \in 1 .. 3 |-> s[i]] /\ \A i \in 1 .. 3 : i = 1 \/ i = 2 \/ i = 3
  BY <1>2
<1> HIDE DEF s, a, b, c
<1>7. \A i \in 1 .. 3 : s[i] \in Nat /\ s[i] > 31
  BY <1>4, <1>5, <1>6
<1>8. s \in [1 .. 3 -> Nat]
  BY <1>6, <1>7
<1>9. s \in Seq(Nat) /\ Len(s) = 3
  <2>1. s \in Seq(Nat)
    BY <1>8, SeqDef
  <2>2. Len(s) \in Nat /\ DOMAIN s = 1 .. Len(s)
    BY <2>1, LenProperties
  <2>3. DOMAIN s = 1 .. 3
    BY <1>8
  <2>4. 1 .. Len(s) = 1 .. 3
    BY <2>2, <2>3, Zenon
  <2>5. \A l \in Nat : 1 .. l = 1 .. 3 => l = 3
    <3> SUFFICES ASSUME NEW k \in Nat, 1 .. k = 1 .. 3 PROVE k = 3
      OBVIOUS
    <3>1. 3 \in 1 .. 3 /\ ~(4 \in 1 .. 3)
      OBVIOUS
    <3>2. 3 \in 1 .. k /\ ~(4 \in 1 .. k)
      BY <3>1, Zenon
    <3> QED
      BY <3>2
  <2> QED
    BY <2>1, <2>2, <2>4, <2>5, Zenon
<1>10. Printable(s)
  BY <1>7, <1>9 DEF Printable, SECONDARY_SEP
<1> QED
  BY <1>4, <1>5, <1>9, <1>10, Zenon

LEMMA PaddedOrder ==
    ASSUME NEW m \in PaddedNumbers, NEW n \in PaddedNumbers
    PROVE  KeyLeq(padU32Hex(m), padU32Hex(n)) <=> m <= n
<1> DEFINE s == padU32Hex(m)
           t == padU32Hex(n)
<1> SUFFICES KeyLeq(s, t) <=> m <= n
  OBVIOUS
<1>1. PICK a, b, c \in 0 .. 1 : m = 4 * a + 2 * b + c /\ s[1] = 48 + a /\ s[2] = 48 + b /\ s[3] = 48 + c
  BY SMTT(60), PaddedChars
<1>2. PICK x, y, z \in 0 .. 1 : n = 4 * x + 2 * y + z /\ t[1] = 48 + x /\ t[2] = 48 + y /\ t[3] = 48 + z
  BY SMTT(60), PaddedChars
<1>3. s \in Seq(Nat) /\ t \in Seq(Nat) /\ Len(s) = 3 /\ Len(t) = 3
  BY PaddedChars
<1> HIDE DEF s, t
<1>4. s = t <=> a = x /\ b = y /\ c = z
  <2>1. ASSUME a = x, b = y, c = z PROVE s = t
    <3>1. \A i \in 1 .. Len(s) : s[i] = t[i]
      BY <1>1, <1>2, <1>3, <2>1
    <3> QED
      BY <1>3, <3>1, SeqEqual
  <2> QED
    BY <1>1, <1>2, <2>1
<1>5. KeyLess(s, t) <=> a < x \/ (a = x /\ b < y) \/ (a = x /\ b = y /\ c < z)
  <2>1. KeyLess(s, t) <=> \E i \in 1 .. 3 : (\A j \in 1 .. i - 1 : s[j] = t[j]) /\ s[i] < t[i]
    BY <1>3 DEF KeyLess
  <2>2. (\E i \in 1 .. 3 : (\A j \in 1 .. i - 1 : s[j] = t[j]) /\ s[i] < t[i])
          <=> s[1] < t[1] \/ (s[1] = t[1] /\ s[2] < t[2]) \/ (s[1] = t[1] /\ s[2] = t[2] /\ s[3] < t[3])
    OBVIOUS
  <2> QED
    BY <1>1, <1>2, <2>1, <2>2
<1> QED
  BY <1>1, <1>2, <1>4, <1>5 DEF KeyLeq

\* An entry of a column of numbers, or one that sorts after every number.
Numeric(e) ==
    \/ \E n \in PaddedNumbers : e.value = padU32Hex(n)
    \/ e.value # <<>> /\ e.value[1] > DigitChar(Base - 1)

\* NativeSecondaryIndex.lookupNumericRange: on the padded digits the scan
\* returns the entries of exactly the numbers from lo to hi.
THEOREM NumericRangeIsExact ==
    ASSUME NEW E, \A e \in E : PrintableEntry(e) /\ Numeric(e),
           NEW lo \in PaddedNumbers, NEW hi \in PaddedNumbers
    PROVE  lookupNumericRange(E, lo, hi) =
              Leading(RangeCap, {e \in E : \E n \in lo .. hi : e.value = padU32Hex(n)})
<1> DEFINE l == padU32Hex(lo)
           h == padU32Hex(hi)
           L == valuePrefix(l)
           H == Append(valuePrefix(h), HI_SENTINEL)
<1>1. l \in Seq(Nat) /\ h \in Seq(Nat) /\ Printable(l) /\ Printable(h) /\ Len(h) = 3 /\ h[1] \in 48 .. 49
  <2>1. l \in Seq(Nat) /\ h \in Seq(Nat) /\ Printable(l) /\ Printable(h) /\ Len(h) = 3
    BY PaddedChars
  <2>2. h[1] \in 48 .. 49
    BY PaddedChars
  <2> QED
    BY <2>1, <2>2
<1>2. L # <<>> /\ H # <<>>
  BY <1>1, PrefixMarked, HighMarked, Zenon
<1>3. ASSUME NEW e \in E
      PROVE  /\ KeyLeq(L, entryKey(e)) <=> KeyLeq(l, e.value)
             /\ KeyLeq(entryKey(e), H) <=> KeyLeq(e.value, h)
  BY <1>1, LowBound, HighBound, Zenon
<1>4. ASSUME NEW e \in E
      PROVE  KeyLeq(l, e.value) /\ KeyLeq(e.value, h) <=> \E n \in lo .. hi : e.value = padU32Hex(n)
  <2>1. \A n \in lo .. hi : n \in PaddedNumbers /\ lo <= n /\ n <= hi
    BY DEF PaddedNumbers, Base, Digits
  <2>2. ASSUME NEW n \in lo .. hi, e.value = padU32Hex(n)
        PROVE  KeyLeq(l, e.value) /\ KeyLeq(e.value, h)
    BY <2>1, <2>2, PaddedOrder, Zenon
  <2>3. ASSUME NEW n \in PaddedNumbers, e.value = padU32Hex(n), KeyLeq(l, e.value), KeyLeq(e.value, h)
        PROVE  \E k \in lo .. hi : e.value = padU32Hex(k)
    <3>1. lo <= n /\ n <= hi
      BY <2>3, PaddedOrder, Zenon
    <3>2. n \in lo .. hi
      BY <3>1 DEF PaddedNumbers, Base, Digits
    <3> QED
      BY <2>3, <3>2, Zenon
  <2>4. ASSUME e.value # <<>>, e.value[1] > DigitChar(Base - 1)
        PROVE  ~KeyLeq(e.value, h)
    <3> DEFINE w == e.value
    <3>1. w \in Seq(Nat) /\ w # <<>> /\ w[1] > 49
      BY <2>4 DEF PrintableEntry, EntryTyped, DigitChar, Base
    <3> HIDE DEF w, h
    <3>2. Len(w) \in Nat /\ Len(w) >= 1 /\ w[1] \in Nat
      BY <3>1
    <3>3. w # h
      BY <1>1, <3>1
    <3>4. ~KeyLess(w, h)
      BY <1>1, <3>1, <3>2 DEF KeyLess
    <3> QED
      BY <3>3, <3>4 DEF KeyLeq, w
  <2> QED
    BY <2>2, <2>3, <2>4 DEF Numeric
<1>5. lookupNumericRange(E, lo, hi) = scanRange(E, L, H, RangeCap)
  BY Zenon DEF lookupNumericRange
<1> HIDE DEF l, h, L, H
<1>6. {e \in E : (L = <<>> \/ KeyLeq(L, entryKey(e))) /\ (H = <<>> \/ KeyLeq(entryKey(e), H))}
        = {e \in E : \E n \in lo .. hi : e.value = padU32Hex(n)}
  BY <1>2, <1>3, <1>4, Zenon
<1> QED
  BY <1>5, <1>6, Zenon DEF scanRange

=============================================================================
