---------------------------- MODULE FramingProofs ----------------------------
(***************************************************************************)
(* What a log replays to.  Within one lifetime, and while nothing rotates, *)
(* fails or checkpoints, every image a crash can leave of the log replays  *)
(* to a prefix of what was pushed, for any entries and any size of sector. *)
(*                                                                         *)
(* The reader and the list of logged deltas are recursive functions.  The  *)
(* first part shows, by induction, that they satisfy their equations.      *)
(***************************************************************************)
EXTENDS WalProofs, WellFoundedInduction

-----------------------------------------------------------------------------
(* Induction over the naturals, on sets.                                   *)

LEMMA LeastNatural ==
    ASSUME NEW S, S \subseteq Nat, S # {}
    PROVE  \E n \in S : \A m \in S : n <= m
<1> DEFINE Less == {ss \in Nat \X Nat : ss[1] < ss[2]}
<1>1. IsWellFoundedOn(Less, Nat)
  BY NatLessThanWellFounded, Zenon DEF OpToRel
<1> HIDE DEF Less
<1>2. PICK x \in S : \A y \in S : <<y, x>> \notin Less
  BY <1>1, WFMin
<1>3. \A y \in S : ~(y < x)
  BY <1>2 DEF Less
<1> QED
  BY <1>3

LEMMA InductionOnSets ==
    ASSUME NEW S, S \subseteq Nat, 0 \in S, \A n \in S : n + 1 \in S
    PROVE  \A n \in Nat : n \in S
<1> SUFFICES ASSUME Nat \ S # {} PROVE FALSE
  OBVIOUS
<1>1. PICK n \in Nat \ S : \A m \in Nat \ S : n <= m
  BY LeastNatural
<1>2. n # 0 /\ n - 1 \in Nat
  BY <1>1
<1>3. n - 1 \in S
  BY <1>1, <1>2
<1> QED
  BY <1>1, <1>2, <1>3

-----------------------------------------------------------------------------
(* The states of the reader.                                               *)

LEMMA ReadStatesExist ==
    ASSUME NEW sectors, Len(sectors) \in Nat
    PROVE  \E g : g = [k \in 0 .. Len(sectors) |->
                          IF k = 0 THEN Unread ELSE ReadSector(g[k - 1], sectors[k])]
<1> DEFINE Reads(g, n) == g = [k \in 0 .. n |-> IF k = 0 THEN Unread ELSE ReadSector(g[k - 1], sectors[k])]
           S == {n \in Nat : \E g : Reads(g, n)}
<1>1. 0 \in S
  <2> DEFINE g == [k \in 0 .. 0 |-> Unread]
  <2>1. Reads(g, 0)
    OBVIOUS
  <2> QED
    BY <2>1
<1>2. ASSUME NEW n \in S PROVE n + 1 \in S
  <2>1. PICK g : Reads(g, n)
    BY <1>2
  <2> DEFINE h == [k \in 0 .. n + 1 |-> IF k = n + 1 THEN ReadSector(g[n], sectors[n + 1]) ELSE g[k]]
  <2>2. ASSUME NEW k \in 0 .. n + 1
        PROVE  h[k] = IF k = 0 THEN Unread ELSE ReadSector(h[k - 1], sectors[k])
    BY <2>1
  <2>3. h = [k \in 0 .. n + 1 |-> h[k]]
    OBVIOUS
  <2> HIDE DEF h
  <2> DEFINE body(k) == IF k = 0 THEN Unread ELSE ReadSector(h[k - 1], sectors[k])
  <2>4. \A k \in 0 .. n + 1 : h[k] = body(k)
    BY <2>2
  <2> HIDE DEF body
  <2>5. h = [k \in 0 .. n + 1 |-> body(k)]
    BY <2>3, <2>4
  <2>6. Reads(h, n + 1)
    BY <2>5 DEF body
  <2> HIDE DEF Reads
  <2> QED
    BY <2>6
<1>3. Len(sectors) \in S
  BY <1>1, <1>2, InductionOnSets
<1> QED
  BY <1>3

LEMMA ReadStatesEquation ==
    ASSUME NEW sectors, Len(sectors) \in Nat
    PROVE  /\ ReadStates(sectors)[0] = Unread
           /\ \A k \in 1 .. Len(sectors) :
                 ReadStates(sectors)[k] = ReadSector(ReadStates(sectors)[k - 1], sectors[k])
<1> DEFINE read == ReadStates(sectors)
<1>1. read = [k \in 0 .. Len(sectors) |-> IF k = 0 THEN Unread ELSE ReadSector(read[k - 1], sectors[k])]
  BY ReadStatesExist DEF ReadStates
<1> HIDE DEF read
<1>2. read[0] = Unread
  BY <1>1
<1>3. ASSUME NEW k \in 1 .. Len(sectors) PROVE read[k] = ReadSector(read[k - 1], sectors[k])
  BY <1>1
<1> QED
  BY <1>2, <1>3 DEF read

\* The state after k sectors depends on those k sectors only.
LEMMA ReadStatesAgree ==
    ASSUME NEW s, NEW t, Len(s) \in Nat, Len(t) \in Nat,
           NEW n \in Nat, n <= Len(s), n <= Len(t), \A k \in 1 .. n : s[k] = t[k]
    PROVE  \A k \in 0 .. n : ReadStates(s)[k] = ReadStates(t)[k]
<1> DEFINE S == {k \in Nat : k <= n => ReadStates(s)[k] = ReadStates(t)[k]}
<1>1. 0 \in S
  BY ReadStatesEquation
<1>2. ASSUME NEW k \in S PROVE k + 1 \in S
  <2> SUFFICES ASSUME k + 1 <= n PROVE ReadStates(s)[k + 1] = ReadStates(t)[k + 1]
    OBVIOUS
  <2>1. ReadStates(s)[k] = ReadStates(t)[k] /\ s[k + 1] = t[k + 1]
    BY <1>2
  <2>2. k + 1 \in 1 .. Len(s) /\ k + 1 \in 1 .. Len(t) /\ (k + 1) - 1 = k
    BY <1>2
  <2> QED
    BY <2>1, <2>2, ReadStatesEquation
<1> HIDE DEF S
<1>3. \A k \in Nat : k \in S
  <2>1. S \subseteq Nat
    BY DEF S
  <2> QED
    BY <1>1, <1>2, <2>1, InductionOnSets
<1> QED
  BY <1>3 DEF S

-----------------------------------------------------------------------------
(* The list of logged deltas.                                              *)

Logged == {d \in Deltas : Loggable(d)}

LEMMA LoggedExist ==
    ASSUME NEW deltas, NEW first \in Nat, Len(deltas) \in Nat
    PROVE  \E g : g = [k \in 0 .. Len(deltas) |->
               IF k <= first THEN <<>>
               ELSE IF Loggable(deltas[k]) THEN Append(g[k - 1], deltas[k]) ELSE g[k - 1]]
<1> DEFINE Lists(g, n) == g = [k \in 0 .. n |->
               IF k <= first THEN <<>>
               ELSE IF Loggable(deltas[k]) THEN Append(g[k - 1], deltas[k]) ELSE g[k - 1]]
           S == {n \in Nat : \E g : Lists(g, n)}
<1>1. 0 \in S
  <2> DEFINE g == [k \in 0 .. 0 |-> <<>>]
  <2>1. Lists(g, 0)
    OBVIOUS
  <2> QED
    BY <2>1
<1>2. ASSUME NEW n \in S PROVE n + 1 \in S
  <2>1. PICK g : Lists(g, n)
    BY <1>2
  <2> DEFINE next == IF n + 1 <= first THEN <<>>
                     ELSE IF Loggable(deltas[n + 1]) THEN Append(g[n], deltas[n + 1]) ELSE g[n]
             h == [k \in 0 .. n + 1 |-> IF k = n + 1 THEN next ELSE g[k]]
             body(k) == IF k <= first THEN <<>>
                        ELSE IF Loggable(deltas[k]) THEN Append(h[k - 1], deltas[k]) ELSE h[k - 1]
  <2>2. ASSUME NEW k \in 0 .. n + 1 PROVE h[k] = body(k)
    <3>1. CASE k = n + 1
      <4>1. h[n + 1] = next /\ h[n] = g[n] /\ (n + 1) - 1 = n
        BY <1>2
      <4> QED
        BY <3>1, <4>1
    <3>2. CASE k # n + 1
      <4>1. k \in 0 .. n /\ (k = 0 \/ k - 1 \in 0 .. n)
        BY <3>2, <1>2
      <4>2. h[k] = g[k] /\ (k # 0 => h[k - 1] = g[k - 1])
        BY <4>1, <1>2
      <4>3. k = 0 => k <= first
        BY <4>1
      <4> HIDE DEF h
      <4> QED
        BY <2>1, <4>1, <4>2, <4>3
    <3> QED
      BY <3>1, <3>2
  <2>3. h = [k \in 0 .. n + 1 |-> h[k]]
    OBVIOUS
  <2> HIDE DEF h, body
  <2>4. h = [k \in 0 .. n + 1 |-> body(k)]
    BY <2>2, <2>3
  <2>5. Lists(h, n + 1)
    BY <2>4 DEF body
  <2> HIDE DEF Lists
  <2> QED
    BY <2>5
<1>3. Len(deltas) \in S
  BY <1>1, <1>2, InductionOnSets
<1> QED
  BY <1>3

LEMMA LoggedEquation ==
    ASSUME NEW deltas, NEW first \in Nat, Len(deltas) \in Nat
    PROVE  /\ \A n \in 0 .. Len(deltas) : n <= first => LoggedFrom(deltas, first)[n] = <<>>
           /\ \A n \in 1 .. Len(deltas) : n > first =>
                 LoggedFrom(deltas, first)[n] =
                     IF Loggable(deltas[n]) THEN Append(LoggedFrom(deltas, first)[n - 1], deltas[n])
                     ELSE LoggedFrom(deltas, first)[n - 1]
<1> DEFINE logged == LoggedFrom(deltas, first)
<1>1. logged = [k \in 0 .. Len(deltas) |->
                   IF k <= first THEN <<>>
                   ELSE IF Loggable(deltas[k]) THEN Append(logged[k - 1], deltas[k]) ELSE logged[k - 1]]
  BY LoggedExist DEF LoggedFrom
<1> HIDE DEF logged
<1>2. ASSUME NEW n \in 0 .. Len(deltas), n <= first PROVE logged[n] = <<>>
  BY <1>1, <1>2
<1>3. ASSUME NEW n \in 1 .. Len(deltas), n > first
      PROVE  logged[n] = IF Loggable(deltas[n]) THEN Append(logged[n - 1], deltas[n]) ELSE logged[n - 1]
  <2>1. n \in 0 .. Len(deltas) /\ ~(n <= first)
    BY <1>3
  <2> QED
    BY <1>1, <2>1, Zenon
<1> QED
  BY <1>2, <1>3 DEF logged

\* Deltas pushed later change nothing.
LEMMA LoggedAgree ==
    ASSUME NEW s, NEW t, Len(s) \in Nat, Len(t) \in Nat, NEW first \in Nat,
           NEW n \in Nat, n <= Len(s), n <= Len(t), \A k \in 1 .. n : s[k] = t[k]
    PROVE  \A k \in 0 .. n : LoggedFrom(s, first)[k] = LoggedFrom(t, first)[k]
<1> DEFINE S == {k \in Nat : k <= n => LoggedFrom(s, first)[k] = LoggedFrom(t, first)[k]}
<1>1. 0 \in S
  BY LoggedEquation
<1>2. ASSUME NEW k \in S PROVE k + 1 \in S
  <2> SUFFICES ASSUME k + 1 <= n PROVE LoggedFrom(s, first)[k + 1] = LoggedFrom(t, first)[k + 1]
    OBVIOUS
  <2>1. LoggedFrom(s, first)[k] = LoggedFrom(t, first)[k] /\ s[k + 1] = t[k + 1]
    BY <1>2
  <2>2. k + 1 \in 1 .. Len(s) /\ k + 1 \in 1 .. Len(t) /\ (k + 1) - 1 = k
    BY <1>2
  <2> QED
    BY <2>1, <2>2, LoggedEquation
<1> HIDE DEF S
<1>3. \A k \in Nat : k \in S
  <2>1. S \subseteq Nat
    BY DEF S
  <2> QED
    BY <1>1, <1>2, <2>1, InductionOnSets
<1> QED
  BY <1>3 DEF S

LEMMA LoggedType ==
    ASSUME NEW s \in Seq(Deltas), NEW first \in Nat
    PROVE  \A k \in 0 .. Len(s) : LoggedFrom(s, first)[k] \in Seq(Logged)
<1> DEFINE S == {k \in Nat : k <= Len(s) => LoggedFrom(s, first)[k] \in Seq(Logged)}
<1>0. Len(s) \in Nat /\ \A k \in 1 .. Len(s) : s[k] \in Deltas
  OBVIOUS
<1>1. 0 \in S
  <2>1. LoggedFrom(s, first)[0] = <<>>
    BY <1>0, LoggedEquation
  <2>2. LoggedFrom(s, first)[0] \in Seq(Logged)
    BY <2>1
  <2> QED
    BY <2>2, Zenon
<1>2. ASSUME NEW k \in S PROVE k + 1 \in S
  <2> SUFFICES ASSUME k + 1 <= Len(s) PROVE LoggedFrom(s, first)[k + 1] \in Seq(Logged)
    OBVIOUS
  <2>1. LoggedFrom(s, first)[k] \in Seq(Logged)
    BY <1>2
  <2>2. k + 1 \in 1 .. Len(s) /\ (k + 1) - 1 = k /\ k + 1 \in 0 .. Len(s)
    BY <1>2, <1>0
  <2>3. CASE k + 1 <= first
    <3>1. LoggedFrom(s, first)[k + 1] = <<>>
      BY <2>2, <2>3, <1>0, LoggedEquation
    <3> QED
      BY <3>1
  <2>4. CASE k + 1 > first /\ Loggable(s[k + 1])
    <3>1. s[k + 1] \in Logged
      BY <2>2, <2>4, <1>0 DEF Logged
    <3>2. LoggedFrom(s, first)[k + 1] = Append(LoggedFrom(s, first)[k], s[k + 1])
      BY ZenonT(60), <2>2, <2>4, <1>0, LoggedEquation
    <3> QED
      BY <2>1, <3>1, <3>2
  <2>5. CASE k + 1 > first /\ ~Loggable(s[k + 1])
    BY <2>1, <2>2, <2>5, <1>0, LoggedEquation
  <2> QED
    BY <2>3, <2>4, <2>5
<1> HIDE DEF S
<1>3. \A k \in Nat : k \in S
  <2>1. S \subseteq Nat
    BY DEF S
  <2> QED
    BY <1>1, <1>2, <2>1, InductionOnSets
<1> QED
  BY <1>0, <1>3 DEF S

-----------------------------------------------------------------------------
(* The scan of one sector.                                                 *)

Entry == [kind : Nat, offset : Nat, data : Seq(Nat)]

\* What the scan calls an entry is one, and it ends inside the stream.
LEMMA FoundEntry ==
    ASSUME NEW w \in Seq(Nat), NEW c \in 1 .. Len(w) + 1, FoundAt(w, c) = "entry"
    PROVE  /\ HeaderAt(w, c).length \in Nat /\ HeaderAt(w, c).length > 0
           /\ SizeAt(w, c) \in Nat
           /\ c + SizeAt(w, c) \in c + 1 .. Len(w) + 1
           /\ EntryAt(w, c) \in Entry
<1> DEFINE length == HeaderAt(w, c).length
<1>0. Len(w) \in Nat /\ \A i \in 1 .. Len(w) : w[i] \in Nat
  OBVIOUS
<1>1. /\ ~(Len(w) - c + 1 < HeaderSize)
      /\ length # 0
      /\ ~(Len(w) - c + 1 < HeaderSize + length)
  BY DEF FoundAt
<1>2. c + 2 <= Len(w)
  BY <1>1, <1>0 DEF HeaderSize
<1>3. w[c] \in Nat /\ w[c + 1] \in Nat /\ w[c + 2] \in Nat
  BY <1>2, <1>0
<1>4. length = w[c + 1] /\ HeaderAt(w, c).kind = w[c + 2] /\ HeaderAt(w, c).offset = w[c]
  BY DEF HeaderAt
<1>5. length \in Nat /\ length > 0
  BY SMTT(60), <1>1, <1>3, <1>4
<1>6. SizeAt(w, c) = 3 + length
  BY DEF SizeAt, HeaderSize
<1> HIDE DEF length
<1>7. SizeAt(w, c) \in Nat /\ c + SizeAt(w, c) \in c + 1 .. Len(w) + 1
  BY <1>0, <1>1, <1>5, <1>6 DEF HeaderSize
<1>8. SubSeq(w, c + HeaderSize, c + SizeAt(w, c) - 1) \in Seq(Nat)
  <2>1. c + HeaderSize \in Int /\ c + SizeAt(w, c) - 1 \in Int
    BY <1>7 DEF HeaderSize
  <2>2. \A i \in c + HeaderSize .. c + SizeAt(w, c) - 1 : w[i] \in Nat
    BY SMTT(60), <1>0, <1>7 DEF HeaderSize
  <2> QED
    BY <2>1, <2>2, SubSeqProperties
<1>9. EntryAt(w, c) \in Entry
  BY <1>3, <1>4, <1>8 DEF EntryAt, Entry
<1> QED
  BY <1>5, <1>7, <1>9 DEF length

LEMMA ScanExist ==
    ASSUME NEW w \in Seq(Nat)
    PROVE  \E g : g = [c \in 1 .. Len(w) + 1 |->
               IF FoundAt(w, c) = "entry"
               THEN [entries |-> <<EntryAt(w, c)>> \o g[c + SizeAt(w, c)].entries,
                     carry |-> g[c + SizeAt(w, c)].carry]
               ELSE Stop(w, c)]
<1> DEFINE N == Len(w) + 1
           step(g, c) == IF FoundAt(w, c) = "entry"
                         THEN [entries |-> <<EntryAt(w, c)>> \o g[c + SizeAt(w, c)].entries,
                               carry |-> g[c + SizeAt(w, c)].carry]
                         ELSE Stop(w, c)
           Scans(g, n) == g = [c \in N - n .. N |-> step(g, c)]
           S == {n \in Nat : n <= Len(w) => \E g : Scans(g, n)}
<1>0. Len(w) \in Nat /\ N \in Nat /\ N = Len(w) + 1
  OBVIOUS
<1>1. 0 \in S
  <2> DEFINE g == [c \in N - 0 .. N |-> Stop(w, N)]
  <2>1. ASSUME NEW c \in N - 0 .. N PROVE g[c] = step(g, c)
    <3>1. c = N /\ c \in 1 .. Len(w) + 1
      BY <1>0
    <3>2. FoundAt(w, c) # "entry"
      <4>1. Len(w) - c + 1 = 0
        BY <3>1, <1>0
      <4> QED
        BY <4>1 DEF FoundAt
    <3> QED
      BY <3>1, <3>2
  <2>2. g = [c \in N - 0 .. N |-> g[c]]
    OBVIOUS
  <2> HIDE DEF g, step
  <2>3. g = [c \in N - 0 .. N |-> step(g, c)]
    BY <2>1, <2>2
  <2>4. Scans(g, 0)
    BY <2>3
  <2> HIDE DEF Scans
  <2> QED
    BY <2>4
<1>2. ASSUME NEW n \in S PROVE n + 1 \in S
  <2> HIDE DEF Scans
  <2> SUFFICES ASSUME n + 1 <= Len(w) PROVE \E h : Scans(h, n + 1)
    OBVIOUS
  <2>0. n \in Nat /\ N - n \in 2 .. N /\ N - (n + 1) \in 1 .. N /\ N - (n + 1) + 1 = N - n
    BY SMTT(60), <1>2, <1>0
  <2>1. PICK g : Scans(g, n)
    BY <1>2, <2>0
  <2> USE DEF Scans
  <2> DEFINE h == [c \in N - (n + 1) .. N |-> IF c = N - (n + 1) THEN step(g, N - (n + 1)) ELSE g[c]]
  <2>2. ASSUME NEW c \in N - (n + 1) .. N PROVE h[c] = step(h, c)
    <3>1. c \in 1 .. N
      BY <2>0, <1>0
    <3>2. h[c] = step(g, c)
      <4>1. CASE c = N - (n + 1)
        BY <4>1
      <4>2. CASE c # N - (n + 1)
        <5>1. c \in N - n .. N
          BY <4>2, <2>0, <1>0
        <5>2. h[c] = g[c]
          BY <4>2
        <5>3. g[c] = step(g, c)
          BY <5>1, <2>1, Zenon
        <5> QED
          BY <5>2, <5>3
      <4> QED
        BY <4>1, <4>2
    <3>3. CASE FoundAt(w, c) = "entry"
      <4>1. c + SizeAt(w, c) \in c + 1 .. N
        BY <3>1, <3>3, FoundEntry, <1>0
      <4>2. c + SizeAt(w, c) \in N - (n + 1) .. N /\ c + SizeAt(w, c) # N - (n + 1)
        BY SMTT(60), <4>1, <2>0, <1>0
      <4>3. h[c + SizeAt(w, c)] = g[c + SizeAt(w, c)]
        BY <4>2
      <4> HIDE DEF h
      <4> QED
        BY <3>2, <3>3, <4>3
    <3>4. CASE FoundAt(w, c) # "entry"
      <4> HIDE DEF h
      <4> QED
        BY <3>2, <3>4
    <3> QED
      BY <3>3, <3>4
  <2>3. h = [c \in N - (n + 1) .. N |-> h[c]]
    OBVIOUS
  <2> HIDE DEF h, step
  <2>4. h = [c \in N - (n + 1) .. N |-> step(h, c)]
    BY <2>2, <2>3
  <2>5. Scans(h, n + 1)
    BY <2>4
  <2> HIDE DEF Scans
  <2> QED
    BY <2>5
<1>3. Len(w) \in S
  <2> HIDE DEF Scans
  <2>1. S \subseteq Nat
    OBVIOUS
  <2> HIDE DEF S
  <2> QED
    BY <1>0, <1>1, <1>2, <2>1, InductionOnSets
<1>4. PICK g : Scans(g, Len(w))
  BY <1>3, <1>0
<1>5. N - Len(w) = 1
  BY <1>0
<1>6. g = [c \in 1 .. N |-> step(g, c)]
  BY <1>4, <1>5
<1> QED
  BY <1>6, Zenon

LEMMA ScanEquation ==
    ASSUME NEW w \in Seq(Nat)
    PROVE  \A c \in 1 .. Len(w) + 1 :
              /\ FoundAt(w, c) = "entry" =>
                    ScanFrom(w)[c] =
                        [entries |-> <<EntryAt(w, c)>> \o ScanFrom(w)[c + SizeAt(w, c)].entries,
                         carry |-> ScanFrom(w)[c + SizeAt(w, c)].carry]
              /\ FoundAt(w, c) # "entry" => ScanFrom(w)[c] = Stop(w, c)
<1> DEFINE scan == ScanFrom(w)
<1>1. scan = [c \in 1 .. Len(w) + 1 |->
               IF FoundAt(w, c) = "entry"
               THEN [entries |-> <<EntryAt(w, c)>> \o scan[c + SizeAt(w, c)].entries,
                     carry |-> scan[c + SizeAt(w, c)].carry]
               ELSE Stop(w, c)]
  BY ScanExist DEF ScanFrom
<1> HIDE DEF scan
<1>2. \A c \in 1 .. Len(w) + 1 : scan[c] =
               IF FoundAt(w, c) = "entry"
               THEN [entries |-> <<EntryAt(w, c)>> \o scan[c + SizeAt(w, c)].entries,
                     carry |-> scan[c + SizeAt(w, c)].carry]
               ELSE Stop(w, c)
  BY <1>1, Zenon
<1> QED
  BY <1>2 DEF scan

\* What is carried from where the scan stops.
LEMMA StopType ==
    ASSUME NEW w \in Seq(Nat), NEW c \in 1 .. Len(w) + 1
    PROVE  Stop(w, c).entries = <<>> /\ Stop(w, c).carry \in Seq(Nat)
<1>1. SubSeq(w, c, Len(w)) \in Seq(Nat)
  <2>1. \A i \in c .. Len(w) : w[i] \in Nat
    OBVIOUS
  <2>2. c \in Int /\ Len(w) \in Int
    OBVIOUS
  <2> QED
    BY <2>1, <2>2, SubSeqProperties
<1>2. <<>> \in Seq(Nat)
  OBVIOUS
<1>3. CarryTail(FoundAt(w, c), SubSeq(w, c, Len(w))) \in Seq(Nat)
  BY <1>1, <1>2, Zenon DEF CarryTail
<1>4. Stop(w, c).carry = IF FoundAt(w, c) \in {"end", "padding", "out_of_arena"} THEN <<>>
                         ELSE CarryTail(FoundAt(w, c), SubSeq(w, c, Len(w)))
  BY DEF Stop
<1>5. Stop(w, c).carry \in Seq(Nat)
  BY <1>2, <1>3, <1>4, Zenon
<1>6. Stop(w, c).entries = <<>>
  BY DEF Stop
<1> QED
  BY <1>5, <1>6

\* The scan yields entries and carries bytes.
LEMMA ScanType ==
    ASSUME NEW w \in Seq(Nat)
    PROVE  \A c \in 1 .. Len(w) + 1 :
              ScanFrom(w)[c].entries \in Seq(Entry) /\ ScanFrom(w)[c].carry \in Seq(Nat)
<1> DEFINE Typed(c) == ScanFrom(w)[c].entries \in Seq(Entry) /\ ScanFrom(w)[c].carry \in Seq(Nat)
           S == {n \in Nat : \A c \in 1 .. Len(w) + 1 : Len(w) + 1 - c < n => Typed(c)}
<1>0. Len(w) \in Nat
  OBVIOUS
<1>1. 0 \in S
  <2>1. \A c \in 1 .. Len(w) + 1 : ~(Len(w) + 1 - c < 0)
    BY <1>0
  <2> HIDE DEF Typed
  <2> QED
    BY <2>1
<1>2. ASSUME NEW n \in S PROVE n + 1 \in S
  <2> SUFFICES ASSUME NEW c \in 1 .. Len(w) + 1, Len(w) + 1 - c < n + 1 PROVE Typed(c)
    <3> HIDE DEF Typed
    <3> QED
      OBVIOUS
  <2>0. n \in Nat /\ \A k \in 1 .. Len(w) + 1 : Len(w) + 1 - k < n => Typed(k)
    <3> HIDE DEF Typed
    <3> QED
      BY <1>2
  <2>1. CASE FoundAt(w, c) = "entry"
    <3> DEFINE next == c + SizeAt(w, c)
    <3>1. EntryAt(w, c) \in Entry /\ next \in c + 1 .. Len(w) + 1
      BY <2>1, FoundEntry
    <3>2. next \in 1 .. Len(w) + 1 /\ Len(w) + 1 - next < n
      BY SMTT(60), <3>1, <2>0, <1>0
    <3>3. Typed(next)
      <4> HIDE DEF Typed, next
      <4> QED
        BY <3>2, <2>0
    <3>4. ScanFrom(w)[c] = [entries |-> <<EntryAt(w, c)>> \o ScanFrom(w)[next].entries,
                            carry |-> ScanFrom(w)[next].carry]
      BY <2>1, ScanEquation
    <3> HIDE DEF next
    <3>5. <<EntryAt(w, c)>> \o ScanFrom(w)[next].entries \in Seq(Entry)
      <4>1. <<EntryAt(w, c)>> \in Seq(Entry)
        BY <3>1
      <4> QED
        BY <4>1, <3>3, ConcatProperties
    <3> QED
      BY <3>3, <3>4, <3>5
  <2>2. CASE FoundAt(w, c) # "entry"
    <3>1. ScanFrom(w)[c] = Stop(w, c)
      BY <2>2, ScanEquation
    <3>2. <<>> \in Seq(Entry)
      OBVIOUS
    <3> QED
      BY <3>1, <3>2, StopType
  <2> QED
    BY <2>1, <2>2
<1>3. \A n \in Nat : n \in S
  <2> HIDE DEF Typed
  <2>1. S \subseteq Nat
    OBVIOUS
  <2> HIDE DEF S
  <2> QED
    BY <1>1, <1>2, <2>1, InductionOnSets
<1> SUFFICES ASSUME NEW c \in 1 .. Len(w) + 1 PROVE Typed(c)
  OBVIOUS
<1>4. Len(w) + 2 \in S /\ Len(w) + 1 - c < Len(w) + 2
  <2>1. Len(w) + 2 \in Nat /\ Len(w) + 1 - c < Len(w) + 2
    BY <1>0
  <2> HIDE DEF S
  <2> QED
    BY <1>3, <2>1
<1> HIDE DEF Typed
<1> QED
  BY <1>4

\* What lies before a cursor does not matter to the scan.
LEMMA ShiftFound ==
    ASSUME NEW x \in Seq(Nat), NEW t \in Seq(Nat), NEW c \in 1 .. Len(t) + 1
    PROVE  /\ x \o t \in Seq(Nat)
           /\ Len(x \o t) = Len(x) + Len(t)
           /\ Len(x) + c \in 1 .. Len(x \o t) + 1
           /\ FoundAt(x \o t, Len(x) + c) = FoundAt(t, c)
           /\ FoundAt(t, c) = "entry" => /\ SizeAt(x \o t, Len(x) + c) = SizeAt(t, c)
                                         /\ EntryAt(x \o t, Len(x) + c) = EntryAt(t, c)
           /\ Stop(x \o t, Len(x) + c) = Stop(t, c)
<1> DEFINE w == x \o t
           d == Len(x) + c
<1>1. /\ w \in Seq(Nat)
      /\ Len(w) = Len(x) + Len(t)
      /\ \A i \in 1 .. Len(t) : w[Len(x) + i] = t[i]
  <2>1. /\ w \in Seq(Nat)
        /\ Len(w) = Len(x) + Len(t)
        /\ \A i \in 1 .. Len(x) + Len(t) : w[i] = IF i <= Len(x) THEN x[i] ELSE t[i - Len(x)]
    BY ConcatProperties
  <2> HIDE DEF w
  <2>2. ASSUME NEW i \in 1 .. Len(t) PROVE w[Len(x) + i] = t[i]
    <3>1. Len(x) + i \in 1 .. Len(x) + Len(t) /\ ~(Len(x) + i <= Len(x)) /\ (Len(x) + i) - Len(x) = i
      OBVIOUS
    <3> QED
      BY <2>1, <3>1
  <2> QED
    BY <2>1, <2>2
<1> HIDE DEF w
<1>2. d \in 1 .. Len(w) + 1 /\ Len(w) - d + 1 = Len(t) - c + 1 /\ Len(x) \in Nat /\ Len(t) \in Nat
  BY <1>1
<1>3. ASSUME ~(Len(t) - c + 1 < HeaderSize) PROVE HeaderAt(w, d) = HeaderAt(t, c)
  <2>1. c \in 1 .. Len(t) /\ c + 1 \in 1 .. Len(t) /\ c + 2 \in 1 .. Len(t)
    BY SMTT(60), <1>2, <1>3 DEF HeaderSize
  <2>2. w[Len(x) + c] = t[c] /\ w[Len(x) + (c + 1)] = t[c + 1] /\ w[Len(x) + (c + 2)] = t[c + 2]
    BY <2>1, <1>1
  <2>3. Len(x) + (c + 1) = d + 1 /\ Len(x) + (c + 2) = d + 2
    BY <1>2
  <2> HIDE DEF d
  <2> QED
    BY <2>2, <2>3 DEF HeaderAt, d
<1>4. FoundAt(w, d) = FoundAt(t, c)
  <2>1. CASE Len(t) - c + 1 = 0
    BY <2>1, <1>2 DEF FoundAt
  <2>2. CASE Len(t) - c + 1 # 0 /\ Len(t) - c + 1 < HeaderSize
    <3> HIDE DEF d
    <3> QED
      BY <2>2, <1>2, Zenon DEF FoundAt
  <2>3. CASE ~(Len(t) - c + 1 < HeaderSize)
    <3> HIDE DEF d
    <3> QED
      BY <2>3, <1>2, <1>3, Zenon DEF FoundAt
  <2> QED
    BY <2>1, <2>2, <2>3
<1>5. ASSUME FoundAt(t, c) = "entry" PROVE SizeAt(w, d) = SizeAt(t, c) /\ EntryAt(w, d) = EntryAt(t, c)
  <2>1. ~(Len(t) - c + 1 < HeaderSize)
    BY <1>5 DEF FoundAt
  <2>2. HeaderAt(w, d) = HeaderAt(t, c) /\ SizeAt(w, d) = SizeAt(t, c)
    BY <2>1, <1>3 DEF SizeAt
  <2>3. /\ SizeAt(t, c) \in Nat /\ SizeAt(t, c) > HeaderSize
        /\ c + SizeAt(t, c) \in c + 1 .. Len(t) + 1
    <3>1. HeaderAt(t, c).length \in Nat /\ HeaderAt(t, c).length > 0
          /\ c + SizeAt(t, c) \in c + 1 .. Len(t) + 1 /\ SizeAt(t, c) \in Nat
      BY <1>5, FoundEntry
    <3> QED
      BY <3>1 DEF SizeAt, HeaderSize
  <2> DEFINE lo == c + HeaderSize
             hi == c + SizeAt(t, c) - 1
  <2>4. lo \in 1 .. Len(t) /\ hi \in 1 .. Len(t)
    <3>1. HeaderSize \in Nat /\ c \in Nat /\ c >= 1 /\ Len(t) \in Nat
      BY <1>2 DEF HeaderSize
    <3>2. PICK z, h : z = SizeAt(t, c) /\ h = HeaderSize
      OBVIOUS
    <3>3. z \in Nat /\ h \in Nat /\ z > h /\ c + z <= Len(t) + 1
      BY <2>3, <3>1, <3>2
    <3>4. c + h \in 1 .. Len(t) /\ c + z - 1 \in 1 .. Len(t)
      BY <3>1, <3>3
    <3> QED
      BY <3>2, <3>4
  <2>5. SubSeq(w, Len(x) + lo, Len(x) + hi) = SubSeq(t, lo, hi)
    <3> DEFINE a == Len(x) + lo
               b == Len(x) + hi
    <3> HIDE DEF lo, hi
    <3>1. /\ a \in Len(x) + 1 .. Len(x) + Len(t) /\ b \in Len(x) + 1 .. Len(x) + Len(t)
          /\ a - Len(x) = lo /\ b - Len(x) = hi
      BY <2>4, <1>2
    <3> HIDE DEF a, b
    <3>2. SubSeq(x \o t, a, b) = SubSeq(t, a - Len(x), b - Len(x))
      BY ZenonT(60), <3>1, SubSeqOfConcat2
    <3> QED
      BY <3>1, <3>2 DEF w, a, b
  <2>6. Len(x) + lo = d + HeaderSize /\ Len(x) + hi = d + SizeAt(w, d) - 1
    BY <2>2, <2>3, <1>2 DEF HeaderSize
  <2>7. SubSeq(w, d + HeaderSize, d + SizeAt(w, d) - 1) = SubSeq(t, c + HeaderSize, c + SizeAt(t, c) - 1)
    <3> HIDE DEF d
    <3> QED
      BY <2>5, <2>6
  <2> HIDE DEF d
  <2> QED
    BY <2>2, <2>7, Zenon DEF EntryAt
<1>6. SubSeq(w, d, Len(w)) = SubSeq(t, c, Len(t))
  <2>1. CASE c = Len(t) + 1
    <3>1. Len(w) < d /\ Len(t) < c /\ d \in Int /\ Len(w) \in Int /\ c \in Int /\ Len(t) \in Int
      BY <1>1, <1>2, <2>1
    <3> QED
      BY <3>1, SubSeqEmpty
  <2>2. CASE c # Len(t) + 1
    <3>1. /\ d \in Len(x) + 1 .. Len(x) + Len(t) /\ Len(x) + Len(t) \in Len(x) + 1 .. Len(x) + Len(t)
          /\ d - Len(x) = c /\ Len(x) + Len(t) - Len(x) = Len(t)
      BY <1>2, <2>2
    <3>2. SubSeq(w, d, Len(x) + Len(t)) = SubSeq(t, c, Len(t))
      <4> HIDE DEF d
      <4> QED
        BY SMTT(60), <3>1, SubSeqOfConcat2 DEF w
    <3> QED
      BY <3>2, <1>1
  <2> QED
    BY <2>1, <2>2
<1>7. Stop(w, d) = Stop(t, c)
  <2> HIDE DEF d
  <2> QED
    BY <1>4, <1>6 DEF Stop
<1> QED
  BY <1>1, <1>2, <1>4, <1>5, <1>7 DEF w

LEMMA ShiftScan ==
    ASSUME NEW x \in Seq(Nat), NEW t \in Seq(Nat)
    PROVE  \A c \in 1 .. Len(t) + 1 : ScanFrom(x \o t)[Len(x) + c] = ScanFrom(t)[c]
<1> DEFINE Same(c) == ScanFrom(x \o t)[Len(x) + c] = ScanFrom(t)[c]
           S == {n \in Nat : \A c \in 1 .. Len(t) + 1 : Len(t) + 1 - c < n => Same(c)}
<1>0. Len(t) \in Nat /\ Len(x) \in Nat
  OBVIOUS
<1>1. 0 \in S
  <2>1. \A c \in 1 .. Len(t) + 1 : ~(Len(t) + 1 - c < 0)
    BY <1>0
  <2> HIDE DEF Same
  <2> QED
    BY <2>1
<1>2. ASSUME NEW n \in S PROVE n + 1 \in S
  <2> SUFFICES ASSUME NEW c \in 1 .. Len(t) + 1, Len(t) + 1 - c < n + 1 PROVE Same(c)
    <3> HIDE DEF Same
    <3> QED
      OBVIOUS
  <2>0. n \in Nat /\ \A k \in 1 .. Len(t) + 1 : Len(t) + 1 - k < n => Same(k)
    <3> HIDE DEF Same
    <3> QED
      BY <1>2
  <2> DEFINE w == x \o t
             d == Len(x) + c
  <2>1. w \in Seq(Nat) /\ d \in 1 .. Len(w) + 1 /\ FoundAt(w, d) = FoundAt(t, c)
    BY ShiftFound
  <2>2. CASE FoundAt(t, c) = "entry"
    <3> DEFINE next == c + SizeAt(t, c)
    <3>1. next \in c + 1 .. Len(t) + 1 /\ SizeAt(t, c) \in Nat
      BY <2>2, FoundEntry
    <3>2. next \in 1 .. Len(t) + 1 /\ Len(t) + 1 - next < n
      BY SMTT(60), <3>1, <2>0, <1>0
    <3>3. Same(next)
      <4> HIDE DEF Same, next
      <4> QED
        BY <3>2, <2>0
    <3>4. SizeAt(w, d) = SizeAt(t, c) /\ EntryAt(w, d) = EntryAt(t, c)
      BY <2>2, ShiftFound
    <3>5. d + SizeAt(w, d) = Len(x) + next
      BY <3>1, <3>4, <1>0
    <3>6. ScanFrom(w)[d] = [entries |-> <<EntryAt(w, d)>> \o ScanFrom(w)[d + SizeAt(w, d)].entries,
                            carry |-> ScanFrom(w)[d + SizeAt(w, d)].carry]
      <4> HIDE DEF w, d
      <4> QED
        BY ZenonT(60), <2>1, <2>2, ScanEquation
    <3>7. ScanFrom(t)[c] = [entries |-> <<EntryAt(t, c)>> \o ScanFrom(t)[next].entries,
                            carry |-> ScanFrom(t)[next].carry]
      BY <2>2, ScanEquation
    <3>8. ScanFrom(w)[Len(x) + next] = ScanFrom(t)[next]
      BY <3>3
    <3> HIDE DEF w, d, next
    <3>9. ScanFrom(w)[d] = ScanFrom(t)[c]
      BY <3>4, <3>5, <3>6, <3>7, <3>8
    <3> QED
      BY <3>9 DEF w, d
  <2>3. CASE FoundAt(t, c) # "entry"
    <3>1. Stop(w, d) = Stop(t, c)
      BY ShiftFound
    <3>2. ScanFrom(t)[c] = Stop(t, c)
      BY <2>3, ScanEquation
    <3>3. ScanFrom(w)[d] = Stop(w, d)
      <4> HIDE DEF w, d
      <4> QED
        BY <2>1, <2>3, ScanEquation
    <3> QED
      BY <3>1, <3>2, <3>3
  <2> QED
    BY <2>2, <2>3
<1>3. \A n \in Nat : n \in S
  <2> HIDE DEF Same
  <2>1. S \subseteq Nat
    OBVIOUS
  <2> HIDE DEF S
  <2> QED
    BY <1>1, <1>2, <2>1, InductionOnSets
<1> SUFFICES ASSUME NEW c \in 1 .. Len(t) + 1 PROVE Same(c)
  OBVIOUS
<1>4. Len(t) + 2 \in S /\ Len(t) + 1 - c < Len(t) + 2
  <2>1. Len(t) + 2 \in Nat /\ Len(t) + 1 - c < Len(t) + 2
    BY <1>0
  <2> HIDE DEF S
  <2> QED
    BY <1>3, <2>1
<1> HIDE DEF Same
<1> QED
  BY <1>4

-----------------------------------------------------------------------------
(* What the scan does with what processDelta buffers.                      *)

\* The bytes of a logged delta.
LEMMA EncodedEntry ==
    ASSUME NEW e \in Logged
    PROVE  /\ e \in [kind : Nat, offset : Nat, data : Seq(Nat)]
           /\ Len(e.data) \in 1 .. MaxEntryLen
           /\ e.kind \in {ArenaWrite, IndexOp}
           /\ e.kind = ArenaWrite => e.offset + Len(e.data) <= ArenaLen
           /\ Encode(e) \in Seq(Nat)
           /\ Len(Encode(e)) = HeaderSize + Len(e.data)
           /\ Encode(e)[1] = e.offset
           /\ Encode(e)[2] = Len(e.data)
           /\ Encode(e)[3] = e.kind
           /\ \A j \in 1 .. Len(e.data) : Encode(e)[HeaderSize + j] = e.data[j]
<1>1. e \in Deltas /\ e # Checkpoint /\ Loggable(e)
  BY DEF Logged, Loggable
<1>2. e \in [kind : Nat, offset : Nat, data : Seq(Nat)] /\ e.kind \in {ArenaWrite, IndexOp} /\ e.data # <<>>
  BY <1>1, DeltasAssumption
<1>3. e.data \in Seq(Nat) /\ Len(e.data) \in Nat /\ Len(e.data) # 0
  BY <1>2
<1>4. Len(e.data) \in 1 .. MaxEntryLen /\ (e.kind = ArenaWrite => e.offset + Len(e.data) <= ArenaLen)
  <2>1. Len(e.data) <= MaxEntryLen /\ (e.kind = ArenaWrite => e.offset + Len(e.data) <= ArenaLen)
    BY <1>1 DEF Loggable
  <2> QED
    BY <2>1, <1>3, FramingAssumption
<1> DEFINE head3 == <<e.offset, Len(e.data), e.kind>>
<1>5. head3 \in Seq(Nat) /\ Len(head3) = 3 /\ head3[1] = e.offset /\ head3[2] = Len(e.data) /\ head3[3] = e.kind
  BY <1>2, <1>3
<1>6. Encode(e) = head3 \o e.data
  BY DEF Encode
<1> HIDE DEF head3
<1>7. /\ Encode(e) \in Seq(Nat)
      /\ Len(Encode(e)) = 3 + Len(e.data)
      /\ \A i \in 1 .. 3 + Len(e.data) : Encode(e)[i] = IF i <= 3 THEN head3[i] ELSE e.data[i - 3]
  <2>1. /\ head3 \o e.data \in Seq(Nat)
        /\ Len(head3 \o e.data) = Len(head3) + Len(e.data)
        /\ \A i \in 1 .. Len(head3) + Len(e.data) :
              (head3 \o e.data)[i] = IF i <= Len(head3) THEN head3[i] ELSE e.data[i - Len(head3)]
    BY <1>3, <1>5, ConcatProperties
  <2>2. Len(head3) = 3
    BY <1>5
  <2> QED
    BY <2>1, <2>2, <1>6
<1>8. Encode(e)[1] = e.offset /\ Encode(e)[2] = Len(e.data) /\ Encode(e)[3] = e.kind
  <2>1. 1 \in 1 .. 3 + Len(e.data) /\ 2 \in 1 .. 3 + Len(e.data) /\ 3 \in 1 .. 3 + Len(e.data)
    BY <1>3
  <2> QED
    BY <2>1, <1>5, <1>7
<1>9. ASSUME NEW j \in 1 .. Len(e.data) PROVE Encode(e)[3 + j] = e.data[j]
  <2>1. 3 + j \in 1 .. 3 + Len(e.data) /\ ~(3 + j <= 3) /\ (3 + j) - 3 = j
    BY <1>3
  <2> QED
    BY <2>1, <1>7
<1> QED
  BY <1>2, <1>4, <1>7, <1>8, <1>9 DEF HeaderSize

\* A whole entry is read back as it was buffered.
LEMMA ConsScan ==
    ASSUME NEW e \in Logged, NEW t \in Seq(Nat)
    PROVE  /\ ScanSector(Encode(e) \o t).entries = <<e>> \o ScanSector(t).entries
           /\ ScanSector(Encode(e) \o t).carry = ScanSector(t).carry
<1> DEFINE x == Encode(e)
           w == x \o t
           n == Len(e.data)
<1>1. x \in Seq(Nat) /\ Len(x) = 3 + n /\ n \in Nat /\ n > 0 /\ n <= MaxEntryLen
  <2>1. n \in 1 .. MaxEntryLen /\ HeaderSize = 3
    BY EncodedEntry DEF HeaderSize
  <2>2. n \in Nat /\ n > 0 /\ n <= MaxEntryLen
    BY <2>1, FramingAssumption
  <2> QED
    BY <2>1, <2>2, EncodedEntry
<1>a. /\ e \in [kind : Nat, offset : Nat, data : Seq(Nat)]
      /\ e.kind \in {ArenaWrite, IndexOp}
      /\ e.kind = ArenaWrite => e.offset + n <= ArenaLen
  BY EncodedEntry
<1>b. x[1] = e.offset /\ x[2] = n /\ x[3] = e.kind
  BY EncodedEntry
<1>c. \A j \in 1 .. n : x[3 + j] = e.data[j]
  BY EncodedEntry DEF HeaderSize
<1>d. Len(e.data) = n
  OBVIOUS
<1> HIDE DEF x, n
<1>2. /\ w \in Seq(Nat) /\ Len(w) = 3 + n + Len(t) /\ Len(t) \in Nat
      /\ \A i \in 1 .. 3 + n : w[i] = x[i]
  <2>1. /\ w \in Seq(Nat) /\ Len(w) = Len(x) + Len(t)
        /\ \A i \in 1 .. Len(x) + Len(t) : w[i] = IF i <= Len(x) THEN x[i] ELSE t[i - Len(x)]
    BY <1>1, ConcatProperties
  <2> HIDE DEF w
  <2> QED
    BY SMTT(60), <2>1, <1>1
<1> HIDE DEF w
<1>3. w[1] = e.offset /\ w[2] = n /\ w[3] = e.kind
  <2>1. 1 \in 1 .. 3 + n /\ 2 \in 1 .. 3 + n /\ 3 \in 1 .. 3 + n
    BY <1>1
  <2> QED
    BY <2>1, <1>2, <1>b
<1>4. HeaderAt(w, 1).offset = e.offset /\ HeaderAt(w, 1).length = n /\ HeaderAt(w, 1).kind = e.kind
  BY <1>3 DEF HeaderAt
<1>5. SizeAt(w, 1) = 3 + n
  BY <1>4 DEF SizeAt, HeaderSize
<1>6. FoundAt(w, 1) = "entry"
  <2>1. /\ Len(w) - 1 + 1 # 0 /\ ~(Len(w) - 1 + 1 < HeaderSize) /\ ~(Len(w) - 1 + 1 < HeaderSize + n)
        /\ n # 0 /\ ~(n > MaxEntryLen) /\ ~(e.kind > MaxEntryKind)
    BY SMTT(60), <1>1, <1>2, <1>a, FramingAssumption DEF HeaderSize, MaxEntryKind, ArenaWrite, IndexOp
  <2>2. ~(e.kind = ArenaWrite /\ e.offset + n > ArenaLen)
    BY <1>1, <1>a, FramingAssumption
  <2> QED
    BY <2>1, <2>2, <1>4, Zenon DEF FoundAt
<1>7. SubSeq(w, 4, 3 + n) = e.data
  <2>1. /\ SubSeq(w, 4, 3 + n) \in Seq(Nat) /\ Len(SubSeq(w, 4, 3 + n)) = n
        /\ \A i \in 1 .. n : SubSeq(w, 4, 3 + n)[i] = w[3 + i]
    <3>1. \A i \in 4 .. 3 + n : w[i] \in Nat
      <4>1. \A i \in 4 .. 3 + n : i \in 1 .. Len(w)
        BY <1>1, <1>2
      <4> QED
        BY <4>1, <1>2
    <3>2. /\ SubSeq(w, 4, 3 + n) \in Seq(Nat)
          /\ Len(SubSeq(w, 4, 3 + n)) = (IF 4 <= 3 + n THEN (3 + n) - 4 + 1 ELSE 0)
          /\ \A i \in 1 .. (3 + n) - 4 + 1 : SubSeq(w, 4, 3 + n)[i] = w[4 + i - 1]
      <4> DEFINE last == 3 + n
      <4>1. last \in Int
        BY <1>1
      <4> HIDE DEF last
      <4>2. (\A i \in 4 .. last : w[i] \in Nat) =>
               /\ SubSeq(w, 4, last) \in Seq(Nat)
               /\ Len(SubSeq(w, 4, last)) = (IF 4 <= last THEN last - 4 + 1 ELSE 0)
               /\ \A i \in 1 .. last - 4 + 1 : SubSeq(w, 4, last)[i] = w[4 + i - 1]
        BY <4>1, SubSeqProperties
      <4> QED
        BY <3>1, <4>2 DEF last
    <3>3. (3 + n) - 4 + 1 = n /\ \A i \in 1 .. n : 4 + i - 1 = 3 + i
      BY <1>1
    <3> QED
      BY <3>2, <3>3, <1>1
  <2>2. ASSUME NEW i \in 1 .. n PROVE SubSeq(w, 4, 3 + n)[i] = e.data[i]
    <3>1. 3 + i \in 1 .. 3 + n
      BY <1>1
    <3> QED
      BY <2>1, <3>1, <1>2, <1>c
  <2>3. e.data \in Seq(Nat) /\ Len(e.data) = n
    BY <1>a, <1>d
  <2> QED
    BY <2>1, <2>2, <2>3, SeqEqual
<1>8. EntryAt(w, 1) = e
  <2>1. 1 + HeaderSize = 4 /\ 1 + SizeAt(w, 1) - 1 = 3 + n
    BY <1>5, <1>1 DEF HeaderSize
  <2>2. EntryAt(w, 1) = [kind |-> e.kind, offset |-> e.offset, data |-> e.data]
    BY <2>1, <1>4, <1>7 DEF EntryAt
  <2> QED
    BY <2>2, <1>a
<1>9. /\ ScanFrom(w)[1].entries = <<e>> \o ScanFrom(w)[Len(x) + 1].entries
      /\ ScanFrom(w)[1].carry = ScanFrom(w)[Len(x) + 1].carry
  <2>1. 1 \in 1 .. Len(w) + 1 /\ 1 + SizeAt(w, 1) = Len(x) + 1
    BY <1>1, <1>2, <1>5
  <2>2. ScanFrom(w)[1] = [entries |-> <<EntryAt(w, 1)>> \o ScanFrom(w)[1 + SizeAt(w, 1)].entries,
                          carry |-> ScanFrom(w)[1 + SizeAt(w, 1)].carry]
    BY <2>1, <1>2, <1>6, ScanEquation
  <2> QED
    BY SMTT(60), <2>1, <2>2, <1>8
<1>10. ScanFrom(w)[Len(x) + 1] = ScanFrom(t)[1]
  <2>1. 1 \in 1 .. Len(t) + 1
    BY <1>2
  <2> QED
    BY <2>1, <1>1, ShiftScan DEF w
<1> QED
  BY <1>9, <1>10 DEF ScanSector, w, x, n

\* The first bytes of an entry are carried.
LEMMA PartialScan ==
    ASSUME NEW e \in Logged, NEW w \in Seq(Nat), Len(w) < Len(Encode(e)),
           \A i \in 1 .. Len(w) : w[i] = Encode(e)[i]
    PROVE  ScanSector(w) = [entries |-> <<>>, carry |-> w]
<1> DEFINE n == Len(e.data)
<1>1. /\ Len(Encode(e)) = 3 + n /\ n \in Nat /\ n > 0 /\ n <= MaxEntryLen /\ Len(w) \in Nat
      /\ Encode(e)[2] = n /\ Encode(e)[3] = e.kind
      /\ e.kind \in {ArenaWrite, IndexOp}
  <2>1. n \in 1 .. MaxEntryLen /\ HeaderSize = 3 /\ Len(w) \in Nat
    BY EncodedEntry DEF HeaderSize
  <2>2. n \in Nat /\ n > 0 /\ n <= MaxEntryLen
    BY <2>1, FramingAssumption
  <2> QED
    BY <2>1, <2>2, EncodedEntry
<1> HIDE DEF n
<1>2. SubSeq(w, 1, Len(w)) = w
  BY SubSeqFull
<1>3. FoundAt(w, 1) \in {"end", "at_boundary", "mid_entry"} /\ (FoundAt(w, 1) = "end" <=> Len(w) = 0)
      /\ (FoundAt(w, 1) = "at_boundary" => Len(w) < HeaderSize)
  <2>1. CASE Len(w) = 0
    <3>1. Len(w) - 1 + 1 = 0
      BY <2>1
    <3> QED
      BY <2>1, <3>1 DEF FoundAt
  <2>2. CASE Len(w) # 0 /\ Len(w) < HeaderSize
    <3>1. Len(w) - 1 + 1 # 0 /\ Len(w) - 1 + 1 < HeaderSize
      BY <2>2, <1>1
    <3>2. FoundAt(w, 1) = "at_boundary"
      BY <3>1, Zenon DEF FoundAt
    <3> QED
      BY <2>2, <3>2
  <2>3. CASE ~(Len(w) < HeaderSize)
    <3>1. w[2] = n /\ w[3] = e.kind
      BY SMTT(60), <2>3, <1>1 DEF HeaderSize
    <3>2. HeaderAt(w, 1).length = n /\ HeaderAt(w, 1).kind = e.kind
      BY <3>1 DEF HeaderAt
    <3>3. /\ Len(w) - 1 + 1 # 0 /\ ~(Len(w) - 1 + 1 < HeaderSize) /\ Len(w) - 1 + 1 < HeaderSize + n
          /\ n # 0 /\ ~(n > MaxEntryLen) /\ ~(e.kind > MaxEntryKind)
      BY <1>1, <2>3, FramingAssumption DEF HeaderSize, MaxEntryKind, ArenaWrite, IndexOp
    <3>4. FoundAt(w, 1) = "mid_entry"
      BY <3>2, <3>3, Zenon DEF FoundAt
    <3>5. Len(w) # 0
      BY <2>3, <1>1 DEF HeaderSize
    <3> QED
      BY <3>4, <3>5
  <2> QED
    BY <2>1, <2>2, <2>3
<1>4. CASE Len(w) = 0
  <2>1. w = <<>>
    BY <1>4
  <2>2. Stop(w, 1) = [entries |-> <<>>, carry |-> <<>>]
    BY <1>3, <1>4 DEF Stop
  <2>3. 1 \in 1 .. Len(w) + 1 /\ FoundAt(w, 1) # "entry"
    BY <1>3, <1>4
  <2> QED
    BY <2>1, <2>2, <2>3, ScanEquation DEF ScanSector
<1>5. CASE Len(w) # 0
  <2>1. ~(Len(w) > MaxEntryLen + HeaderSize)
    BY <1>1, FramingAssumption DEF HeaderSize
  <2>2. ~(Len(w) >= MinPadding /\ FoundAt(w, 1) = "at_boundary")
    BY <1>1, <1>3 DEF MinPadding, HeaderSize
  <2>3. CarryTail(FoundAt(w, 1), w) = w
    BY <2>1, <2>2, Zenon DEF CarryTail
  <2>4. Stop(w, 1) = [entries |-> <<>>, carry |-> w]
    BY <1>2, <1>3, <1>5, <2>3 DEF Stop
  <2>5. 1 \in 1 .. Len(w) + 1 /\ FoundAt(w, 1) # "entry"
    BY <1>1, <1>3
  <2> QED
    BY <2>4, <2>5, ScanEquation DEF ScanSector
<1> QED
  BY <1>4, <1>5

\* Padding yields nothing, and nothing is carried from it unless it is too
\* short for a header.
LEMMA PaddingScan ==
    ASSUME NEW m \in Nat
    PROVE  /\ Zeros(m) \in Seq(Nat)
           /\ ScanSector(Zeros(m)).entries = <<>>
           /\ (m = 0 \/ m >= MinPadding) => ScanSector(Zeros(m)).carry = <<>>
<1> DEFINE w == Zeros(m)
<1>1. w \in Seq(Nat) /\ Len(w) = m /\ \A i \in 1 .. m : w[i] = 0
  BY DEF Zeros
<1> HIDE DEF w
<1>2. 1 \in 1 .. Len(w) + 1
  BY <1>1
<1>3. FoundAt(w, 1) # "entry" /\ (m = 0 => FoundAt(w, 1) = "end") /\ (m >= MinPadding => FoundAt(w, 1) = "padding")
  <2>1. CASE m = 0
    <3>1. Len(w) - 1 + 1 = 0
      BY <2>1, <1>1
    <3>2. ~(m >= MinPadding)
      BY <2>1 DEF MinPadding, HeaderSize
    <3>3. FoundAt(w, 1) = "end"
      BY <3>1 DEF FoundAt
    <3> QED
      BY <3>2, <3>3
  <2>2. CASE m # 0 /\ m < HeaderSize
    <3>1. Len(w) - 1 + 1 # 0 /\ Len(w) - 1 + 1 < HeaderSize
      BY <2>2, <1>1
    <3>2. FoundAt(w, 1) = "at_boundary"
      BY <3>1, Zenon DEF FoundAt
    <3>3. ~(m >= MinPadding)
      BY <2>2 DEF MinPadding, HeaderSize
    <3> QED
      BY <2>2, <3>2, <3>3
  <2>3. CASE ~(m < HeaderSize)
    <3>1. w[2] = 0
      BY <2>3, <1>1 DEF HeaderSize
    <3>2. HeaderAt(w, 1).length = 0
      BY <3>1 DEF HeaderAt
    <3>3. Len(w) - 1 + 1 # 0 /\ ~(Len(w) - 1 + 1 < HeaderSize)
      BY <1>1, <2>3 DEF HeaderSize
    <3>4. FoundAt(w, 1) = "padding"
      BY <3>2, <3>3, Zenon DEF FoundAt
    <3>5. m # 0
      BY <2>3 DEF HeaderSize
    <3> QED
      BY <3>4, <3>5
  <2> QED
    BY <2>1, <2>2, <2>3
<1>4. ScanSector(w) = Stop(w, 1)
  BY <1>1, <1>2, <1>3, ScanEquation DEF ScanSector
<1>5. Stop(w, 1).entries = <<>>
  BY DEF Stop
<1>6. ASSUME m = 0 \/ m >= MinPadding PROVE Stop(w, 1).carry = <<>>
  BY <1>3, <1>6 DEF Stop
<1> QED
  BY <1>1, <1>4, <1>5, <1>6 DEF w

-----------------------------------------------------------------------------
(* The bytes of a list of logged deltas.                                   *)

LEMMA ConcatBytes ==
    ASSUME NEW a \in Seq(Nat), NEW b \in Seq(Nat), NEW c \in Seq(Nat)
    PROVE  (a \o b) \o c = a \o (b \o c)
  BY SMTT(60), ConcatAssociative

BytesUpTo(es) ==
    LET bytes[n \in 0 .. Len(es)] == IF n = 0 THEN <<>> ELSE bytes[n - 1] \o Encode(es[n])
    IN  bytes

Bytes(es) == BytesUpTo(es)[Len(es)]

LEMMA BytesExist ==
    ASSUME NEW es, Len(es) \in Nat
    PROVE  \E g : g = [k \in 0 .. Len(es) |-> IF k = 0 THEN <<>> ELSE g[k - 1] \o Encode(es[k])]
<1> DEFINE Lists(g, n) == g = [k \in 0 .. n |-> IF k = 0 THEN <<>> ELSE g[k - 1] \o Encode(es[k])]
           S == {n \in Nat : \E g : Lists(g, n)}
<1>1. 0 \in S
  <2> DEFINE g == [k \in 0 .. 0 |-> <<>>]
  <2>1. Lists(g, 0)
    OBVIOUS
  <2> QED
    BY <2>1
<1>2. ASSUME NEW n \in S PROVE n + 1 \in S
  <2>1. PICK g : Lists(g, n)
    BY <1>2
  <2> DEFINE h == [k \in 0 .. n + 1 |-> IF k = n + 1 THEN g[n] \o Encode(es[n + 1]) ELSE g[k]]
             body(k) == IF k = 0 THEN <<>> ELSE h[k - 1] \o Encode(es[k])
  <2>2. ASSUME NEW k \in 0 .. n + 1 PROVE h[k] = body(k)
    BY <2>1
  <2>3. h = [k \in 0 .. n + 1 |-> h[k]]
    OBVIOUS
  <2> HIDE DEF h, body
  <2>4. h = [k \in 0 .. n + 1 |-> body(k)]
    BY <2>2, <2>3
  <2>5. Lists(h, n + 1)
    BY <2>4 DEF body
  <2> HIDE DEF Lists
  <2> QED
    BY <2>5
<1>3. Len(es) \in S
  BY <1>1, <1>2, InductionOnSets
<1> QED
  BY <1>3

LEMMA BytesEquation ==
    ASSUME NEW es, Len(es) \in Nat
    PROVE  /\ BytesUpTo(es)[0] = <<>>
           /\ \A k \in 1 .. Len(es) : BytesUpTo(es)[k] = BytesUpTo(es)[k - 1] \o Encode(es[k])
<1> DEFINE bytes == BytesUpTo(es)
<1>1. bytes = [k \in 0 .. Len(es) |-> IF k = 0 THEN <<>> ELSE bytes[k - 1] \o Encode(es[k])]
  BY BytesExist DEF BytesUpTo
<1> HIDE DEF bytes
<1>2. bytes[0] = <<>>
  BY <1>1
<1>3. ASSUME NEW k \in 1 .. Len(es) PROVE bytes[k] = bytes[k - 1] \o Encode(es[k])
  <2>1. k \in 0 .. Len(es) /\ k # 0
    OBVIOUS
  <2> QED
    BY <1>1, <2>1, Zenon
<1> QED
  BY <1>2, <1>3 DEF bytes

LEMMA BytesType ==
    ASSUME NEW es \in Seq(Logged)
    PROVE  /\ \A k \in 0 .. Len(es) : BytesUpTo(es)[k] \in Seq(Nat)
           /\ Bytes(es) \in Seq(Nat)
<1> DEFINE S == {k \in Nat : k <= Len(es) => BytesUpTo(es)[k] \in Seq(Nat)}
<1>0. Len(es) \in Nat /\ \A k \in 1 .. Len(es) : es[k] \in Logged
  OBVIOUS
<1>1. 0 \in S
  <2>1. BytesUpTo(es)[0] = <<>>
    BY <1>0, BytesEquation
  <2>2. BytesUpTo(es)[0] \in Seq(Nat)
    BY <2>1
  <2> QED
    BY <2>2, Zenon
<1>2. ASSUME NEW k \in S PROVE k + 1 \in S
  <2> SUFFICES ASSUME k + 1 <= Len(es) PROVE BytesUpTo(es)[k + 1] \in Seq(Nat)
    OBVIOUS
  <2>1. k + 1 \in 1 .. Len(es) /\ (k + 1) - 1 = k /\ BytesUpTo(es)[k] \in Seq(Nat)
    BY <1>2, <1>0
  <2>2. BytesUpTo(es)[k + 1] = BytesUpTo(es)[k] \o Encode(es[k + 1])
    BY <2>1, <1>0, BytesEquation
  <2>3. Encode(es[k + 1]) \in Seq(Nat)
    BY <2>1, <1>0, EncodedEntry
  <2> QED
    BY <2>1, <2>2, <2>3, ConcatProperties
<1> HIDE DEF S
<1>3. \A k \in Nat : k \in S
  <2>1. S \subseteq Nat
    BY DEF S
  <2> QED
    BY <1>1, <1>2, <2>1, InductionOnSets
<1>4. \A k \in 0 .. Len(es) : BytesUpTo(es)[k] \in Seq(Nat)
  BY <1>0, <1>3 DEF S
<1> QED
  BY <1>0, <1>4 DEF Bytes

LEMMA BytesEmpty == Bytes(<<>>) = <<>>
<1>1. Len(<<>>) = 0
  OBVIOUS
<1> QED
  BY <1>1, BytesEquation DEF Bytes

LEMMA BytesCons ==
    ASSUME NEW e \in Logged, NEW es \in Seq(Logged)
    PROVE  Bytes(<<e>> \o es) = Encode(e) \o Bytes(es)
<1> DEFINE w == <<e>> \o es
           S == {k \in Nat : k <= Len(es) => BytesUpTo(w)[k + 1] = Encode(e) \o BytesUpTo(es)[k]}
<1>0. /\ Len(es) \in Nat /\ w \in Seq(Logged) /\ Len(w) = Len(es) + 1 /\ Len(w) \in Nat /\ w[1] = e
      /\ \A k \in 1 .. Len(es) : w[k + 1] = es[k] /\ es[k] \in Logged
  <2>1. <<e>> \in Seq(Logged) /\ Len(<<e>>) = 1 /\ <<e>>[1] = e
    OBVIOUS
  <2>2. /\ w \in Seq(Logged) /\ Len(w) = Len(<<e>>) + Len(es)
        /\ \A i \in 1 .. Len(<<e>>) + Len(es) : w[i] = IF i <= Len(<<e>>) THEN <<e>>[i] ELSE es[i - Len(<<e>>)]
    BY <2>1, ConcatProperties
  <2> HIDE DEF w
  <2>3. Len(w) = Len(es) + 1 /\ Len(es) \in Nat
    BY <2>1, <2>2
  <2>4. w[1] = e
    BY <2>1, <2>2, <2>3
  <2>5. ASSUME NEW k \in 1 .. Len(es) PROVE w[k + 1] = es[k] /\ es[k] \in Logged
    <3>1. k + 1 \in 1 .. 1 + Len(es) /\ ~(k + 1 <= 1) /\ (k + 1) - 1 = k
      BY <2>3
    <3> QED
      BY <2>1, <2>2, <3>1
  <2>6. Len(w) \in Nat
    BY <2>3
  <2> QED
    BY <2>2, <2>3, <2>4, <2>5, <2>6
<1> HIDE DEF w
<1>e. Encode(e) \in Seq(Nat)
  BY EncodedEntry
<1>1. 0 \in S
  <2>1. BytesUpTo(w)[0] = <<>> /\ BytesUpTo(es)[0] = <<>>
    BY <1>0, BytesEquation
  <2>2. 1 \in 1 .. Len(w)
    BY <1>0
  <2>3. BytesUpTo(w)[1] = BytesUpTo(w)[1 - 1] \o Encode(w[1])
    BY <2>2, <1>0, BytesEquation
  <2>4. 1 - 1 = 0 /\ 0 + 1 = 1
    OBVIOUS
  <2>5. BytesUpTo(w)[1] = <<>> \o Encode(e)
    BY <2>1, <2>3, <2>4, <1>0
  <2>6. BytesUpTo(w)[0 + 1] = Encode(e) \o BytesUpTo(es)[0]
    BY <2>1, <2>4, <2>5, <1>e, ConcatEmptySeq
  <2> QED
    BY <2>6, Zenon
<1>2. ASSUME NEW k \in S PROVE k + 1 \in S
  <2> SUFFICES ASSUME k + 1 <= Len(es) PROVE BytesUpTo(w)[k + 1 + 1] = Encode(e) \o BytesUpTo(es)[k + 1]
    OBVIOUS
  <2>1. BytesUpTo(w)[k + 1] = Encode(e) \o BytesUpTo(es)[k]
    BY <1>2, <1>0
  <2>2. k + 1 \in 1 .. Len(es) /\ (k + 1) - 1 = k /\ k \in 0 .. Len(es)
        /\ k + 1 + 1 \in 1 .. Len(w) /\ (k + 1 + 1) - 1 = k + 1
    BY <1>2, <1>0
  <2>3. BytesUpTo(es)[k + 1] = BytesUpTo(es)[k] \o Encode(es[k + 1])
    BY <2>2, <1>0, BytesEquation
  <2>4. BytesUpTo(w)[k + 1 + 1] = BytesUpTo(w)[k + 1] \o Encode(es[k + 1])
    BY ZenonT(60), <2>2, <1>0, BytesEquation
  <2>5. Encode(es[k + 1]) \in Seq(Nat) /\ BytesUpTo(es)[k] \in Seq(Nat)
    BY <2>2, <1>0, EncodedEntry, BytesType
  <2>6. (Encode(e) \o BytesUpTo(es)[k]) \o Encode(es[k + 1]) = Encode(e) \o (BytesUpTo(es)[k] \o Encode(es[k + 1]))
    BY <2>5, <1>e, ConcatBytes
  <2> QED
    BY <2>1, <2>3, <2>4, <2>6
<1> HIDE DEF S
<1>3. \A k \in Nat : k \in S
  <2>1. S \subseteq Nat
    BY DEF S
  <2> QED
    BY <1>1, <1>2, <2>1, InductionOnSets
<1>4. BytesUpTo(w)[Len(es) + 1] = Encode(e) \o BytesUpTo(es)[Len(es)]
  BY <1>0, <1>3 DEF S
<1> QED
  BY <1>0, <1>4 DEF Bytes, w

LEMMA BytesAppend ==
    ASSUME NEW e \in Logged, NEW es \in Seq(Logged)
    PROVE  Bytes(Append(es, e)) = Bytes(es) \o Encode(e)
<1> DEFINE w == Append(es, e)
           S == {k \in Nat : k <= Len(es) => BytesUpTo(w)[k] = BytesUpTo(es)[k]}
<1>0. /\ Len(es) \in Nat /\ Len(w) = Len(es) + 1 /\ Len(w) \in Nat /\ w[Len(es) + 1] = e
      /\ \A k \in 1 .. Len(es) : w[k] = es[k]
  OBVIOUS
<1> HIDE DEF w
<1>1. 0 \in S
  BY <1>0, BytesEquation
<1>2. ASSUME NEW k \in S PROVE k + 1 \in S
  <2> SUFFICES ASSUME k + 1 <= Len(es) PROVE BytesUpTo(w)[k + 1] = BytesUpTo(es)[k + 1]
    OBVIOUS
  <2>1. BytesUpTo(w)[k] = BytesUpTo(es)[k] /\ w[k + 1] = es[k + 1]
    BY <1>2, <1>0
  <2>2. k + 1 \in 1 .. Len(es) /\ k + 1 \in 1 .. Len(w) /\ (k + 1) - 1 = k
    BY <1>2, <1>0
  <2> QED
    BY ZenonT(60), <2>1, <2>2, <1>0, BytesEquation
<1> HIDE DEF S
<1>3. \A k \in Nat : k \in S
  <2>1. S \subseteq Nat
    BY DEF S
  <2> QED
    BY <1>1, <1>2, <2>1, InductionOnSets
<1>4. BytesUpTo(w)[Len(es)] = BytesUpTo(es)[Len(es)]
  BY <1>0, <1>3 DEF S
<1>5. BytesUpTo(w)[Len(w)] = BytesUpTo(w)[Len(es)] \o Encode(e)
  <2>1. Len(w) \in 1 .. Len(w) /\ Len(w) - 1 = Len(es)
    BY <1>0
  <2> QED
    BY <2>1, <1>0, BytesEquation
<1> QED
  BY <1>4, <1>5 DEF Bytes, w

-----------------------------------------------------------------------------
(* What the scan finds in the bytes of a list of logged deltas.            *)

\* Two ways to cut the same bytes.
CutBehind(x, y, a, b) == \E z \in Seq(Nat) : x = a \o z /\ z \o y = b

LEMMA CutPositions ==
    ASSUME NEW lx \in Nat, NEW ly \in Nat, NEW la \in Nat, NEW lb \in Nat, NEW lz \in Nat,
           lx + ly = la + lb, lx = la + lz, NEW i \in 1 .. lb
    PROVE  /\ la + i \in 1 .. la + lb /\ la + i \in 1 .. lx + ly
           /\ ~(la + i <= la) /\ (la + i) - la = i
           /\ la + i <= lx <=> i <= lz
           /\ (la + i) - lx = i - lz
  OBVIOUS

LEMMA CutBytes ==
    ASSUME NEW x \in Seq(Nat), NEW y \in Seq(Nat), NEW a \in Seq(Nat), NEW b \in Seq(Nat),
           x \o y = a \o b
    PROVE  /\ Len(x) < Len(a) => \A i \in 1 .. Len(x) : x[i] = a[i]
           /\ Len(x) >= Len(a) => CutBehind(x, y, a, b)
<1> DEFINE w == x \o y
<1>1. /\ w \in Seq(Nat) /\ Len(w) = Len(x) + Len(y)
      /\ \A i \in 1 .. Len(x) + Len(y) : w[i] = IF i <= Len(x) THEN x[i] ELSE y[i - Len(x)]
  BY ConcatProperties
<1>2. /\ Len(w) = Len(a) + Len(b)
      /\ \A i \in 1 .. Len(a) + Len(b) : w[i] = IF i <= Len(a) THEN a[i] ELSE b[i - Len(a)]
  <2>1. /\ Len(a \o b) = Len(a) + Len(b)
        /\ \A i \in 1 .. Len(a) + Len(b) : (a \o b)[i] = IF i <= Len(a) THEN a[i] ELSE b[i - Len(a)]
    BY ConcatProperties
  <2> QED
    BY <2>1
<1>3. Len(x) \in Nat /\ Len(y) \in Nat /\ Len(a) \in Nat /\ Len(b) \in Nat
  OBVIOUS
<1> HIDE DEF w
<1>4. ASSUME Len(x) < Len(a), NEW i \in 1 .. Len(x) PROVE x[i] = a[i]
  <2>1. i \in 1 .. Len(x) + Len(y) /\ i \in 1 .. Len(a) + Len(b) /\ i <= Len(x) /\ i <= Len(a)
    BY SMTT(60), <1>3, <1>4
  <2> QED
    BY <2>1, <1>1, <1>2
<1>5. ASSUME Len(x) >= Len(a) PROVE CutBehind(x, y, a, b)
  <2> DEFINE n == Len(x) - Len(a)
             z == [i \in 1 .. n |-> x[Len(a) + i]]
  <2>1. n \in Nat
    BY <1>3, <1>5
  <2>2. z \in Seq(Nat) /\ Len(z) = n /\ \A i \in 1 .. n : z[i] = x[Len(a) + i]
    <3>1. \A i \in 1 .. n : x[Len(a) + i] \in Nat
      <4>1. \A i \in 1 .. n : Len(a) + i \in 1 .. Len(x)
        BY <1>3, <2>1
      <4> QED
        BY <4>1
    <3> HIDE DEF n
    <3> QED
      BY <3>1, <2>1
  <2> HIDE DEF z
  <2>3. x = a \o z
    <3>1. /\ a \o z \in Seq(Nat) /\ Len(a \o z) = Len(a) + Len(z)
          /\ \A i \in 1 .. Len(a) + Len(z) : (a \o z)[i] = IF i <= Len(a) THEN a[i] ELSE z[i - Len(a)]
      BY <2>2, ConcatProperties
    <3>2. Len(a) + Len(z) = Len(x)
      BY <2>2, <1>3
    <3>3. ASSUME NEW i \in 1 .. Len(x) PROVE (a \o z)[i] = x[i]
      <4>1. CASE i <= Len(a)
        <5>1. i \in 1 .. Len(x) + Len(y) /\ i \in 1 .. Len(a) + Len(b) /\ i <= Len(x)
          BY <1>3, <1>5, <4>1
        <5>2. x[i] = a[i]
          BY <5>1, <4>1, <1>1, <1>2
        <5> QED
          BY <5>2, <4>1, <3>1, <3>2
      <4>2. CASE ~(i <= Len(a))
        <5>1. i - Len(a) \in 1 .. n /\ Len(a) + (i - Len(a)) = i
          BY <1>3, <4>2
        <5>2. z[i - Len(a)] = x[i]
          BY <5>1, <2>2
        <5> QED
          BY <5>2, <4>2, <3>1, <3>2
      <4> QED
        BY <4>1, <4>2
    <3> QED
      BY <3>1, <3>2, <3>3, SeqEqual
  <2>4. z \o y = b
    <3>1. /\ z \o y \in Seq(Nat) /\ Len(z \o y) = Len(z) + Len(y)
          /\ \A i \in 1 .. Len(z) + Len(y) : (z \o y)[i] = IF i <= Len(z) THEN z[i] ELSE y[i - Len(z)]
      BY <2>2, ConcatProperties
    <3>2. Len(z) + Len(y) = Len(b)
      BY <2>2, <1>1, <1>2, <1>3
    <3>3. ASSUME NEW i \in 1 .. Len(b) PROVE (z \o y)[i] = b[i]
      <4> DEFINE j == Len(a) + i
      <4>1. /\ j \in 1 .. Len(a) + Len(b) /\ j \in 1 .. Len(x) + Len(y) /\ ~(j <= Len(a)) /\ j - Len(a) = i
            /\ j <= Len(x) <=> i <= Len(z)
            /\ j - Len(x) = i - Len(z)
        <5>1. Len(x) + Len(y) = Len(a) + Len(b) /\ Len(x) = Len(a) + Len(z) /\ Len(z) \in Nat
          BY <1>1, <1>2, <1>3, <2>2, <2>1
        <5> QED
          BY <5>1, <1>3, CutPositions
      <4>2. w[j] = b[i]
        BY <4>1, <1>2
      <4>3. w[j] = IF i <= Len(z) THEN x[j] ELSE y[i - Len(z)]
        <5> HIDE DEF j
        <5> QED
          BY <4>1, <1>1
      <4>4. i <= Len(z) => z[i] = x[j]
        BY <2>2, <2>1
      <4>5. (z \o y)[i] = IF i <= Len(z) THEN z[i] ELSE y[i - Len(z)]
        BY <3>1, <3>2
      <4> HIDE DEF j
      <4> QED
        BY <4>2, <4>3, <4>4, <4>5
    <3> QED
      BY <3>1, <3>2, <3>3, SeqEqual
  <2> QED
    BY <2>2, <2>3, <2>4 DEF CutBehind
<1> QED
  BY <1>4, <1>5

LEMMA JoinLogged ==
    ASSUME NEW s \in Seq(Logged), NEW t \in Seq(Logged)
    PROVE  /\ s \o t \in Seq(Logged)
           /\ Len(s \o t) = Len(s) + Len(t)
           /\ \A i \in 1 .. Len(s) + Len(t) : (s \o t)[i] = IF i <= Len(s) THEN s[i] ELSE t[i - Len(s)]
  BY ConcatProperties

LEMMA ConcatLogged ==
    ASSUME NEW r \in Seq(Logged), NEW s \in Seq(Logged), NEW t \in Seq(Logged)
    PROVE  (r \o s) \o t = r \o (s \o t)
  BY ConcatAssociative

LEMMA ConcatEntries ==
    ASSUME NEW r \in Seq(Entry), NEW s \in Seq(Entry), NEW t \in Seq(Entry)
    PROVE  (r \o s) \o t = r \o (s \o t)
  BY ConcatAssociative

LEMMA JoinBytes ==
    ASSUME NEW s \in Seq(Nat), NEW t \in Seq(Nat)
    PROVE  s \o t \in Seq(Nat) /\ Len(s \o t) = Len(s) + Len(t)
  BY ConcatProperties

LEMMA FirstAndRest ==
    ASSUME NEW es \in Seq(Logged), es # <<>>
    PROVE  /\ Head(es) \in Logged /\ Head(es) = es[1]
           /\ Tail(es) \in Seq(Logged) /\ Len(Tail(es)) = Len(es) - 1
           /\ es = <<Head(es)>> \o Tail(es)
           /\ Len(es) \in Nat /\ Len(es) > 0
           /\ Bytes(es) = Encode(Head(es)) \o Bytes(Tail(es))
<1>1. /\ Head(es) \in Logged
      /\ Tail(es) \in Seq(Logged)
      /\ Len(Tail(es)) = Len(es) - 1
      /\ \A i \in 1 .. Len(Tail(es)) : Tail(es)[i] = es[i + 1]
  BY HeadTailProperties
<1>2. Head(es) = es[1]
  OBVIOUS
<1>3. Len(es) \in Nat /\ Len(es) > 0
  OBVIOUS
<1>4. es = <<Head(es)>> \o Tail(es)
  <2> DEFINE h == <<Head(es)>>
             t == Tail(es)
  <2>1. h \in Seq(Logged) /\ Len(h) = 1 /\ h[1] = es[1]
    BY <1>1, <1>2
  <2>t. t \in Seq(Logged) /\ Len(t) = Len(es) - 1 /\ \A i \in 1 .. Len(t) : t[i] = es[i + 1]
    BY <1>1
  <2> HIDE DEF h, t
  <2>2. /\ h \o t \in Seq(Logged) /\ Len(h \o t) = Len(h) + Len(t)
        /\ \A i \in 1 .. Len(h) + Len(t) : (h \o t)[i] = IF i <= Len(h) THEN h[i] ELSE t[i - Len(h)]
    BY <2>1, <2>t, JoinLogged
  <2>3. Len(h) + Len(t) = Len(es)
    BY <2>1, <2>t, <1>3
  <2>4. ASSUME NEW i \in 1 .. Len(es) PROVE (h \o t)[i] = es[i]
    <3>1. CASE i = 1
      BY <3>1, <2>1, <2>2, <2>3, <1>3
    <3>2. CASE i # 1
      <4>1. ~(i <= Len(h)) /\ i - Len(h) \in 1 .. Len(t) /\ (i - Len(h)) + 1 = i
        BY <3>2, <2>1, <2>t, <1>3
      <4>2. t[i - Len(h)] = es[i]
        BY <4>1, <2>t
      <4> QED
        BY <4>1, <4>2, <2>2, <2>3
    <3> QED
      BY <3>1, <3>2
  <2> QED
    BY <2>2, <2>3, <2>4, SeqEqual DEF h, t
<1>5. Bytes(<<Head(es)>> \o Tail(es)) = Encode(Head(es)) \o Bytes(Tail(es))
  BY <1>1, BytesCons
<1> QED
  BY <1>1, <1>2, <1>3, <1>4, <1>5

\* A scan of x, of what x and y are the bytes of, applies the entries that
\* are whole and carries the rest, which is short of one entry.
ScanSplits(es, x, y) ==
    \E us, vs \in Seq(Logged) :
       /\ es = us \o vs
       /\ ScanSector(x).entries = us
       /\ ScanSector(x).carry \in Seq(Nat)
       /\ ScanSector(x).carry \o y = Bytes(vs)
       /\ vs = <<>> => ScanSector(x).carry = <<>>
       /\ vs # <<>> => Len(ScanSector(x).carry) < Len(Encode(vs[1]))

LEMMA PrefixScan ==
    ASSUME NEW es \in Seq(Logged), NEW x \in Seq(Nat), NEW y \in Seq(Nat), x \o y = Bytes(es)
    PROVE  ScanSplits(es, x, y)
<1> DEFINE Splits(fs, z, us, vs) ==
              /\ fs = us \o vs
              /\ ScanSector(z).entries = us
              /\ ScanSector(z).carry \in Seq(Nat)
              /\ ScanSector(z).carry \o y = Bytes(vs)
              /\ vs = <<>> => ScanSector(z).carry = <<>>
              /\ vs # <<>> => Len(ScanSector(z).carry) < Len(Encode(vs[1]))
           Scanned(fs, z) == \E us, vs \in Seq(Logged) : Splits(fs, z, us, vs)
           S == {n \in Nat : \A fs \in Seq(Logged), z \in Seq(Nat) :
                                Len(fs) = n /\ z \o y = Bytes(fs) => Scanned(fs, z)}
<1>1. 0 \in S
  <2> SUFFICES ASSUME NEW fs \in Seq(Logged), NEW z \in Seq(Nat), Len(fs) = 0, z \o y = Bytes(fs)
               PROVE  Scanned(fs, z)
    <3> HIDE DEF Scanned
    <3> QED
      OBVIOUS
  <2>1. fs = <<>>
    OBVIOUS
  <2>2. z \o y = <<>>
    BY <2>1, BytesEmpty
  <2>3. z = <<>> /\ y = <<>>
    BY <2>2, ConcatEqualIffEmpty
  <2>4. ScanSector(<<>>).entries = <<>> /\ ScanSector(<<>>).carry = <<>>
    <3>1. Zeros(0) = <<>>
      BY DEF Zeros
    <3>2. ScanSector(Zeros(0)).entries = <<>> /\ ScanSector(Zeros(0)).carry = <<>>
      <4>1. 0 \in Nat
        OBVIOUS
      <4> QED
        BY <4>1, PaddingScan, Zenon
    <3> QED
      BY <3>1, <3>2
  <2>5. <<>> \in Seq(Logged) /\ <<>> \in Seq(Nat) /\ <<>> \o <<>> = <<>>
    OBVIOUS
  <2>6. Splits(fs, z, <<>>, <<>>)
    BY <2>1, <2>3, <2>4, <2>5, BytesEmpty
  <2> HIDE DEF Splits
  <2> QED
    BY <2>5, <2>6
<1>2. ASSUME NEW n \in S PROVE n + 1 \in S
  <2> SUFFICES ASSUME NEW fs \in Seq(Logged), NEW z \in Seq(Nat), Len(fs) = n + 1, z \o y = Bytes(fs)
               PROVE  Scanned(fs, z)
    <3>1. n + 1 \in Nat
      BY <1>2
    <3> HIDE DEF Scanned
    <3> QED
      BY <3>1, Zenon
  <2>0. n \in Nat /\ \A gs \in Seq(Logged), t \in Seq(Nat) :
                        Len(gs) = n /\ t \o y = Bytes(gs) => Scanned(gs, t)
    <3> HIDE DEF Scanned
    <3> QED
      BY <1>2
  <2> DEFINE e == Head(fs)
             gs == Tail(fs)
             a == Encode(e)
             b == Bytes(gs)
  <2>1. fs # <<>>
    BY <2>0
  <2>2. /\ e \in Logged /\ gs \in Seq(Logged) /\ Len(gs) = n /\ fs = <<e>> \o gs /\ e = fs[1]
        /\ z \o y = a \o b
    <3>1. /\ e \in Logged /\ gs \in Seq(Logged) /\ Len(gs) = Len(fs) - 1 /\ fs = <<e>> \o gs /\ e = fs[1]
          /\ Bytes(fs) = a \o b
      BY <2>1, FirstAndRest
    <3>2. Len(gs) = n
      BY <3>1, <2>0
    <3> HIDE DEF e, gs, a, b
    <3> QED
      BY <3>1, <3>2
  <2>3. a \in Seq(Nat) /\ b \in Seq(Nat)
    BY <2>2, EncodedEntry, BytesType
  <2>c. /\ Len(z) < Len(a) => \A i \in 1 .. Len(z) : z[i] = a[i]
        /\ Len(z) >= Len(a) => CutBehind(z, y, a, b)
    <3> HIDE DEF S
    <3>1. ASSUME NEW p \in Seq(Nat), NEW q \in Seq(Nat), z \o y = p \o q
          PROVE  /\ Len(z) < Len(p) => \A i \in 1 .. Len(z) : z[i] = p[i]
                 /\ Len(z) >= Len(p) => CutBehind(z, y, p, q)
      BY <3>1, CutBytes
    <3> HIDE DEF a, b
    <3> QED
      BY <3>1, <2>2, <2>3, Zenon
  <2>4. CASE Len(z) < Len(a)
    <3>1. \A i \in 1 .. Len(z) : z[i] = a[i]
      <4> HIDE DEF a, b
      <4> QED
        BY <2>c, <2>4
    <3>2. ScanSector(z) = [entries |-> <<>>, carry |-> z]
      <4> HIDE DEF e
      <4> QED
        BY <3>1, <2>2, <2>4, PartialScan
    <3>3. <<>> \in Seq(Logged) /\ <<>> \o fs = fs
      OBVIOUS
    <3>4. Splits(fs, z, <<>>, fs)
      <4>1. ScanSector(z).entries = <<>> /\ ScanSector(z).carry = z
        BY <3>2
      <4>2. fs = <<>> \o fs /\ z \o y = Bytes(fs) /\ Len(z) < Len(Encode(fs[1]))
        BY <3>3, <2>2, <2>4
      <4> QED
        BY <4>1, <4>2, <2>1, Zenon
    <3> HIDE DEF Splits
    <3> QED
      BY <3>3, <3>4
  <2>5. CASE Len(z) >= Len(a)
    <3>1. PICK t \in Seq(Nat) : z = a \o t /\ t \o y = b
      <4> HIDE DEF a, b
      <4> QED
        BY <2>c, <2>5 DEF CutBehind
    <3>2. Scanned(gs, t)
      <4> HIDE DEF Scanned, gs, e
      <4> QED
        BY <2>0, <2>2, <3>1
    <3>3. PICK us \in Seq(Logged), vs \in Seq(Logged) : Splits(gs, t, us, vs)
      <4> HIDE DEF Splits
      <4> QED
        BY <3>2
    <3>4. ScanSector(z).entries = <<e>> \o us /\ ScanSector(z).carry = ScanSector(t).carry
      <4>1. ScanSector(t).entries = us
        BY <3>3
      <4> HIDE DEF e, Splits
      <4> QED
        BY <3>1, <4>1, <2>2, ConsScan
    <3>5. <<e>> \in Seq(Logged) /\ <<e>> \o us \in Seq(Logged)
      <4>1. <<e>> \in Seq(Logged)
        BY <2>2
      <4> HIDE DEF e
      <4> QED
        BY <4>1, JoinLogged
    <3>6. fs = (<<e>> \o us) \o vs
      <4>1. gs = us \o vs /\ fs = <<e>> \o gs
        BY <3>3, <2>2
      <4>2. (<<e>> \o us) \o vs = <<e>> \o (us \o vs)
        <5>1. <<e>> \in Seq(Logged)
          BY <3>5
        <5> HIDE DEF e, Splits
        <5> QED
          BY ZenonT(60), <5>1, ConcatLogged
      <4> HIDE DEF e, gs, Splits
      <4> QED
        BY <4>1, <4>2
    <3>7. Splits(fs, z, <<e>> \o us, vs)
      <4> HIDE DEF e, gs
      <4> QED
        BY <3>3, <3>4, <3>6
    <3> HIDE DEF Splits, e
    <3> QED
      BY <3>5, <3>7
  <2>6. Len(z) < Len(a) \/ Len(z) >= Len(a)
    BY <2>3
  <2> QED
    BY <2>4, <2>5, <2>6
<1>3. Len(es) \in S
  <2> HIDE DEF Scanned
  <2>1. S \subseteq Nat
    OBVIOUS
  <2>2. Len(es) \in Nat
    OBVIOUS
  <2> HIDE DEF S
  <2> QED
    BY <1>1, <1>2, <2>1, <2>2, InductionOnSets
<1>4. Scanned(es, x)
  <2> HIDE DEF Scanned
  <2> QED
    BY <1>3
<1> QED
  BY <1>4 DEF ScanSplits

\* A scan of whole entries applies them all and goes on behind them.
LEMMA WholeScan ==
    ASSUME NEW es \in Seq(Logged), NEW t \in Seq(Nat)
    PROVE  /\ ScanSector(Bytes(es) \o t).entries = es \o ScanSector(t).entries
           /\ ScanSector(Bytes(es) \o t).carry = ScanSector(t).carry
<1> DEFINE Whole(fs) == /\ ScanSector(Bytes(fs) \o t).entries = fs \o ScanSector(t).entries
                        /\ ScanSector(Bytes(fs) \o t).carry = ScanSector(t).carry
           S == {n \in Nat : \A fs \in Seq(Logged) : Len(fs) = n => Whole(fs)}
<1>0. ScanSector(t).entries \in Seq(Entry)
  <2>1. 1 \in 1 .. Len(t) + 1
    OBVIOUS
  <2> QED
    BY <2>1, ScanType DEF ScanSector
<1>l. \A fs \in Seq(Logged) : fs \in Seq(Entry)
  <2>1. Logged \subseteq Entry
    BY EncodedEntry DEF Entry
  <2> QED
    BY <2>1, SeqMonotonic
<1>1. 0 \in S
  <2> SUFFICES ASSUME NEW fs \in Seq(Logged), Len(fs) = 0 PROVE Whole(fs)
    <3> HIDE DEF Whole
    <3> QED
      OBVIOUS
  <2>1. fs = <<>>
    OBVIOUS
  <2>2. Bytes(fs) \o t = t
    BY <2>1, BytesEmpty, ConcatEmptySeq
  <2>3. fs \o ScanSector(t).entries = ScanSector(t).entries
    BY <2>1, <1>0, ConcatEmptySeq
  <2> QED
    BY <2>2, <2>3
<1>2. ASSUME NEW n \in S PROVE n + 1 \in S
  <2> SUFFICES ASSUME NEW fs \in Seq(Logged), Len(fs) = n + 1 PROVE Whole(fs)
    <3> HIDE DEF Whole
    <3> QED
      BY <1>2
  <2>0. n \in Nat /\ \A gs \in Seq(Logged) : Len(gs) = n => Whole(gs)
    <3> HIDE DEF Whole
    <3> QED
      BY <1>2
  <2> DEFINE e == Head(fs)
             gs == Tail(fs)
  <2>1. /\ e \in Logged /\ gs \in Seq(Logged) /\ Len(gs) = n /\ fs = <<e>> \o gs
        /\ Bytes(fs) = Encode(e) \o Bytes(gs)
    <3>0. fs # <<>>
      BY <2>0
    <3>1. /\ e \in Logged /\ gs \in Seq(Logged) /\ Len(gs) = Len(fs) - 1 /\ fs = <<e>> \o gs
          /\ Bytes(fs) = Encode(e) \o Bytes(gs)
      BY <3>0, FirstAndRest
    <3>2. Len(gs) = n
      BY <3>1, <2>0
    <3> HIDE DEF e, gs
    <3> QED
      BY <3>1, <3>2
  <2> HIDE DEF e, gs
  <2>2. Encode(e) \in Seq(Nat) /\ Bytes(gs) \in Seq(Nat)
    BY <2>1, EncodedEntry, BytesType
  <2>3. Bytes(fs) \o t = Encode(e) \o (Bytes(gs) \o t) /\ Bytes(gs) \o t \in Seq(Nat)
    <3>1. (Encode(e) \o Bytes(gs)) \o t = Encode(e) \o (Bytes(gs) \o t)
      BY <2>2, ConcatBytes
    <3>2. Bytes(gs) \o t \in Seq(Nat)
      BY <2>2, JoinBytes
    <3> QED
      BY <3>1, <3>2, <2>1
  <2>4. Whole(gs)
    <3> HIDE DEF Whole
    <3> QED
      BY <2>0, <2>1
  <2>5. /\ ScanSector(Bytes(fs) \o t).entries = <<e>> \o (gs \o ScanSector(t).entries)
        /\ ScanSector(Bytes(fs) \o t).carry = ScanSector(t).carry
    <3>1. /\ ScanSector(Encode(e) \o (Bytes(gs) \o t)).entries = <<e>> \o ScanSector(Bytes(gs) \o t).entries
          /\ ScanSector(Encode(e) \o (Bytes(gs) \o t)).carry = ScanSector(Bytes(gs) \o t).carry
      <4> HIDE DEF Whole
      <4> QED
        BY <2>1, <2>3, ConsScan
    <3> QED
      BY <3>1, <2>3, <2>4
  <2>6. <<e>> \o (gs \o ScanSector(t).entries) = fs \o ScanSector(t).entries
    <3>1. <<e>> \in Seq(Entry) /\ gs \in Seq(Entry)
      <4>1. <<e>> \in Seq(Logged)
        BY <2>1
      <4> QED
        BY <4>1, <2>1, <1>l
    <3> HIDE DEF Whole
    <3>2. (<<e>> \o gs) \o ScanSector(t).entries = <<e>> \o (gs \o ScanSector(t).entries)
      BY <3>1, <1>0, ConcatEntries
    <3> QED
      BY <3>2, <2>1
  <2> QED
    BY <2>5, <2>6
<1>3. Len(es) \in S
  <2> HIDE DEF Whole
  <2>1. S \subseteq Nat
    OBVIOUS
  <2>2. Len(es) \in Nat
    OBVIOUS
  <2> HIDE DEF S
  <2> QED
    BY <1>1, <1>2, <2>1, <2>2, InductionOnSets
<1>4. Whole(es)
  <2> HIDE DEF Whole
  <2> QED
    BY <1>3
<1> QED
  BY <1>4

-----------------------------------------------------------------------------
(* What the reader makes of a file, and of what a crash leaves of it.      *)

LEMMA PrefixMeaning ==
    ASSUME NEW s \in Seq(Entry), NEW t \in Seq(Entry)
    PROVE  IsPrefix(s, t) <=> Len(s) <= Len(t) /\ \A i \in 1 .. Len(s) : s[i] = t[i]
<1>1. Len(s) \in Nat /\ Len(t) \in Nat /\ \A i \in 1 .. Len(t) : t[i] \in Entry
  OBVIOUS
<1>2. SubSeq(s, 1, Len(s)) = s
  BY SubSeqFull
<1>3. ASSUME Len(s) <= Len(t)
      PROVE  /\ SubSeq(t, 1, Len(s)) \in Seq(Entry)
             /\ Len(SubSeq(t, 1, Len(s))) = Len(s)
             /\ \A i \in 1 .. Len(s) : SubSeq(t, 1, Len(s))[i] = t[i]
  <2> DEFINE n == Len(s)
  <2>1. n \in Int /\ 1 \in Int /\ \A i \in 1 .. n : t[i] \in Entry
    BY <1>1, <1>3
  <2>2. n - 1 + 1 = n /\ (n = 0 \/ 1 <= n) /\ (n = 0 => ~(1 <= n)) /\ \A i \in 1 .. n : 1 + i - 1 = i
    BY <1>1
  <2> HIDE DEF n
  <2>3. /\ SubSeq(t, 1, n) \in Seq(Entry)
        /\ Len(SubSeq(t, 1, n)) = IF 1 <= n THEN n - 1 + 1 ELSE 0
        /\ \A i \in 1 .. n - 1 + 1 : SubSeq(t, 1, n)[i] = t[1 + i - 1]
    BY <2>1, SubSeqProperties
  <2> QED
    BY <2>2, <2>3 DEF n
<1>4. ASSUME Len(s) <= Len(t), \A i \in 1 .. Len(s) : s[i] = t[i] PROVE s = SubSeq(t, 1, Len(s))
  BY <1>3, <1>4, SeqEqual
<1> QED
  BY <1>2, <1>3, <1>4 DEF IsPrefix

LEMMA PrefixConcat ==
    ASSUME NEW s \in Seq(Entry), NEW t \in Seq(Entry)
    PROVE  s \o t \in Seq(Entry) /\ Len(s \o t) = Len(s) + Len(t) /\ IsPrefix(s, s \o t)
<1>1. /\ s \o t \in Seq(Entry) /\ Len(s \o t) = Len(s) + Len(t)
      /\ \A i \in 1 .. Len(s) + Len(t) : (s \o t)[i] = IF i <= Len(s) THEN s[i] ELSE t[i - Len(s)]
  BY ConcatProperties
<1>2. Len(s) <= Len(s \o t) /\ \A i \in 1 .. Len(s) : (s \o t)[i] = s[i]
  BY <1>1
<1> QED
  BY <1>1, <1>2, PrefixMeaning

LEMMA PrefixChain ==
    ASSUME NEW s \in Seq(Entry), NEW t \in Seq(Entry), NEW u \in Seq(Entry),
           IsPrefix(s, t), IsPrefix(t, u)
    PROVE  IsPrefix(s, u)
<1>1. Len(s) <= Len(t) /\ \A i \in 1 .. Len(s) : s[i] = t[i]
  BY PrefixMeaning
<1>2. Len(t) <= Len(u) /\ \A i \in 1 .. Len(t) : t[i] = u[i]
  BY PrefixMeaning
<1>3. Len(s) <= Len(u) /\ \A i \in 1 .. Len(s) : s[i] = u[i]
  BY <1>1, <1>2
<1> QED
  BY <1>3, PrefixMeaning

ReaderState == [entries : Seq(Entry), carry : Seq(Nat), stopped : BOOLEAN]

\* A sector adds entries; a bad one adds none.
LEMMA ReadStep ==
    ASSUME NEW state \in ReaderState, NEW sector \in Sector
    PROVE  /\ ReadSector(state, sector) \in ReaderState
           /\ IsPrefix(state.entries, ReadSector(state, sector).entries)
           /\ ~sector.crc_ok => ReadSector(state, sector).entries = state.entries
<1> DEFINE w == state.carry \o sector.payload
           scan == ScanSector(w)
<1>1. state.carry \in Seq(Nat) /\ sector.payload \in Seq(Nat) /\ state.entries \in Seq(Entry)
      /\ sector.crc_ok \in BOOLEAN /\ state.stopped \in BOOLEAN
  BY DEF ReaderState, Sector
<1>2. w \in Seq(Nat)
  BY <1>1, JoinBytes
<1>3. scan.entries \in Seq(Entry) /\ scan.carry \in Seq(Nat)
  <2> HIDE DEF w
  <2>1. 1 \in 1 .. Len(w) + 1
    BY <1>2
  <2> QED
    BY <1>2, <2>1, ScanType DEF ScanSector
<1> HIDE DEF w, scan
<1>4. /\ state.entries \o scan.entries \in Seq(Entry)
      /\ IsPrefix(state.entries, state.entries \o scan.entries)
  BY <1>1, <1>3, PrefixConcat
<1>5. IsPrefix(state.entries, state.entries)
  BY <1>1, PrefixMeaning
<1>6. CASE state.stopped \/ ~sector.crc_ok
  <2>1. ReadSector(state, sector) = [state EXCEPT !.stopped = TRUE]
    BY <1>6 DEF ReadSector
  <2>2. [state EXCEPT !.stopped = TRUE] \in ReaderState /\ [state EXCEPT !.stopped = TRUE].entries = state.entries
    BY DEF ReaderState
  <2> QED
    BY <2>1, <2>2, <1>5
<1>7. CASE ~(state.stopped \/ ~sector.crc_ok)
  <2>1. ReadSector(state, sector) =
            [entries |-> state.entries \o scan.entries, carry |-> scan.carry, stopped |-> FALSE]
    BY <1>7 DEF ReadSector, scan, w
  <2>2. ReadSector(state, sector) \in ReaderState
    BY <2>1, <1>3, <1>4 DEF ReaderState
  <2>3. IsPrefix(state.entries, ReadSector(state, sector).entries)
    BY <2>1, <1>4
  <2>4. sector.crc_ok
    BY <1>7, Zenon
  <2> QED
    BY <2>2, <2>3, <2>4, Zenon
<1> QED
  BY <1>6, <1>7

LEMMA ReadType ==
    ASSUME NEW sectors \in Seq(Sector)
    PROVE  \A k \in 0 .. Len(sectors) : ReadStates(sectors)[k] \in ReaderState
<1> DEFINE S == {k \in Nat : k <= Len(sectors) => ReadStates(sectors)[k] \in ReaderState}
<1>0. Len(sectors) \in Nat /\ \A k \in 1 .. Len(sectors) : sectors[k] \in Sector
  OBVIOUS
<1>1. 0 \in S
  <2>1. ReadStates(sectors)[0] = Unread
    BY <1>0, ReadStatesEquation
  <2>2. Unread \in ReaderState
    BY DEF Unread, ReaderState
  <2>3. ReadStates(sectors)[0] \in ReaderState
    BY <2>1, <2>2
  <2> QED
    BY <2>3, Zenon
<1>2. ASSUME NEW k \in S PROVE k + 1 \in S
  <2> SUFFICES ASSUME k + 1 <= Len(sectors) PROVE ReadStates(sectors)[k + 1] \in ReaderState
    OBVIOUS
  <2>1. k + 1 \in 1 .. Len(sectors) /\ (k + 1) - 1 = k /\ ReadStates(sectors)[k] \in ReaderState
    BY <1>2, <1>0
  <2>2. ReadStates(sectors)[k + 1] = ReadSector(ReadStates(sectors)[k], sectors[k + 1])
    BY <2>1, <1>0, ReadStatesEquation
  <2> QED
    BY <2>1, <2>2, <1>0, ReadStep
<1> HIDE DEF S
<1>3. \A k \in Nat : k \in S
  <2>1. S \subseteq Nat
    BY DEF S
  <2> QED
    BY <1>1, <1>2, <2>1, InductionOnSets
<1> QED
  BY <1>0, <1>3 DEF S

\* Reading on never takes an entry back.
LEMMA ReadGrows ==
    ASSUME NEW sectors \in Seq(Sector), NEW j \in 0 .. Len(sectors)
    PROVE  \A k \in j .. Len(sectors) :
              IsPrefix(ReadStates(sectors)[j].entries, ReadStates(sectors)[k].entries)
<1> DEFINE E(k) == ReadStates(sectors)[k].entries
           S == {n \in Nat : j + n <= Len(sectors) => IsPrefix(E(j), E(j + n))}
<1>0. Len(sectors) \in Nat /\ j \in Nat /\ \A k \in 1 .. Len(sectors) : sectors[k] \in Sector
  OBVIOUS
<1>t. \A k \in 0 .. Len(sectors) : E(k) \in Seq(Entry) /\ ReadStates(sectors)[k] \in ReaderState
  BY ReadType DEF ReaderState
<1>1. 0 \in S
  <2>1. j + 0 = j
    BY <1>0
  <2>2. IsPrefix(E(j), E(j))
    BY <1>t, PrefixMeaning
  <2> HIDE DEF E
  <2> QED
    BY <2>1, <2>2
<1>2. ASSUME NEW n \in S PROVE n + 1 \in S
  <2> SUFFICES ASSUME j + (n + 1) <= Len(sectors) PROVE IsPrefix(E(j), E(j + (n + 1)))
    <3> HIDE DEF E
    <3> QED
      OBVIOUS
  <2> DEFINE k == j + n
  <2>1. k + 1 = j + (n + 1) /\ k + 1 \in 1 .. Len(sectors) /\ (k + 1) - 1 = k /\ k \in 0 .. Len(sectors)
        /\ k + 1 \in 0 .. Len(sectors) /\ k <= Len(sectors)
    BY <1>2, <1>0
  <2>2. IsPrefix(E(j), E(k))
    <3> HIDE DEF E
    <3> QED
      BY <1>2, <2>1
  <2> HIDE DEF k
  <2>3. ReadStates(sectors)[k + 1] = ReadSector(ReadStates(sectors)[k], sectors[k + 1])
    BY <2>1, <1>0, ReadStatesEquation
  <2>4. IsPrefix(E(k), E(k + 1))
    BY <2>1, <2>3, <1>0, <1>t, ReadStep
  <2>5. E(j) \in Seq(Entry) /\ E(k) \in Seq(Entry) /\ E(k + 1) \in Seq(Entry)
    BY <2>1, <1>t
  <2> HIDE DEF E
  <2>6. IsPrefix(E(j), E(k + 1))
    BY <2>2, <2>4, <2>5, PrefixChain
  <2> QED
    BY <2>1, <2>6
<1>3. \A n \in Nat : n \in S
  <2> HIDE DEF E
  <2>1. S \subseteq Nat
    OBVIOUS
  <2> HIDE DEF S
  <2> QED
    BY <1>1, <1>2, <2>1, InductionOnSets
<1> SUFFICES ASSUME NEW k \in j .. Len(sectors) PROVE IsPrefix(E(j), E(k))
  OBVIOUS
<1>4. k - j \in Nat /\ j + (k - j) = k /\ k <= Len(sectors)
  BY <1>0
<1>5. k - j \in S
  <2> HIDE DEF S
  <2> QED
    BY <1>3, <1>4
<1> HIDE DEF E
<1> QED
  BY <1>4, <1>5

\* No segment was ever archived.
NoArchive == \A n \in 0 .. MaxSegments - 1 : archive[n] = NoFile

LEMMA ReplayOfLive ==
    ASSUME NEW file \in Seq(Sector), NEW segments,
           \A n \in 0 .. MaxSegments - 1 : segments[n] = NoFile
    PROVE  /\ Replay(file, segments) = ReadStates(file)[Len(file)].entries
           /\ ReadStates(file)[Len(file)].entries \in Seq(Entry)
<1>1. FirstFree(segments) = 0
  <2> DEFINE free == { n \in 0 .. MaxSegments - 1 : \A m \in 0 .. n : segments[m] # NoFile }
  <2>1. free = {}
    <3> SUFFICES ASSUME NEW n \in 0 .. MaxSegments - 1, \A m \in 0 .. n : segments[m] # NoFile PROVE FALSE
      OBVIOUS
    <3>1. 0 \in 0 .. n /\ 0 \in 0 .. MaxSegments - 1
      BY WalAssumption
    <3> QED
      BY <3>1
  <2> QED
    BY <2>1, FS_EmptySet DEF FirstFree
<1>2. [i \in 1 .. FirstFree(segments) |-> ReplayFile(segments[i - 1])] = <<>>
  BY <1>1
<1>3. FlattenSeq([i \in 1 .. FirstFree(segments) |-> ReplayFile(segments[i - 1])]) = <<>>
  <2>1. Len(<<>>) = 0
    OBVIOUS
  <2> QED
    BY <1>2, <2>1 DEF FlattenSeq
<1>4. ReadStates(file)[Len(file)].entries \in Seq(Entry)
  <2>1. Len(file) \in 0 .. Len(file)
    OBVIOUS
  <2>2. ReadStates(file)[Len(file)] \in ReaderState
    BY <2>1, ReadType
  <2> QED
    BY <2>2 DEF ReaderState
<1>5. ReplayFile(file) \o <<>> = ReplayFile(file)
  BY <1>4, ConcatEmptySeq DEF ReplayFile
<1> QED
  BY <1>3, <1>4, <1>5 DEF Replay, ReplayFile

\* What a crash leaves reads like the sectors that survive it whole.
LEMMA ImagesRead ==
    ASSUME live \in Seq(Sector), synced \in 0 .. Len(live), NEW file \in LiveImages
    PROVE  /\ file \in Seq(Sector)
           /\ synced <= Len(file)
           /\ \E k \in synced .. Len(live) :
                 /\ k <= Len(file)
                 /\ \A j \in 0 .. k : ReadStates(file)[j] = ReadStates(live)[j]
                 /\ \A j \in k .. Len(file) : ReadStates(file)[j].entries = ReadStates(live)[k].entries
<1> DEFINE Reads(k) == /\ k <= Len(file)
                       /\ \A j \in 0 .. k : ReadStates(file)[j] = ReadStates(live)[j]
                       /\ \A j \in k .. Len(file) : ReadStates(file)[j].entries = ReadStates(live)[k].entries
<1>0. Len(live) \in Nat /\ synced \in Nat /\ \A i \in 1 .. Len(live) : live[i] \in Sector
  OBVIOUS
<1>1. ASSUME NEW k \in synced .. Len(live)
      PROVE  /\ SubSeq(live, 1, k) \in Seq(Sector)
             /\ Len(SubSeq(live, 1, k)) = k
             /\ \A i \in 1 .. k : SubSeq(live, 1, k)[i] = live[i]
  <2>1. k \in Int /\ 1 \in Int /\ \A i \in 1 .. k : live[i] \in Sector
    BY <1>0
  <2>2. k - 1 + 1 = k /\ (k = 0 \/ 1 <= k) /\ (k = 0 => ~(1 <= k)) /\ \A i \in 1 .. k : 1 + i - 1 = i
    BY <1>0
  <2>3. /\ SubSeq(live, 1, k) \in Seq(Sector)
        /\ Len(SubSeq(live, 1, k)) = IF 1 <= k THEN k - 1 + 1 ELSE 0
        /\ \A i \in 1 .. k - 1 + 1 : SubSeq(live, 1, k)[i] = live[1 + i - 1]
    BY <2>1, SubSeqProperties
  <2> QED
    BY <2>2, <2>3
<1>2. CASE \E k \in synced .. Len(live) : file = SubSeq(live, 1, k)
  <2>1. PICK k \in synced .. Len(live) : file = SubSeq(live, 1, k)
    BY <1>2
  <2>2. file \in Seq(Sector) /\ Len(file) = k /\ \A i \in 1 .. k : file[i] = live[i]
    BY <1>1, <2>1
  <2>3. k \in Nat /\ k <= Len(file) /\ k <= Len(live) /\ Len(file) \in Nat
    BY <2>2, <1>0
  <2>4. \A j \in 0 .. k : ReadStates(file)[j] = ReadStates(live)[j]
    BY ZenonT(60), <2>2, <2>3, <1>0, ReadStatesAgree
  <2>5. \A j \in k .. Len(file) : ReadStates(file)[j].entries = ReadStates(live)[k].entries
    <3> SUFFICES ASSUME NEW j \in k .. Len(file) PROVE ReadStates(file)[j].entries = ReadStates(live)[k].entries
      OBVIOUS
    <3>1. j = k /\ k \in 0 .. k
      BY <2>2, <2>3
    <3> QED
      BY <3>1, <2>4
  <2>6. Reads(k)
    BY <2>3, <2>4, <2>5
  <2>7. synced <= Len(file)
    BY <2>2, <1>0
  <2> HIDE DEF Reads
  <2>8. \E l \in synced .. Len(live) : Reads(l)
    BY <2>6
  <2> QED
    BY <2>2, <2>7, <2>8 DEF Reads
<1>3. CASE \E k \in synced .. Len(live) - 1 : file = Append(SubSeq(live, 1, k), Torn(live[k + 1]))
  <2>1. PICK k \in synced .. Len(live) - 1 : file = Append(SubSeq(live, 1, k), Torn(live[k + 1]))
    BY <1>3
  <2> DEFINE torn == Torn(live[k + 1])
  <2>2. k \in Nat /\ k \in synced .. Len(live) /\ k <= Len(live) /\ k + 1 \in 1 .. Len(live)
    BY <1>0
  <2>3. torn \in Sector /\ torn.crc_ok = FALSE
    BY <2>2, <1>0 DEF Torn, Sector
  <2> HIDE DEF torn
  <2>4. /\ SubSeq(live, 1, k) \in Seq(Sector) /\ Len(SubSeq(live, 1, k)) = k
        /\ \A i \in 1 .. k : SubSeq(live, 1, k)[i] = live[i]
    BY <1>1, <2>2
  <2>5. /\ file \in Seq(Sector) /\ Len(file) = k + 1 /\ file[k + 1] = torn
        /\ \A i \in 1 .. k : file[i] = live[i]
    <3> DEFINE kept == SubSeq(live, 1, k)
    <3>1. file = Append(kept, torn)
      BY <2>1 DEF torn
    <3> HIDE DEF kept
    <3>2. kept \in Seq(Sector) /\ Len(kept) = k /\ \A i \in 1 .. k : kept[i] = live[i]
      BY <2>4 DEF kept
    <3> QED
      BY <3>1, <3>2, <2>3
  <2>6. k <= Len(file) /\ Len(file) \in Nat
    BY <2>2, <2>5
  <2>7. \A j \in 0 .. k : ReadStates(file)[j] = ReadStates(live)[j]
    BY ZenonT(60), <2>2, <2>5, <2>6, <1>0, ReadStatesAgree
  <2>8. ReadStates(file)[k + 1].entries = ReadStates(live)[k].entries
    <3>1. k + 1 \in 1 .. Len(file) /\ (k + 1) - 1 = k /\ k \in 0 .. k
      BY <2>2, <2>5
    <3>2. ReadStates(file)[k + 1] = ReadSector(ReadStates(file)[k], torn)
      BY <3>1, <2>5, <2>6, ReadStatesEquation
    <3>3. ReadStates(live)[k] \in ReaderState
      <4>1. k \in 0 .. Len(live)
        BY <2>2
      <4> QED
        BY <4>1, ReadType
    <3>4. ReadSector(ReadStates(live)[k], torn).entries = ReadStates(live)[k].entries
      BY <3>3, <2>3, ReadStep
    <3> QED
      BY <3>1, <3>2, <3>4, <2>7
  <2>9. \A j \in k .. Len(file) : ReadStates(file)[j].entries = ReadStates(live)[k].entries
    <3> SUFFICES ASSUME NEW j \in k .. Len(file) PROVE ReadStates(file)[j].entries = ReadStates(live)[k].entries
      OBVIOUS
    <3>1. j = k \/ j = k + 1
      BY <2>2, <2>5
    <3>2. k \in 0 .. k
      BY <2>2
    <3> QED
      BY <3>1, <3>2, <2>7, <2>8
  <2>10. Reads(k)
    BY <2>6, <2>7, <2>9
  <2>11. synced <= Len(file)
    BY <2>2, <2>5, <1>0
  <2> HIDE DEF Reads
  <2>12. \E l \in synced .. Len(live) : Reads(l)
    BY <2>2, <2>10
  <2> QED
    BY <2>5, <2>11, <2>12 DEF Reads
<1> QED
  BY <1>2, <1>3 DEF LiveImages

-----------------------------------------------------------------------------
(* What a boot recovered stays recoverable, as long as no segment is       *)
(* rotated and no fsync fails: whatever is appended, checkpointed, torn or *)
(* lost, and however often the daemon restarts.                            *)

(* syncFile's error, which the flusher ignores. *)
SyncFails == pc = "sync" /\ pc' = "publish" /\ synced' # Len(live)

KeepsLog == ~Rotate /\ ~RotateFails /\ ~SyncFails

RecoveredRead == \E r \in 0 .. synced : recovered = ReadStates(live)[r].entries

RecoveredInv ==
    /\ NoArchive
    /\ pc # "sync" => synced = Len(live)
    /\ RecoveredRead

LEMMA RecoveredInit == Init => RecoveredInv
<1> SUFFICES ASSUME Init PROVE RecoveredInv
  OBVIOUS
<1>1. NoArchive /\ synced = 0 /\ live = <<>> /\ recovered = <<>>
  BY DEF Init, NoArchive
<1>2. Len(<<>>) = 0
  OBVIOUS
<1>3. ReadStates(live)[0].entries = <<>>
  BY <1>1, <1>2, ReadStatesEquation DEF Unread
<1>4. RecoveredRead
  BY <1>1, <1>3 DEF RecoveredRead
<1> QED
  BY <1>1, <1>2, <1>4 DEF RecoveredInv

LEMMA RecoveredQuiet ==
    ASSUME RecoveredInv, UNCHANGED <<live, synced, archive, recovered>>,
           pc' = pc \/ (pc # "sync" /\ pc' # "sync")
    PROVE  RecoveredInv'
<1>1. NoArchive'
  BY DEF RecoveredInv, NoArchive
<1>2. (pc # "sync" => synced = Len(live))'
  BY DEF RecoveredInv
<1>3. RecoveredRead'
  BY DEF RecoveredInv, RecoveredRead
<1> QED
  BY <1>1, <1>2, <1>3 DEF RecoveredInv

\* The file agrees with the old one where the recovered entries are.
LEMMA RecoveredAgrees ==
    ASSUME live \in Seq(Sector), live' \in Seq(Sector), synced \in 0 .. Len(live), synced' \in 0 .. Len(live'),
           RecoveredRead, synced <= synced', recovered' = recovered,
           \A k \in 0 .. synced : ReadStates(live')[k] = ReadStates(live)[k]
    PROVE  RecoveredRead'
<1>1. PICK r \in 0 .. synced : recovered = ReadStates(live)[r].entries
  BY DEF RecoveredRead
<1>2. r \in 0 .. synced'
  OBVIOUS
<1>3. recovered' = ReadStates(live')[r].entries
  BY <1>1
<1> QED
  BY <1>2, <1>3 DEF RecoveredRead

LEMMA RecoveredStep ==
    ASSUME WalInv, WalInv', RecoveredInv, [Next]_vars, [KeepsLog]_vars
    PROVE  RecoveredInv'
<1>1. /\ live \in Seq(Sector) /\ live' \in Seq(Sector)
      /\ synced \in 0 .. Len(live) /\ synced' \in 0 .. Len(live')
      /\ back \in {"loop", "copy", "throttle", "snap_write", "close"}
      /\ owner \in {"loop", "drain", "snap_drain"}
      /\ Len(live) \in Nat
  BY DEF WalInv, TypeOK, DiskTyped, FlusherTyped
<1>2. NoArchive /\ (pc # "sync" => synced = Len(live)) /\ RecoveredRead
  BY DEF RecoveredInv
<1>3. CASE UNCHANGED vars
  BY <1>3, RecoveredQuiet DEF vars
<1>4. CASE (\E d \in Deltas : Push(d)) \/ CommitBegin \/ CommitOk \/ CommitTimeout \/ RequestShutdown
  <2>1. UNCHANGED <<live, synced, archive, recovered>> /\ pc' = pc
    <3>1. CASE \E d \in Deltas : Push(d)
      BY <3>1 DEF Push, disk, history, control
    <3>2. CASE CommitBegin \/ CommitOk \/ CommitTimeout
      BY <3>2 DEF CommitBegin, CommitOk, CommitTimeout, disk, history, control
    <3>3. CASE RequestShutdown
      BY <3>3 DEF RequestShutdown, disk, control
    <3> QED
      BY <1>4, <3>1, <3>2, <3>3
  <2> QED
    BY <2>1, RecoveredQuiet
<1>5. CASE PopDelta \/ PopDropped \/ PopCheckpoint \/ CopyBytes \/ CopyDone \/ PublishDurable \/ RotateAtCap
           \/ Throttled \/ SnapEnter \/ SnapPublish \/ SnapFails \/ SnapReopenFails \/ Close
  <2>1. UNCHANGED <<live, synced, archive, recovered>> /\ (pc' = pc \/ (pc # "sync" /\ pc' # "sync"))
    <3>1. CASE PopDelta \/ PopDropped \/ PopCheckpoint
      BY <3>1 DEF PopDelta, PopDropped, PopCheckpoint, Polling, disk, history, control
    <3>2. CASE CopyBytes \/ CopyDone
      BY <3>2, <1>1 DEF CopyBytes, CopyDone, disk, history
    <3>3. CASE PublishDurable \/ RotateAtCap
      BY <3>3, <1>1 DEF PublishDurable, RotateAtCap, AfterFlush, disk, history
    <3>4. CASE Throttled \/ SnapEnter \/ SnapPublish \/ SnapFails \/ SnapReopenFails \/ Close
      BY <3>4 DEF Throttled, SnapEnter, SnapPublish, SnapFails, SnapReopenFails, Close, disk, history
    <3> QED
      BY <1>5, <3>1, <3>2, <3>3, <3>4
  <2> QED
    BY <2>1, RecoveredQuiet
<1>6. CASE IdleFlush \/ DrainFlush \/ SnapFlush \/ FinalFlush
  <2>1. UNCHANGED <<live, synced, archive, recovered>> /\ pc # "sync" /\ pc' # "sync"
    <3>1. CASE IdleFlush \/ FinalFlush
      BY <3>1 DEF IdleFlush, FinalFlush, Flush, disk, history
    <3>2. CASE DrainFlush \/ SnapFlush
      BY <3>2 DEF DrainFlush, SnapFlush, Flush, disk, history
    <3> QED
      BY <1>6, <3>1, <3>2
  <2> QED
    BY <2>1, RecoveredQuiet
<1>7. CASE WriteFails
  <2>1. UNCHANGED <<live, synced, archive, recovered>> /\ pc = "write" /\ FlushFails
    BY <1>7 DEF WriteFails, disk, history
  <2>2. pc' # "sync"
    BY <2>1, FlushFailsLeads DEF WalInv, TypeOK
  <2> QED
    BY <2>1, <2>2, RecoveredQuiet
<1>8. CASE WriteSector
  <2>1. /\ live' = Append(live, Padded(sector_buffer)) /\ pc' = "sync"
        /\ synced' = synced /\ archive' = archive /\ recovered' = recovered
    BY <1>8 DEF WriteSector, history
  <2>2. NoArchive'
    BY <1>2, <2>1 DEF NoArchive
  <2>3. RecoveredRead'
    <3>1. Len(live') \in Nat /\ Len(live') >= Len(live) /\ \A k \in 1 .. Len(live) : live'[k] = live[k]
      <4>1. Len(live') = Len(live) + 1 /\ \A k \in 1 .. Len(live) : live'[k] = live[k]
        BY <1>1, <2>1
      <4> QED
        BY <1>1, <4>1
    <3>2. \A k \in 1 .. synced : live'[k] = live[k]
      BY <1>1, <3>1
    <3>3. synced \in Nat /\ synced <= Len(live) /\ synced <= Len(live')
      BY <1>1, <3>1
    <3>4. \A k \in 0 .. synced : ReadStates(live')[k] = ReadStates(live)[k]
      BY <1>1, <3>1, <3>2, <3>3, ReadStatesAgree
    <3> QED
      BY <1>1, <1>2, <2>1, <3>3, <3>4, RecoveredAgrees
  <2> QED
    BY <2>1, <2>2, <2>3 DEF RecoveredInv
<1>9. CASE SyncFile
  <2>1. /\ live' = live /\ pc' = "publish" /\ pc = "sync"
        /\ archive' = archive /\ recovered' = recovered
    BY <1>9 DEF SyncFile, history
  <2>2. synced' = Len(live)
    <3>1. pc' # pc
      BY <2>1
    <3>2. KeepsLog
      BY <3>1 DEF vars
    <3> QED
      BY <3>2, <2>1 DEF KeepsLog, SyncFails
  <2>3. NoArchive'
    BY <1>2, <2>1 DEF NoArchive
  <2>4. RecoveredRead'
    <3>1. synced <= synced'
      BY <1>1, <2>2
    <3> QED
      BY <1>1, <1>2, <2>1, <3>1, RecoveredAgrees
  <2> QED
    BY <2>1, <2>2, <2>3, <2>4 DEF RecoveredInv
<1>10. CASE SnapDelete
  <2>1. archive' = archive /\ live' = live /\ synced' = synced /\ recovered' = recovered /\ pc = "snap_delete"
        /\ pc' # "sync"
    <3>1. ~(del < MaxSegments /\ archive[del] # NoFile)
      <4>1. del < MaxSegments => del \in 0 .. MaxSegments - 1
        BY WalAssumption DEF WalInv, TypeOK, FlusherTyped
      <4> QED
        BY <4>1, <1>2 DEF NoArchive
    <3> QED
      BY <1>10, <3>1 DEF SnapDelete, history
  <2> QED
    BY <2>1, RecoveredQuiet
<1>11. CASE SnapTruncate
  <2>1. live' = <<>> /\ synced' = 0 /\ recovered' = <<>> /\ archive' = archive /\ pc' = "loop"
    BY <1>11 DEF SnapTruncate
  <2>2. NoArchive'
    BY <1>2, <2>1 DEF NoArchive
  <2>3. Len(<<>>) = 0
    OBVIOUS
  <2>4. ReadStates(live')[0].entries = <<>>
    BY <2>1, <2>3, ReadStatesEquation DEF Unread
  <2>5. RecoveredRead'
    BY <2>1, <2>4 DEF RecoveredRead
  <2> QED
    BY <2>1, <2>2, <2>3, <2>5 DEF RecoveredInv
<1>12. CASE Crash
  <2>1. live' \in LiveImages /\ synced' = Len(live') /\ archive' = archive /\ recovered' = recovered
    BY <1>12 DEF Crash, history
  <2>2. NoArchive'
    BY <1>2, <2>1 DEF NoArchive
  <2>3. synced <= Len(live') /\ \A k \in 0 .. synced : ReadStates(live')[k] = ReadStates(live)[k]
    <3>1. PICK k \in synced .. Len(live) : /\ k <= Len(live')
                                           /\ \A j \in 0 .. k : ReadStates(live')[j] = ReadStates(live)[j]
      BY <1>1, <2>1, ImagesRead
    <3>2. \A j \in 0 .. synced : j \in 0 .. k
      BY <1>1
    <3> QED
      BY <1>1, <2>1, <3>1, <3>2
  <2>4. RecoveredRead'
    BY <1>1, <1>2, <2>1, <2>3, RecoveredAgrees
  <2> QED
    BY <2>1, <2>2, <2>4 DEF RecoveredInv
<1>13. CASE Boot
  <2>1. /\ recovered' = Replay(live, archive) /\ live' = live /\ synced' = synced /\ archive' = archive
        /\ pc = "down" /\ pc' = "loop"
    BY <1>13 DEF Boot
  <2>2. NoArchive'
    BY <1>2, <2>1 DEF NoArchive
  <2>3. synced = Len(live)
    BY <1>2, <2>1
  <2>4. recovered' = ReadStates(live')[Len(live)].entries
    BY <1>1, <1>2, <2>1, ReplayOfLive DEF NoArchive
  <2>5. Len(live) \in 0 .. synced'
    BY <1>1, <2>1, <2>3
  <2>6. RecoveredRead'
    BY <2>4, <2>5 DEF RecoveredRead
  <2> QED
    BY <2>1, <2>2, <2>3, <2>6 DEF RecoveredInv
<1>14. CASE Rotate \/ RotateFails
  <2>1. pc' # pc
    <3>1. CASE Rotate
      BY <3>1, <1>1 DEF Rotate
    <3>2. CASE RotateFails
      BY <3>2, FlushFailsLeads DEF RotateFails, WalInv, TypeOK
    <3> QED
      BY <1>14, <3>1, <3>2
  <2>2. KeepsLog
    BY <2>1 DEF vars
  <2> QED
    BY <1>14, <2>2 DEF KeepsLog
<1> QED
  BY <1>3, <1>4, <1>5, <1>6, <1>7, <1>8, <1>9, <1>10, <1>11, <1>12, <1>13, <1>14 DEF Next, FlusherStep

LEMMA RecoveredHolds == WalInv /\ RecoveredInv => RecoveredStays
<1> SUFFICES ASSUME WalInv, RecoveredInv, NEW file \in LiveImages
             PROVE  IsPrefix(recovered, Replay(file, archive))
  BY DEF RecoveredStays
<1>1. live \in Seq(Sector) /\ synced \in 0 .. Len(live) /\ Len(live) \in Nat
  BY DEF WalInv, TypeOK, DiskTyped
<1>2. PICK r \in 0 .. synced : recovered = ReadStates(live)[r].entries
  BY DEF RecoveredInv, RecoveredRead
<1>3. PICK k \in synced .. Len(live) :
          /\ k <= Len(file)
          /\ \A j \in k .. Len(file) : ReadStates(file)[j].entries = ReadStates(live)[k].entries
  BY <1>1, ImagesRead
<1>4. file \in Seq(Sector) /\ Len(file) \in Nat
  <2>1. file \in Seq(Sector)
    BY <1>1, ImagesRead
  <2> QED
    BY <2>1
<1>5. Replay(file, archive) = ReadStates(file)[Len(file)].entries
  BY <1>4, ReplayOfLive DEF RecoveredInv, NoArchive
<1>6. Replay(file, archive) = ReadStates(live)[k].entries
  <2>1. Len(file) \in k .. Len(file)
    BY <1>1, <1>3, <1>4
  <2> QED
    BY <1>3, <1>5, <2>1
<1>7. r \in 0 .. Len(live) /\ k \in r .. Len(live)
  BY <1>1
<1>8. IsPrefix(ReadStates(live)[r].entries, ReadStates(live)[k].entries)
  BY <1>1, <1>7, ReadGrows
<1> QED
  BY <1>2, <1>6, <1>8

(* What the last boot recovered from the log stays in it, whatever a crash *)
(* leaves of the live file, through appends, checkpoints, failed writes    *)
(* and restarts, unless a segment is rotated or an fsync fails.            *)
THEOREM RecoveredSurvives == Spec /\ [][KeepsLog]_vars => []RecoveredStays
<1>1. Init => RecoveredInv
  BY RecoveredInit
<1>2. WalInv /\ WalInv' /\ RecoveredInv /\ [Next]_vars /\ [KeepsLog]_vars => RecoveredInv'
  BY RecoveredStep
<1>3. WalInv /\ RecoveredInv => RecoveredStays
  BY RecoveredHolds
<1>4. Spec => []WalInv
  BY WalInvariant
<1> QED
  BY <1>1, <1>2, <1>3, <1>4, PTL DEF Spec

-----------------------------------------------------------------------------
(* How the bytes on the disk, in the buffer and in hand make up the log.   *)
(* The reader has applied the first of the popped entries; the bytes it    *)
(* carries, the buffered ones and those not buffered yet are the others.   *)

Frames(read, popped, buffered, hand, us) ==
    /\ popped = read.entries \o us
    /\ (read.carry \o buffered) \o hand = Bytes(us)

IsFramed(read, popped, buffered, hand) ==
    \E us \in Seq(Logged) : Frames(read, popped, buffered, hand, us)

LEMMA LoggedAreEntries ==
    /\ Logged \subseteq Entry
    /\ \A s \in Seq(Logged) : s \in Seq(Entry)
<1>1. Logged \subseteq Entry
  BY EncodedEntry DEF Entry
<1> QED
  BY <1>1, SeqMonotonic

\* A delta is popped and its bytes are in hand.
LEMMA FramePop ==
    ASSUME NEW read \in ReaderState, NEW popped, NEW buffered \in Seq(Nat),
           IsFramed(read, popped, buffered, <<>>), NEW d \in Logged
    PROVE  IsFramed(read, Append(popped, d), buffered, Encode(d))
<1>1. PICK us \in Seq(Logged) : Frames(read, popped, buffered, <<>>, us)
  BY DEF IsFramed
<1>2. read.entries \in Seq(Entry) /\ read.carry \in Seq(Nat)
  BY DEF ReaderState
<1>3. Append(us, d) \in Seq(Logged)
  BY AppendProperties
<1>4. Append(popped, d) = read.entries \o Append(us, d)
  <2>1. us \in Seq(Entry) /\ d \in Entry /\ <<d>> \in Seq(Entry)
    BY LoggedAreEntries
  <2>2. popped = read.entries \o us /\ popped \in Seq(Entry)
    BY <1>1, <1>2, <2>1, PrefixConcat DEF Frames
  <2>3. Append(popped, d) = popped \o <<d>>
    BY <2>1, <2>2, AppendIsConcat
  <2>4. Append(us, d) = us \o <<d>>
    BY <2>1, AppendIsConcat
  <2>5. (read.entries \o us) \o <<d>> = read.entries \o (us \o <<d>>)
    BY <1>2, <2>1, ConcatEntries
  <2> QED
    BY <2>2, <2>3, <2>4, <2>5
<1>5. (read.carry \o buffered) \o Encode(d) = Bytes(Append(us, d))
  <2> DEFINE s == read.carry \o buffered
  <2>1. s \in Seq(Nat)
    BY <1>2, JoinBytes
  <2>2. s \o <<>> = Bytes(us)
    BY <1>1 DEF Frames
  <2> HIDE DEF s
  <2>3. s = Bytes(us)
    BY <2>1, <2>2, ConcatEmptySeq
  <2>4. Bytes(Append(us, d)) = Bytes(us) \o Encode(d)
    BY BytesAppend
  <2>5. s \o Encode(d) = Bytes(Append(us, d))
    BY <2>3, <2>4
  <2> QED
    BY <2>5 DEF s
<1>6. Frames(read, Append(popped, d), buffered, Encode(d), Append(us, d))
  BY <1>4, <1>5, Zenon DEF Frames
<1> QED
  BY <1>3, <1>6, Zenon DEF IsFramed

\* Bytes in hand are moved to the buffer.
LEMMA FrameCopy ==
    ASSUME NEW read \in ReaderState, NEW popped, NEW buffered \in Seq(Nat), NEW hand \in Seq(Nat),
           IsFramed(read, popped, buffered, hand), NEW n \in 0 .. Len(hand)
    PROVE  IsFramed(read, popped, buffered \o SubSeq(hand, 1, n), SubSeq(hand, n + 1, Len(hand)))
<1>1. PICK us \in Seq(Logged) : Frames(read, popped, buffered, hand, us)
  BY DEF IsFramed
<1> DEFINE h1 == SubSeq(hand, 1, n)
           h2 == SubSeq(hand, n + 1, Len(hand))
<1>2. read.carry \in Seq(Nat)
  BY DEF ReaderState
<1>3. h1 \in Seq(Nat) /\ h2 \in Seq(Nat)
  BY SMTT(60), CutSequence
<1>4. h1 \o h2 = hand
  <2>1. 1 \in 1 .. Len(hand) + 1 /\ n \in 1 - 1 .. Len(hand) /\ Len(hand) \in n .. Len(hand)
    OBVIOUS
  <2>2. SubSeq(hand, 1, n) \o SubSeq(hand, n + 1, Len(hand)) = SubSeq(hand, 1, Len(hand))
    BY <2>1, ConcatAdjacentSubSeq
  <2>3. SubSeq(hand, 1, Len(hand)) = hand
    BY SubSeqFull
  <2> QED
    BY <2>2, <2>3
<1> HIDE DEF h1, h2
<1>5. (read.carry \o (buffered \o h1)) \o h2 = (read.carry \o buffered) \o hand
  <2> DEFINE c == read.carry
  <2>1. c \in Seq(Nat)
    BY <1>2
  <2> HIDE DEF c
  <2>2. c \o (buffered \o h1) = (c \o buffered) \o h1
    BY ZenonT(60), <1>3, <2>1, ConcatBytes
  <2>3. c \o buffered \in Seq(Nat)
    BY <2>1, JoinBytes
  <2>4. ((c \o buffered) \o h1) \o h2 = (c \o buffered) \o (h1 \o h2)
    BY ZenonT(60), <1>3, <2>3, ConcatBytes
  <2>5. (c \o (buffered \o h1)) \o h2 = (c \o buffered) \o hand
    BY <1>4, <2>2, <2>4
  <2> QED
    BY <2>5 DEF c
<1>6. Frames(read, popped, buffered \o h1, h2, us)
  BY <1>1, <1>5, Zenon DEF Frames
<1>7. IsFramed(read, popped, buffered \o h1, h2)
  BY <1>6, Zenon DEF IsFramed
<1> QED
  BY <1>7 DEF h1, h2

\* The entries the reader has not applied do not go back further than the
\* bytes in hand and some of one entry.
Trails(read, popped, hand) ==
    \E vs \in Seq(Logged) :
       /\ popped = read.entries \o vs
       /\ vs # <<>> => Len(Bytes(vs)) < Len(Encode(vs[1])) + Len(hand)

\* A full sector, or one whose padding the reader recognizes, is written.
LEMMA FrameWrite ==
    ASSUME NEW read \in ReaderState, ~read.stopped, NEW popped,
           NEW buffered \in Seq(Nat), Len(buffered) <= SectorPayload, NEW hand \in Seq(Nat),
           IsFramed(read, popped, buffered, hand),
           Len(buffered) = SectorPayload \/ hand = <<>>
    PROVE  /\ ReadSector(read, Padded(buffered)) \in ReaderState
           /\ ~ReadSector(read, Padded(buffered)).stopped
           /\ IsPrefix(ReadSector(read, Padded(buffered)).entries, popped)
           /\ Trails(ReadSector(read, Padded(buffered)), popped, hand)
           /\ (Len(buffered) = SectorPayload \/ SectorPayload - Len(buffered) >= MinPadding)
                 => IsFramed(ReadSector(read, Padded(buffered)), popped, <<>>, hand)
<1> DEFINE next == ReadSector(read, Padded(buffered))
           m == SectorPayload - Len(buffered)
           x == read.carry \o buffered
           scan == ScanSector(read.carry \o (buffered \o Zeros(m)))
<1>1. PICK us \in Seq(Logged) : Frames(read, popped, buffered, hand, us)
  BY DEF IsFramed
<1>2. read.entries \in Seq(Entry) /\ read.carry \in Seq(Nat) /\ read.stopped \in BOOLEAN
  BY DEF ReaderState
<1>3. m \in Nat
  BY FramingAssumption
<1>4. Zeros(m) \in Seq(Nat)
  BY <1>3, PaddingScan
<1>5. next \in ReaderState
  <2>1. Padded(buffered) \in Sector
    BY PaddedType
  <2> QED
    BY <2>1, ReadStep
<1>6. next = [entries |-> read.entries \o scan.entries, carry |-> scan.carry, stopped |-> FALSE]
  <2>1. Padded(buffered) = [payload |-> buffered \o Zeros(m), crc_ok |-> TRUE]
    BY DEF Padded
  <2> HIDE DEF m
  <2> QED
    BY <2>1 DEF ReadSector
<1>7. ~next.stopped
  BY <1>6
<1>8. x \in Seq(Nat) /\ read.carry \o (buffered \o Zeros(m)) = x \o Zeros(m)
  <2>1. x \in Seq(Nat)
    BY <1>2, JoinBytes
  <2> DEFINE c == read.carry
             z == Zeros(m)
  <2>2. c \in Seq(Nat) /\ z \in Seq(Nat)
    BY <1>2, <1>4
  <2> HIDE DEF c, z
  <2>3. (c \o buffered) \o z = c \o (buffered \o z)
    BY ZenonT(60), <2>2, ConcatBytes
  <2> QED
    BY <2>1, <2>3 DEF c, z
<1>9. popped = read.entries \o us /\ x \o hand = Bytes(us)
  BY <1>1 DEF Frames
<1>10. ASSUME NEW u1 \in Seq(Logged), NEW u2 \in Seq(Logged), us = u1 \o u2, scan.entries = u1
       PROVE  popped = next.entries \o u2 /\ IsPrefix(next.entries, popped)
  <2>1. u1 \in Seq(Entry) /\ u2 \in Seq(Entry)
    BY LoggedAreEntries
  <2>n. next.entries = read.entries \o scan.entries
    <3> HIDE DEF next, scan, m, x
    <3> QED
      BY <1>6
  <2>2. next.entries = read.entries \o u1
    <3> HIDE DEF next, scan, m, x
    <3> QED
      BY <2>n, <1>10
  <2>3. (read.entries \o u1) \o u2 = read.entries \o (u1 \o u2)
    BY <1>2, <2>1, ConcatEntries
  <2>4. popped = next.entries \o u2
    BY <1>9, <1>10, <2>2, <2>3
  <2>5. next.entries \in Seq(Entry)
    BY <1>5 DEF ReaderState
  <2>6. IsPrefix(next.entries, next.entries \o u2)
    <3> HIDE DEF next
    <3> QED
      BY <2>1, <2>5, PrefixConcat
  <2> HIDE DEF next
  <2> QED
    BY <2>4, <2>6
<1> HIDE DEF x
<1>11. CASE Len(buffered) = SectorPayload
  <2>1. m = 0
    BY <1>11, FramingAssumption
  <2>2. x \o Zeros(m) = x
    <3>1. Zeros(0) = <<>>
      BY DEF Zeros
    <3> HIDE DEF m
    <3> QED
      BY <1>8, <2>1, <3>1, ConcatEmptySeq
  <2>3. scan = ScanSector(x)
    <3> HIDE DEF m
    <3> QED
      BY <1>8, <2>2
  <2> HIDE DEF m, scan, next
  <2>a. ScanSplits(us, x, hand)
    BY <1>8, <1>9, PrefixScan
  <2>4. PICK u1 \in Seq(Logged), vs \in Seq(Logged) :
              /\ us = u1 \o vs
              /\ ScanSector(x).entries = u1
              /\ ScanSector(x).carry \in Seq(Nat)
              /\ ScanSector(x).carry \o hand = Bytes(vs)
              /\ vs = <<>> => ScanSector(x).carry = <<>>
              /\ vs # <<>> => Len(ScanSector(x).carry) < Len(Encode(vs[1]))
    BY <2>a, Zenon DEF ScanSplits
  <2>5. popped = next.entries \o vs /\ IsPrefix(next.entries, popped)
    BY <1>10, <2>3, <2>4
  <2>6. next.carry = scan.carry /\ scan.carry \in Seq(Nat) /\ scan.carry \o hand = Bytes(vs)
    BY <1>6, <2>3, <2>4
  <2>7. IsFramed(next, popped, <<>>, hand)
    <3>1. scan.carry \o <<>> = scan.carry
      BY <2>6, ConcatEmptySeq
    <3>2. (next.carry \o <<>>) \o hand = Bytes(vs)
      BY <2>6, <3>1
    <3>3. Frames(next, popped, <<>>, hand, vs)
      BY <2>5, <3>2, Zenon DEF Frames
    <3> QED
      BY <3>3, Zenon DEF IsFramed
  <2>8. Trails(next, popped, hand)
    <3>1. ASSUME vs # <<>> PROVE Len(Bytes(vs)) < Len(Encode(vs[1])) + Len(hand)
      <4>1. Len(scan.carry) < Len(Encode(vs[1]))
        BY <2>3, <2>4, <3>1
      <4>2. Len(Bytes(vs)) = Len(scan.carry) + Len(hand)
        BY <2>6, JoinBytes
      <4>3. vs[1] \in Logged
        BY <3>1
      <4>4. Len(Encode(vs[1])) \in Nat
        BY <4>3, EncodedEntry
      <4>5. Len(scan.carry) \in Nat /\ Len(hand) \in Nat
        BY <2>6
      <4> QED
        BY <4>1, <4>2, <4>4, <4>5
    <3> QED
      BY <2>5, <3>1, Zenon DEF Trails
  <2> QED
    BY <1>5, <1>7, <2>5, <2>7, <2>8 DEF next
<1>12. CASE Len(buffered) # SectorPayload
  <2>1. hand = <<>> /\ x = Bytes(us)
    <3>1. hand = <<>>
      BY <1>12
    <3> QED
      BY <1>8, <1>9, <3>1, ConcatEmptySeq
  <2>2. ScanSector(Zeros(m)).entries = <<>> /\ (m >= MinPadding => ScanSector(Zeros(m)).carry = <<>>)
    <3> HIDE DEF m
    <3> QED
      BY <1>3, PaddingScan
  <2>3. scan.entries = us /\ scan.carry = ScanSector(Zeros(m)).carry
    <3>1. /\ ScanSector(Bytes(us) \o Zeros(m)).entries = us \o ScanSector(Zeros(m)).entries
          /\ ScanSector(Bytes(us) \o Zeros(m)).carry = ScanSector(Zeros(m)).carry
      <4> HIDE DEF m
      <4> QED
        BY <1>4, WholeScan
    <3>2. scan = ScanSector(Bytes(us) \o Zeros(m))
      <4> HIDE DEF m
      <4> QED
        BY <1>8, <2>1
    <3>3. us \o <<>> = us
      OBVIOUS
    <3> HIDE DEF m, scan
    <3> QED
      BY <2>2, <3>1, <3>2, <3>3
  <2>4. <<>> \in Seq(Logged) /\ us \o <<>> = us
    OBVIOUS
  <2> HIDE DEF m, scan, next
  <2>5. popped = next.entries \o <<>> /\ IsPrefix(next.entries, popped)
    BY <1>10, <2>3, <2>4
  <2>6. Trails(next, popped, hand)
    BY <2>4, <2>5, Zenon DEF Trails
  <2>7. ASSUME m >= MinPadding PROVE IsFramed(next, popped, <<>>, hand)
    <3>1. next.carry = <<>>
      BY <1>6, <2>2, <2>3, <2>7
    <3>2. (<<>> \o <<>>) \o <<>> = <<>>
      OBVIOUS
    <3>3. (next.carry \o <<>>) \o hand = Bytes(<<>>)
      BY <3>1, <3>2, <2>1, BytesEmpty
    <3>4. Frames(next, popped, <<>>, hand, <<>>)
      BY <2>5, <3>3, Zenon DEF Frames
    <3> QED
      BY <2>4, <3>4, Zenon DEF IsFramed
  <2> QED
    BY <1>5, <1>7, <1>12, <2>5, <2>6, <2>7 DEF next, m
<1> QED
  BY <1>11, <1>12

-----------------------------------------------------------------------------
(* Every image of the log replays to a prefix of what was pushed, as long  *)
(* as no checkpoint is taken, no segment rotated, no write fails and the   *)
(* daemon is not restarted: each of them may leave the reader in the       *)
(* middle of an entry.                                                     *)

Undisturbed == ~(PopCheckpoint \/ Rotate \/ RotateFails \/ WriteFails \/ Boot)

Popped == LoggedFrom(pushed, 0)[head]
Read == ReadStates(live)[Len(live)]
Buffered == IF pc = "sync" THEN <<>> ELSE sector_buffer

(* The last sector, padded by any amount, is written. *)
Ended ==
    \/ pc \in {"close", "down"}
    \/ pc \in {"sync", "publish", "rotate"} /\ back = "close"

ReplayControl ==
    /\ NoArchive
    /\ recovered = <<>>
    /\ log_start = 0
    /\ pc \in {"loop", "copy", "write", "sync", "publish", "rotate", "close", "down"}
    /\ back \in {"loop", "copy", "close"}
    /\ owner = "loop"
    /\ rest # <<>> =>
          \/ pc = "copy"
          \/ pc \in {"write", "sync", "publish", "rotate"} /\ back = "copy"
    /\ pc = "write" =>
          \/ Len(sector_buffer) = SectorPayload
          \/ /\ rest = <<>>
             /\ back = "close" \/ SectorPayload - Len(sector_buffer) >= MinPadding

ReplayReads == \A k \in 0 .. Len(live) : IsPrefix(ReadStates(live)[k].entries, Popped)

ReplayFrame == Ended \/ (~Read.stopped /\ IsFramed(Read, Popped, Buffered, rest))

ReplayInv == ReplayControl /\ ReplayReads /\ ReplayFrame

LEMMA ReplayTypes ==
    ASSUME WalInv
    PROVE  /\ live \in Seq(Sector) /\ Len(live) \in Nat
           /\ \A k \in 0 .. Len(live) : ReadStates(live)[k] \in ReaderState
           /\ Read \in ReaderState
           /\ pushed \in Seq(Deltas) /\ tail \in Nat /\ head \in 0 .. tail
           /\ Popped \in Seq(Logged)
           /\ sector_buffer \in Seq(Nat) /\ Len(sector_buffer) \in Nat
           /\ Len(sector_buffer) <= SectorPayload
           /\ rest \in Seq(Nat) /\ Len(rest) \in Nat
           /\ Buffered \in Seq(Nat)
<1>1. live \in Seq(Sector) /\ Len(live) \in Nat /\ Len(live) \in 0 .. Len(live)
  BY DEF WalInv, TypeOK, DiskTyped
<1>2. \A k \in 0 .. Len(live) : ReadStates(live)[k] \in ReaderState
  BY <1>1, ReadType
<1>3. pushed \in Seq(Deltas) /\ tail \in Nat /\ head \in 0 .. tail
  BY DEF WalInv, TypeOK, RingTyped, tail
<1>4. Popped \in Seq(Logged)
  BY <1>3, LoggedType DEF Popped, tail
<1>5. /\ sector_buffer \in Seq(Nat) /\ Len(sector_buffer) \in Nat /\ Len(sector_buffer) <= SectorPayload
      /\ rest \in Seq(Nat) /\ Len(rest) \in Nat
  BY DEF WalInv, TypeOK, FlusherTyped
<1>6. Buffered \in Seq(Nat)
  BY <1>5 DEF Buffered
<1> QED
  BY <1>1, <1>2, <1>3, <1>4, <1>5, <1>6 DEF Read

LEMMA PoppedPush ==
    ASSUME WalInv, NEW d, pushed' = Append(pushed, d), head' = head
    PROVE  Popped' = Popped
<1>1. pushed \in Seq(Deltas) /\ tail \in Nat /\ head \in 0 .. tail
  BY ReplayTypes
<1>2. Len(pushed') \in Nat /\ Len(pushed) <= Len(pushed') /\ \A k \in 1 .. Len(pushed) : pushed'[k] = pushed[k]
  BY <1>1 DEF tail
<1> DEFINE n == Len(pushed)
           t == pushed'
<1>3. /\ n \in Nat /\ 0 \in Nat /\ n <= Len(pushed) /\ n <= Len(t) /\ Len(t) \in Nat
      /\ Len(pushed) \in Nat /\ \A k \in 1 .. n : t[k] = pushed[k]
  BY <1>1, <1>2 DEF tail
<1>4. head \in 0 .. n
  BY <1>1 DEF tail
<1> HIDE DEF n, t
<1>5. \A k \in 0 .. n : LoggedFrom(t, 0)[k] = LoggedFrom(pushed, 0)[k]
  BY <1>3, LoggedAgree
<1> QED
  BY <1>4, <1>5 DEF Popped, t

LEMMA PoppedPop ==
    ASSUME WalInv, pushed' = pushed, head' = head + 1, head < tail
    PROVE  /\ pushed[head + 1] \in Deltas
           /\ Popped' = IF Loggable(pushed[head + 1]) THEN Append(Popped, pushed[head + 1]) ELSE Popped
<1>1. pushed \in Seq(Deltas) /\ Len(pushed) \in Nat /\ head \in 0 .. Len(pushed)
  BY ReplayTypes DEF tail
<1>2. head + 1 \in 1 .. Len(pushed) /\ head + 1 > 0 /\ (head + 1) - 1 = head
  BY <1>1 DEF tail
<1>3. LoggedFrom(pushed, 0)[head + 1] =
          IF Loggable(pushed[head + 1]) THEN Append(LoggedFrom(pushed, 0)[head], pushed[head + 1])
          ELSE LoggedFrom(pushed, 0)[head]
  BY <1>1, <1>2, LoggedEquation
<1>4. pushed[head + 1] \in Deltas
  BY <1>1, <1>2
<1> QED
  BY <1>3, <1>4 DEF Popped

LEMMA ReplayInit == Init => ReplayInv
<1> SUFFICES ASSUME Init PROVE ReplayInv
  OBVIOUS
<1>1. ReplayControl
  BY WalAssumption DEF Init, ReplayControl, NoArchive
<1>2. Len(<<>>) = 0 /\ pushed = <<>> /\ live = <<>> /\ head = 0
  BY DEF Init
<1>3. Popped = <<>>
  BY <1>2, LoggedEquation DEF Popped
<1>4. Read = Unread /\ ReadStates(live)[0] = Unread
  BY <1>2, ReadStatesEquation DEF Read
<1>5. ReplayReads
  <2>1. <<>> \in Seq(Entry)
    OBVIOUS
  <2>2. IsPrefix(<<>>, <<>>)
    <3>1. Len(<<>>) <= Len(<<>>) /\ \A i \in 1 .. Len(<<>>) : <<>>[i] = <<>>[i]
      OBVIOUS
    <3> QED
      BY <2>1, <3>1, PrefixMeaning, Zenon
  <2> QED
    BY <1>2, <1>3, <1>4, <2>2 DEF ReplayReads, Unread
<1>6. ReplayFrame
  <2>1. Unread.entries = <<>> /\ Unread.carry = <<>> /\ ~Unread.stopped
    BY DEF Unread
  <2>2. Buffered = <<>> /\ rest = <<>>
    BY DEF Buffered, Init
  <2>3. (<<>> \o <<>>) \o <<>> = <<>> /\ <<>> \o <<>> = <<>> /\ <<>> \in Seq(Logged)
    OBVIOUS
  <2>4. Frames(Read, Popped, Buffered, rest, <<>>)
    BY <1>3, <1>4, <2>1, <2>2, <2>3, BytesEmpty DEF Frames
  <2>5. IsFramed(Read, Popped, Buffered, rest)
    BY <2>3, <2>4, Zenon DEF IsFramed
  <2> QED
    BY <1>4, <2>1, <2>5 DEF ReplayFrame
<1> QED
  BY <1>1, <1>5, <1>6 DEF ReplayInv

\* A step that moves no bytes.
LEMMA ReplayQuiet ==
    ASSUME ReplayInv, ReplayControl', live' = live, rest' = rest, Buffered' = Buffered,
           Popped' = Popped, Ended => Ended'
    PROVE  ReplayInv'
<1>1. Read' = Read
  BY DEF Read
<1>2. ReplayReads'
  <2>1. \A k \in 0 .. Len(live') : ReadStates(live')[k] = ReadStates(live)[k]
    OBVIOUS
  <2> QED
    BY <2>1 DEF ReplayInv, ReplayReads
<1>3. ReplayFrame'
  <2>1. CASE Ended
    BY <2>1 DEF ReplayFrame
  <2>2. CASE ~Read.stopped /\ IsFramed(Read, Popped, Buffered, rest)
    <3>1. ~Read'.stopped /\ IsFramed(Read', Popped', Buffered', rest')
      BY <1>1, <2>2, Zenon
    <3> QED
      BY <3>1, Zenon DEF ReplayFrame
  <2> QED
    BY <2>1, <2>2, Zenon DEF ReplayInv, ReplayFrame
<1> QED
  BY <1>2, <1>3, Zenon DEF ReplayInv

LEMMA ReplayClients ==
    ASSUME WalInv, ReplayInv,
           (\E d \in Deltas : Push(d)) \/ CommitBegin \/ CommitOk \/ CommitTimeout \/ RequestShutdown
    PROVE  ReplayInv'
<1>1. /\ UNCHANGED <<archive, recovered, log_start, pc, back, owner, rest, sector_buffer, live>>
      /\ Popped' = Popped
  <2>1. ASSUME NEW d \in Deltas, Push(d)
        PROVE  /\ UNCHANGED <<archive, recovered, log_start, pc, back, owner, rest, sector_buffer, live>>
               /\ Popped' = Popped
    BY <2>1, PoppedPush DEF Push, control, manager, disk, history
  <2>2. CASE CommitBegin \/ CommitOk \/ CommitTimeout
    BY <2>2 DEF CommitBegin, CommitOk, CommitTimeout, ringVars, control, manager, disk, history, Popped
  <2>3. CASE RequestShutdown
    BY <2>3 DEF RequestShutdown, ringVars, control, manager, disk, Popped
  <2> QED
    BY <2>1, <2>2, <2>3
<1>2. ReplayControl'
  BY <1>1 DEF ReplayInv, ReplayControl, NoArchive
<1>3. Buffered' = Buffered /\ (Ended => Ended')
  BY <1>1 DEF Buffered, Ended
<1> QED
  BY <1>1, <1>2, <1>3, ReplayQuiet

LEMMA ReplayPops ==
    ASSUME WalInv, ReplayInv, PopDelta \/ PopDropped
    PROVE  ReplayInv'
<1>1. /\ pc = "loop" /\ head < tail /\ pushed' = pushed /\ head' = head + 1
      /\ UNCHANGED <<archive, recovered, log_start, back, sector_buffer, live>>
  <2>1. /\ Polling /\ head < tail /\ pushed' = pushed /\ head' = head + 1
        /\ UNCHANGED <<archive, recovered, log_start, back, sector_buffer, live>>
    <3>1. CASE PopDelta
      BY <3>1 DEF PopDelta, manager, disk, history
    <3>2. CASE PopDropped
      BY <3>2 DEF PopDropped, control, manager, disk, history
    <3> QED
      BY <3>1, <3>2
  <2>2. pc = "loop"
    BY <2>1 DEF Polling, ReplayInv, ReplayControl
  <2> QED
    BY <2>1, <2>2
<1>2. /\ pushed[head + 1] \in Deltas
      /\ Popped' = IF Loggable(pushed[head + 1]) THEN Append(Popped, pushed[head + 1]) ELSE Popped
  BY <1>1, PoppedPop
<1>3. rest = <<>>
  BY <1>1 DEF ReplayInv, ReplayControl
<1>4. CASE PopDropped
  <2>1. pc' = pc /\ rest' = rest /\ owner' = owner /\ ~Loggable(pushed[head + 1])
    BY <1>4 DEF PopDropped, control
  <2>2. Popped' = Popped
    BY <1>2, <2>1
  <2>3. ReplayControl'
    BY <1>1, <2>1 DEF ReplayInv, ReplayControl, NoArchive
  <2>4. Buffered' = Buffered /\ (Ended => Ended')
    BY <1>1, <2>1 DEF Buffered, Ended
  <2> QED
    BY <1>1, <2>1, <2>2, <2>3, <2>4, ReplayQuiet
<1>5. CASE PopDelta
  <2> DEFINE d == pushed[head + 1]
  <2>1. pc' = "copy" /\ rest' = Encode(d) /\ owner' = pc /\ Loggable(d)
    BY <1>5 DEF PopDelta
  <2>2. d \in Logged /\ Popped' = Append(Popped, d)
    BY <1>2, <2>1 DEF Logged
  <2> HIDE DEF d
  <2>3. ReplayControl'
    BY <1>1, <2>1 DEF ReplayInv, ReplayControl, NoArchive
  <2>4. Read' = Read /\ Buffered' = sector_buffer /\ Buffered = sector_buffer
    BY <1>1, <2>1 DEF Read, Buffered
  <2>5. ReplayReads'
    <3> SUFFICES ASSUME NEW k \in 0 .. Len(live) PROVE IsPrefix(ReadStates(live)[k].entries, Popped')
      BY <1>1 DEF ReplayReads
    <3>1. ReadStates(live)[k].entries \in Seq(Entry)
      <4>1. ReadStates(live)[k] \in ReaderState
        BY ReplayTypes
      <4> QED
        BY <4>1 DEF ReaderState
    <3>2. Popped \in Seq(Entry) /\ <<d>> \in Seq(Entry) /\ d \in Entry
      BY <2>2, ReplayTypes, LoggedAreEntries
    <3>3. IsPrefix(ReadStates(live)[k].entries, Popped)
      BY DEF ReplayInv, ReplayReads
    <3>4. Popped' = Popped \o <<d>>
      BY <2>2, <3>2, AppendIsConcat
    <3>5. IsPrefix(Popped, Popped \o <<d>>) /\ Popped \o <<d>> \in Seq(Entry)
      BY <3>2, PrefixConcat
    <3> QED
      BY <3>1, <3>2, <3>3, <3>4, <3>5, PrefixChain
  <2>6. ReplayFrame'
    <3>1. ~Ended
      BY <1>1 DEF Ended
    <3>2. ~Read.stopped /\ IsFramed(Read, Popped, sector_buffer, <<>>)
      <4>1. ~Read.stopped /\ IsFramed(Read, Popped, Buffered, rest)
        BY <3>1, Zenon DEF ReplayInv, ReplayFrame
      <4> QED
        BY <1>3, <2>4, <4>1, Zenon
    <3>3. IsFramed(Read, Append(Popped, d), sector_buffer, Encode(d))
      BY <2>2, <3>2, ReplayTypes, FramePop
    <3>4. ~Read'.stopped /\ IsFramed(Read', Popped', Buffered', rest')
      BY <2>1, <2>2, <2>4, <3>2, <3>3, Zenon
    <3> QED
      BY <3>4, Zenon DEF ReplayFrame
  <2> QED
    BY <2>3, <2>5, <2>6, Zenon DEF ReplayInv
<1> QED
  BY <1>4, <1>5

LEMMA ReplayFlushes ==
    ASSUME WalInv, ReplayInv, IdleFlush \/ FinalFlush \/ CopyDone \/ PublishDurable \/ RotateAtCap \/ Close
    PROVE  ReplayInv'
<1>1. UNCHANGED <<archive, recovered, log_start, owner, rest, sector_buffer, live, pushed, head>>
  <2>1. CASE IdleFlush
    BY <2>1 DEF IdleFlush, ringVars, manager, disk, history
  <2>2. CASE FinalFlush
    BY <2>2 DEF FinalFlush, ringVars, manager, disk, history
  <2>3. CASE CopyDone \/ RotateAtCap
    BY <2>3 DEF CopyDone, RotateAtCap, ringVars, manager, disk, history
  <2>4. CASE PublishDurable
    BY <2>4 DEF PublishDurable, manager, disk, history
  <2>5. CASE Close
    BY <2>5 DEF Close, ringVars, disk, history
  <2> QED
    BY <2>1, <2>2, <2>3, <2>4, <2>5
<1>2. Popped' = Popped
  BY <1>1 DEF Popped
<1>3. ReplayControl' /\ Buffered' = Buffered /\ (Ended => Ended')
  <2>1. CASE IdleFlush
    <3>1. pc = "loop" /\ Flush(FALSE, "loop")
      BY <2>1 DEF IdleFlush
    <3>2. ~(SectorPayload - Len(sector_buffer) < MinPadding) => SectorPayload - Len(sector_buffer) >= MinPadding
      BY ReplayTypes, FramingAssumption DEF MinPadding, HeaderSize
    <3>3. rest = <<>>
      BY <3>1 DEF ReplayInv, ReplayControl
    <3> QED
      BY <1>1, <3>1, <3>2, <3>3 DEF Flush, ReplayInv, ReplayControl, NoArchive, Buffered, Ended
  <2>2. CASE FinalFlush
    <3>1. pc = "loop" /\ Flush(TRUE, "close")
      BY <2>2 DEF FinalFlush
    <3> QED
      BY <1>1, <3>1 DEF Flush, ReplayInv, ReplayControl, NoArchive, Buffered, Ended
  <2>3. CASE CopyDone
    <3>1. pc = "copy" /\ rest = <<>> /\ pc' = owner /\ back' = back
      BY <2>3 DEF CopyDone
    <3> QED
      BY <1>1, <3>1 DEF ReplayInv, ReplayControl, NoArchive, Buffered, Ended
  <2>4. CASE PublishDurable
    <3>1. pc = "publish" /\ pc' \in {"rotate", back} /\ back' = back
      BY <2>4 DEF PublishDurable, AfterFlush
    <3> QED
      BY <1>1, <3>1 DEF ReplayInv, ReplayControl, NoArchive, Buffered, Ended
  <2>5. CASE RotateAtCap
    <3>1. pc = "rotate" /\ pc' = back /\ back' = back
      BY <2>5 DEF RotateAtCap
    <3> QED
      BY <1>1, <3>1 DEF ReplayInv, ReplayControl, NoArchive, Buffered, Ended
  <2>6. CASE Close
    <3>1. pc = "close" /\ pc' = "down" /\ back' = back
      BY <2>6 DEF Close
    <3> QED
      BY <1>1, <3>1 DEF ReplayInv, ReplayControl, NoArchive, Buffered, Ended
  <2> QED
    BY <2>1, <2>2, <2>3, <2>4, <2>5, <2>6
<1> QED
  BY <1>1, <1>2, <1>3, ReplayQuiet

\* A sector more to read.
LEMMA ReadAppended ==
    ASSUME NEW file \in Seq(Sector), NEW sector \in Sector
    PROVE  /\ Append(file, sector) \in Seq(Sector)
           /\ Len(Append(file, sector)) = Len(file) + 1
           /\ \A k \in 0 .. Len(file) : ReadStates(Append(file, sector))[k] = ReadStates(file)[k]
           /\ ReadStates(Append(file, sector))[Len(file) + 1] =
                 ReadSector(ReadStates(file)[Len(file)], sector)
<1> DEFINE longer == Append(file, sector)
           n == Len(file)
<1>1. /\ longer \in Seq(Sector) /\ Len(longer) = n + 1 /\ longer[n + 1] = sector
      /\ n \in Nat /\ Len(longer) \in Nat /\ n <= Len(longer) /\ Len(file) \in Nat /\ n <= Len(file)
      /\ \A k \in 1 .. n : longer[k] = file[k]
  OBVIOUS
<1>2. n + 1 \in 1 .. Len(longer) /\ (n + 1) - 1 = n /\ n \in 0 .. n
  BY <1>1
<1> HIDE DEF longer, n
<1>3. \A k \in 0 .. n : ReadStates(longer)[k] = ReadStates(file)[k]
  BY <1>1, ReadStatesAgree
<1>4. ReadStates(longer)[n + 1] = ReadSector(ReadStates(longer)[n], sector)
  BY <1>1, <1>2, ReadStatesEquation
<1> QED
  BY <1>1, <1>2, <1>3, <1>4 DEF longer, n

LEMMA ReplayCopies ==
    ASSUME WalInv, ReplayInv, CopyBytes
    PROVE  ReplayInv'
<1> DEFINE space == SectorPayload - Len(sector_buffer)
           n == IF space < Len(rest) THEN space ELSE Len(rest)
           h1 == SubSeq(rest, 1, n)
           h2 == SubSeq(rest, n + 1, Len(rest))
<1>1. /\ pc = "copy" /\ sector_buffer' = sector_buffer \o h1 /\ rest' = h2
      /\ IF n = space THEN pc' = "write" /\ back' = "copy" ELSE pc' = "copy" /\ back' = back
      /\ UNCHANGED <<archive, recovered, log_start, owner, live, pushed, head>>
  BY DEF CopyBytes, ringVars, disk, history
<1>2. n \in 0 .. Len(rest)
  BY ReplayTypes, FramingAssumption
<1>3. h1 \in Seq(Nat) /\ Len(h1) = n /\ h2 \in Seq(Nat)
  <2> HIDE DEF n
  <2> QED
    BY <1>2, CutSequence, ReplayTypes
<1>4. n = space => Len(sector_buffer') = SectorPayload
  <2>1. Len(sector_buffer \o h1) = Len(sector_buffer) + Len(h1)
    BY <1>3, JoinBytes, ReplayTypes
  <2>2. Len(sector_buffer') = Len(sector_buffer) + n
    BY <1>1, <1>3, <2>1
  <2> HIDE DEF n
  <2> QED
    BY <2>2, ReplayTypes, FramingAssumption
<1>5. Popped' = Popped /\ Read' = Read
  BY <1>1 DEF Popped, Read
<1>6. pc' \in {"write", "copy"} /\ (pc' = "write" => n = space /\ back' = "copy") /\ back' \in {back, "copy"}
  <2> HIDE DEF n, space
  <2> QED
    BY <1>1
<1> HIDE DEF n, space, h1, h2
<1>7. ReplayControl'
  BY <1>1, <1>4, <1>6 DEF ReplayInv, ReplayControl, NoArchive
<1>8. ReplayReads'
  BY <1>1, <1>5 DEF ReplayInv, ReplayReads
<1>9. ReplayFrame'
  <2>1. ~Ended /\ Buffered = sector_buffer /\ Buffered' = sector_buffer'
    BY <1>1, <1>6 DEF Ended, Buffered
  <2>2. ~Read.stopped /\ IsFramed(Read, Popped, sector_buffer, rest)
    <3>1. ~Read.stopped /\ IsFramed(Read, Popped, Buffered, rest)
      BY <2>1, Zenon DEF ReplayInv, ReplayFrame
    <3> QED
      BY <2>1, <3>1, Zenon
  <2>3. IsFramed(Read, Popped, sector_buffer \o h1, h2)
    BY <1>2, <2>2, FrameCopy, ReplayTypes DEF h1, h2
  <2>4. ~Read'.stopped /\ IsFramed(Read', Popped', Buffered', rest')
    BY <1>1, <1>5, <2>1, <2>2, <2>3, Zenon
  <2> QED
    BY <2>4, Zenon DEF ReplayFrame
<1> QED
  BY <1>7, <1>8, <1>9, Zenon DEF ReplayInv

\* What the reader makes of the sector that is written.
LEMMA SectorRead ==
    ASSUME WalInv, ReplayInv, WriteSector
    PROVE  /\ live' \in Seq(Sector) /\ Len(live') = Len(live) + 1
           /\ \A k \in 0 .. Len(live) : ReadStates(live')[k] = ReadStates(live)[k]
           /\ ReadStates(live')[Len(live) + 1] = Read'
           /\ Read' \in ReaderState
           /\ ~Read'.stopped
           /\ IsPrefix(Read'.entries, Popped)
           /\ Trails(Read', Popped, rest)
           /\ Len(sector_buffer) = SectorPayload \/ SectorPayload - Len(sector_buffer) >= MinPadding
                => IsFramed(Read', Popped, <<>>, rest)
<1>1. pc = "write" /\ live' = Append(live, Padded(sector_buffer))
  BY DEF WriteSector
<1>2. Padded(sector_buffer) \in Sector
  BY PaddedType, ReplayTypes
<1>3. /\ live' \in Seq(Sector) /\ Len(live') = Len(live) + 1
      /\ \A k \in 0 .. Len(live) : ReadStates(live')[k] = ReadStates(live)[k]
      /\ ReadStates(live')[Len(live) + 1] = ReadSector(Read, Padded(sector_buffer))
  BY <1>1, <1>2, ReplayTypes, ReadAppended DEF Read
<1>4. Read' = ReadSector(Read, Padded(sector_buffer))
  BY <1>3 DEF Read
<1>5. ~Read.stopped /\ IsFramed(Read, Popped, sector_buffer, rest)
  <2>1. ~Ended /\ Buffered = sector_buffer
    BY <1>1 DEF Ended, Buffered
  <2>2. ~Read.stopped /\ IsFramed(Read, Popped, Buffered, rest)
    BY <2>1, Zenon DEF ReplayInv, ReplayFrame
  <2> QED
    BY <2>1, <2>2, Zenon
<1>6. Len(sector_buffer) = SectorPayload \/ rest = <<>>
  BY <1>1 DEF ReplayInv, ReplayControl
<1> DEFINE next == ReadSector(Read, Padded(sector_buffer))
<1>7. /\ next \in ReaderState
      /\ ~next.stopped
      /\ IsPrefix(next.entries, Popped)
      /\ Trails(next, Popped, rest)
      /\ Len(sector_buffer) = SectorPayload \/ SectorPayload - Len(sector_buffer) >= MinPadding
           => IsFramed(next, Popped, <<>>, rest)
  BY <1>5, <1>6, FrameWrite, ReplayTypes
<1> HIDE DEF next
<1>8. Read' = next
  BY <1>4 DEF next
<1> QED
  BY <1>3, <1>4, <1>7, <1>8 DEF next

LEMMA ReplayWrites ==
    ASSUME WalInv, ReplayInv, WriteSector
    PROVE  ReplayInv'
<1>1. /\ pc = "write" /\ pc' = "sync"
      /\ UNCHANGED <<archive, recovered, log_start, back, owner, rest, sector_buffer, pushed, head>>
  BY DEF WriteSector, ringVars, manager, history
<1>2. Popped' = Popped /\ Buffered' = <<>>
  BY <1>1 DEF Popped, Buffered
<1>3. ReplayControl'
  BY <1>1 DEF ReplayInv, ReplayControl, NoArchive
<1>4. ReplayReads'
  <2> SUFFICES ASSUME NEW k \in 0 .. Len(live') PROVE IsPrefix(ReadStates(live')[k].entries, Popped)
    BY <1>2 DEF ReplayReads
  <2>1. k \in 0 .. Len(live) \/ k = Len(live) + 1
    BY SectorRead, ReplayTypes
  <2>2. CASE k \in 0 .. Len(live)
    <3>1. ReadStates(live')[k] = ReadStates(live)[k]
      BY <2>2, SectorRead
    <3>2. IsPrefix(ReadStates(live)[k].entries, Popped)
      BY <2>2 DEF ReplayInv, ReplayReads
    <3> QED
      BY <3>1, <3>2
  <2>3. CASE k = Len(live) + 1
    <3>1. ReadStates(live')[k] = Read' /\ IsPrefix(Read'.entries, Popped)
      BY <2>3, SectorRead
    <3> QED
      BY <3>1
  <2> QED
    BY <2>1, <2>2, <2>3
<1>5. ReplayFrame'
  <2>1. CASE back = "close"
    BY <1>1, <2>1 DEF ReplayFrame, Ended
  <2>2. CASE back # "close"
    <3>1. Len(sector_buffer) = SectorPayload \/ SectorPayload - Len(sector_buffer) >= MinPadding
      BY <1>1, <2>2 DEF ReplayInv, ReplayControl
    <3>2. ~Read'.stopped /\ IsFramed(Read', Popped, <<>>, rest)
      BY <3>1, SectorRead
    <3>3. ~Read'.stopped /\ IsFramed(Read', Popped', Buffered', rest')
      BY <1>1, <1>2, <3>2, Zenon
    <3> QED
      BY <3>3, Zenon DEF ReplayFrame
  <2> QED
    BY <2>1, <2>2
<1> QED
  BY <1>3, <1>4, <1>5, Zenon DEF ReplayInv

LEMMA ReplaySyncs ==
    ASSUME WalInv, ReplayInv, SyncFile
    PROVE  ReplayInv'
<1>1. /\ pc = "sync" /\ pc' = "publish" /\ sector_buffer' = <<>>
      /\ UNCHANGED <<archive, recovered, log_start, back, owner, rest, live, pushed, head>>
  BY DEF SyncFile, ringVars, history
<1>2. Popped' = Popped
  BY <1>1 DEF Popped
<1>3. Buffered' = Buffered /\ (Ended => Ended')
  BY <1>1 DEF Buffered, Ended
<1>4. ReplayControl'
  BY <1>1 DEF ReplayInv, ReplayControl, NoArchive
<1> QED
  BY <1>1, <1>2, <1>3, <1>4, ReplayQuiet

LEMMA ReplayCrashes ==
    ASSUME WalInv, ReplayInv, Crash
    PROVE  ReplayInv'
<1>1. /\ live' \in LiveImages /\ pc' = "down" /\ rest' = <<>>
      /\ UNCHANGED <<archive, recovered, log_start, back, owner, pushed, head>>
  BY DEF Crash, ringVars, history
<1>2. Popped' = Popped
  BY <1>1 DEF Popped
<1>3. ReplayControl'
  BY <1>1 DEF ReplayInv, ReplayControl, NoArchive
<1>4. ReplayReads'
  <2>1. live \in Seq(Sector) /\ Len(live) \in Nat /\ synced \in 0 .. Len(live)
    BY DEF WalInv, TypeOK, DiskTyped
  <2>2. PICK k \in synced .. Len(live) :
            /\ k <= Len(live')
            /\ \A j \in 0 .. k : ReadStates(live')[j] = ReadStates(live)[j]
            /\ \A j \in k .. Len(live') : ReadStates(live')[j].entries = ReadStates(live)[k].entries
    BY <1>1, <2>1, ImagesRead
  <2>3. Len(live') \in Nat
    <3>1. live' \in Seq(Sector)
      BY <1>1, <2>1, ImagesRead
    <3> QED
      BY <3>1
  <2> SUFFICES ASSUME NEW j \in 0 .. Len(live') PROVE IsPrefix(ReadStates(live')[j].entries, Popped)
    BY <1>2 DEF ReplayReads
  <2>4. \A i \in 0 .. Len(live) : IsPrefix(ReadStates(live)[i].entries, Popped)
    BY DEF ReplayInv, ReplayReads
  <2>5. CASE j <= k
    <3>1. j \in 0 .. k /\ j \in 0 .. Len(live)
      BY <2>1, <2>5
    <3> QED
      BY <2>2, <2>4, <3>1
  <2>6. CASE j > k
    <3>1. j \in k .. Len(live') /\ k \in 0 .. Len(live)
      BY <2>1, <2>3, <2>6
    <3> QED
      BY <2>2, <2>4, <3>1
  <2> QED
    BY <2>1, <2>3, <2>5, <2>6
<1>5. ReplayFrame'
  BY <1>1 DEF ReplayFrame, Ended
<1> QED
  BY <1>3, <1>4, <1>5, Zenon DEF ReplayInv

LEMMA ReplayStep ==
    ASSUME WalInv, ReplayInv, [Next]_vars, [Undisturbed]_vars
    PROVE  ReplayInv'
<1>1. CASE UNCHANGED vars
  <2>1. UNCHANGED <<archive, recovered, log_start, pc, back, owner, rest, sector_buffer, live, pushed, head>>
    BY <1>1 DEF vars
  <2>2. Popped' = Popped /\ Buffered' = Buffered /\ (Ended => Ended')
    BY <2>1 DEF Popped, Buffered, Ended
  <2>3. ReplayControl'
    BY <2>1 DEF ReplayInv, ReplayControl, NoArchive
  <2> QED
    BY <2>1, <2>2, <2>3, ReplayQuiet
<1>2. CASE Undisturbed
  <2>1. CASE DrainFlush \/ Throttled \/ SnapEnter \/ SnapFlush \/ SnapPublish \/ SnapFails
             \/ SnapDelete \/ SnapTruncate \/ SnapReopenFails
    <3>1. pc \in {"drain", "throttle", "snap_drain", "snap_write", "snap_delete", "snap_truncate"}
      BY <2>1 DEF DrainFlush, Throttled, SnapEnter, SnapFlush, SnapPublish, SnapFails, SnapDelete,
                  SnapTruncate, SnapReopenFails
    <3> QED
      BY <3>1 DEF ReplayInv, ReplayControl
  <2> QED
    BY <1>1, <1>2, <2>1, ReplayClients, ReplayPops, ReplayFlushes, ReplayCopies, ReplayWrites, ReplaySyncs,
       ReplayCrashes DEF Next, FlusherStep, Undisturbed
<1> QED
  BY <1>1, <1>2

\* The log as ReplayIsPrefix and DurableButLast have it.
LEMMA EntriesAre ==
    ASSUME WalInv, NEW n \in 0 .. tail
    PROVE  /\ Entries(0, n) = LoggedFrom(pushed, 0)[n]
           /\ Entries(0, n) \in Seq(Entry)
<1>1. pushed \in Seq(Deltas) /\ Len(pushed) \in Nat /\ n \in 0 .. Len(pushed)
  BY ReplayTypes DEF tail
<1>2. LoggedFrom(pushed, 0)[n] \in Seq(Entry)
  <2>1. LoggedFrom(pushed, 0)[n] \in Seq(Logged)
    BY <1>1, LoggedType
  <2> QED
    BY <2>1, LoggedAreEntries
<1>3. Entries(0, n) = LoggedFrom(pushed, 0)[n]
  <2>1. CASE n = 0
    <3>1. LoggedFrom(pushed, 0)[0] = <<>>
      BY <1>1, LoggedEquation
    <3> QED
      BY <2>1, <3>1 DEF Entries
  <2>2. CASE n # 0
    BY <1>1, <2>2 DEF Entries
  <2> QED
    BY <2>1, <2>2
<1> QED
  BY <1>2, <1>3

\* What any image of the log replays to.
LEMMA ReplayOfImage ==
    ASSUME WalInv, NoArchive, NEW file \in LiveImages
    PROVE  \E k \in synced .. Len(live) : Replay(file, archive) = ReadStates(live)[k].entries
<1>1. live \in Seq(Sector) /\ synced \in 0 .. Len(live) /\ Len(live) \in Nat
  BY DEF WalInv, TypeOK, DiskTyped
<1>2. PICK k \in synced .. Len(live) :
          /\ k <= Len(file)
          /\ \A j \in k .. Len(file) : ReadStates(file)[j].entries = ReadStates(live)[k].entries
  BY <1>1, ImagesRead
<1>3. file \in Seq(Sector) /\ Len(file) \in Nat
  <2>1. file \in Seq(Sector)
    BY <1>1, ImagesRead
  <2> QED
    BY <2>1
<1>4. Replay(file, archive) = ReadStates(file)[Len(file)].entries
  BY <1>3, ReplayOfLive DEF NoArchive
<1>5. Len(file) \in k .. Len(file)
  BY <1>1, <1>2, <1>3
<1> QED
  BY <1>2, <1>4, <1>5

LEMMA ReplayHolds == WalInv /\ ReplayInv => ReplayIsPrefix
<1> SUFFICES ASSUME WalInv, ReplayInv, NEW file \in LiveImages
             PROVE  IsPrefix(Replay(file, archive), recovered \o Entries(log_start, head))
  BY DEF ReplayIsPrefix
<1>1. recovered = <<>> /\ log_start = 0 /\ NoArchive
  BY DEF ReplayInv, ReplayControl
<1>2. Entries(0, head) = Popped /\ Entries(0, head) \in Seq(Entry)
  BY EntriesAre, ReplayTypes DEF Popped
<1>3. <<>> \o Entries(0, head) = Popped
  BY <1>2, ConcatEmptySeq
<1>4. PICK k \in synced .. Len(live) : Replay(file, archive) = ReadStates(live)[k].entries
  BY <1>1, ReplayOfImage
<1>5. k \in 0 .. Len(live)
  BY DEF WalInv, TypeOK, DiskTyped
<1>6. IsPrefix(ReadStates(live)[k].entries, Popped)
  BY <1>5 DEF ReplayInv, ReplayReads
<1> QED
  BY <1>1, <1>3, <1>4, <1>6

(* Every image a crash can leave of the log replays to a prefix of what    *)
(* was pushed, none twice, none altered, for any deltas, any size of the   *)
(* sector, any interleaving of the clients with the flusher, and also when *)
(* fsyncs fail or the ring is shut down, in a lifetime without a           *)
(* checkpoint, a rotation or a failing write.                              *)
THEOREM ReplayCorrect == Spec /\ [][Undisturbed]_vars => []ReplayIsPrefix
<1>1. Init => ReplayInv
  BY ReplayInit
<1>2. WalInv /\ ReplayInv /\ [Next]_vars /\ [Undisturbed]_vars => ReplayInv'
  BY ReplayStep
<1>3. WalInv /\ ReplayInv => ReplayIsPrefix
  BY ReplayHolds
<1>4. Spec => []WalInv
  BY WalInvariant
<1> QED
  BY <1>1, <1>2, <1>3, <1>4, PTL DEF Spec

-----------------------------------------------------------------------------
(* All deltas below durable_tail but the last are in every image of the    *)
(* log: under the same conditions, as long as no fsync fails as well.      *)

DurableSync ==
    /\ pc = "publish" => synced = Len(live)
    /\ rest # <<>> =>
          head > 0 /\ Loggable(pushed[head]) /\ Len(rest) <= Len(Encode(pushed[head]))

ReadButLast == pc \in {"sync", "publish"} => Len(Read.entries) >= Len(Entries(0, head - 1))

SyncedButLast == Len(ReadStates(live)[synced].entries) >= Len(Entries(0, durable_tail - 1))

DurableInv == DurableSync /\ ReadButLast /\ SyncedButLast

\* A list of entries has the bytes of its first and of its last one.
LEMMA BytesEnds ==
    ASSUME NEW es \in Seq(Logged), es # <<>>
    PROVE  /\ Len(Bytes(es)) >= Len(Encode(es[1]))
           /\ Len(es) > 1 => Len(Bytes(es)) >= Len(Encode(es[1])) + Len(Encode(es[Len(es)]))
<1> DEFINE h == Head(es)
           t == Tail(es)
<1>1. /\ h \in Logged /\ h = es[1] /\ t \in Seq(Logged) /\ Len(t) = Len(es) - 1
      /\ Len(es) \in Nat /\ Len(es) > 0
      /\ Bytes(es) = Encode(h) \o Bytes(t)
  BY FirstAndRest
<1>2. Encode(h) \in Seq(Nat) /\ Bytes(t) \in Seq(Nat)
  BY <1>1, EncodedEntry, BytesType
<1>3. Len(Encode(h)) \in Nat /\ Len(Bytes(t)) \in Nat
  BY <1>2
<1>4. Len(Bytes(es)) = Len(Encode(h)) + Len(Bytes(t))
  BY <1>1, <1>2, JoinBytes
<1>5. ASSUME Len(es) > 1 PROVE Len(Bytes(t)) >= Len(Encode(es[Len(es)]))
  <2>1. t # <<>>
    <3>1. Len(t) > 0
      BY <1>1, <1>5
    <3> HIDE DEF t
    <3> QED
      BY <3>1
  <2>2. es[Len(es)] = t[Len(t)]
    BY <1>1, <1>5, HeadTailProperties
  <2> HIDE DEF t
  <2>3. PICK front \in Seq(Logged), last \in Logged : t = Append(front, last)
    BY <1>1, <2>1, SequenceEmptyOrAppend
  <2>4. t[Len(t)] = last
    BY <2>3
  <2>5. Bytes(t) = Bytes(front) \o Encode(last)
    BY <2>3, BytesAppend
  <2>6. Bytes(front) \in Seq(Nat) /\ Encode(last) \in Seq(Nat)
    BY BytesType, EncodedEntry
  <2>7. Len(Bytes(t)) = Len(Bytes(front)) + Len(Encode(last)) /\ Len(Bytes(front)) \in Nat
        /\ Len(Encode(last)) \in Nat
    BY <2>5, <2>6, JoinBytes
  <2> QED
    BY <2>2, <2>4, <2>7
<1>6. ASSUME Len(es) > 1 PROVE Len(Encode(es[Len(es)])) \in Nat
  <2>1. es[Len(es)] \in Logged
    BY <1>1
  <2>2. Encode(es[Len(es)]) \in Seq(Nat)
    BY <2>1, EncodedEntry
  <2> QED
    BY <2>2
<1> HIDE DEF h, t
<1> QED
  BY <1>1, <1>3, <1>4, <1>5, <1>6

\* Later positions have more entries; a pushed delta changes none.
LEMMA EntriesStep ==
    ASSUME WalInv, NEW n \in 0 .. tail, n > 0
    PROVE  Entries(0, n) = IF Loggable(pushed[n]) THEN Append(Entries(0, n - 1), pushed[n])
                           ELSE Entries(0, n - 1)
<1>1. pushed \in Seq(Deltas) /\ Len(pushed) \in Nat /\ n \in 1 .. Len(pushed) /\ n - 1 \in 0 .. tail
  BY ReplayTypes DEF tail
<1>2. Entries(0, n) = LoggedFrom(pushed, 0)[n] /\ Entries(0, n - 1) = LoggedFrom(pushed, 0)[n - 1]
  BY <1>1, EntriesAre
<1> QED
  BY ZenonT(60), <1>1, <1>2, LoggedEquation

LEMMA EntriesPush ==
    ASSUME WalInv, NEW d, pushed' = Append(pushed, d), NEW n \in -1 .. tail
    PROVE  Entries(0, n)' = Entries(0, n)
<1>1. pushed \in Seq(Deltas) /\ Len(pushed) \in Nat /\ n \in -1 .. Len(pushed)
  BY ReplayTypes DEF tail
<1> DEFINE m == Len(pushed)
           t == pushed'
<1>2. /\ m \in Nat /\ 0 \in Nat /\ m <= Len(pushed) /\ m <= Len(t) /\ Len(t) \in Nat
      /\ \A k \in 1 .. m : t[k] = pushed[k]
  BY <1>1
<1>3. n \in -1 .. m
  BY <1>1
<1> HIDE DEF m, t
<1>4. \A k \in 0 .. m : LoggedFrom(t, 0)[k] = LoggedFrom(pushed, 0)[k]
  BY <1>1, <1>2, LoggedAgree
<1>5. ~(n <= 0) => n \in 0 .. m
  BY <1>2, <1>3
<1>6. Entries(0, n)' = IF n <= 0 THEN <<>> ELSE LoggedFrom(t, 0)[n]
  BY DEF Entries, t
<1> QED
  BY <1>4, <1>5, <1>6 DEF Entries

LEMMA DurableInit == Init => DurableInv
<1> SUFFICES ASSUME Init PROVE DurableInv
  OBVIOUS
<1>1. live = <<>> /\ synced = 0 /\ durable_tail = 0 /\ rest = <<>> /\ pc = "loop" /\ Len(<<>>) = 0
  BY DEF Init
<1>2. ReadStates(live)[synced].entries = <<>>
  BY <1>1, ReadStatesEquation DEF Unread
<1>3. Entries(0, durable_tail - 1) = <<>>
  BY <1>1 DEF Entries
<1> QED
  BY <1>1, <1>2, <1>3 DEF DurableInv, DurableSync, ReadButLast, SyncedButLast

LEMMA EntriesShorter ==
    ASSUME WalInv
    PROVE  /\ Len(Entries(0, head - 1)) \in Nat
           /\ Len(Entries(0, head - 1)) <= Len(Entries(0, head))
<1>1. head \in 0 .. tail /\ tail \in Nat
  BY ReplayTypes
<1>2. Entries(0, head) \in Seq(Entry) /\ Len(Entries(0, head)) \in Nat
  <2>1. Entries(0, head) \in Seq(Entry)
    BY <1>1, EntriesAre
  <2> QED
    BY <2>1
<1>3. CASE head = 0
  <2>1. Entries(0, head - 1) = <<>> /\ Len(<<>>) = 0
    BY <1>3 DEF Entries
  <2> QED
    BY <1>2, <2>1
<1>4. CASE head # 0
  <2>1. head > 0 /\ head - 1 \in 0 .. tail
    BY <1>1, <1>4
  <2>2. Entries(0, head - 1) \in Seq(Entry)
    BY <2>1, EntriesAre
  <2>3. Entries(0, head) = Append(Entries(0, head - 1), pushed[head]) \/ Entries(0, head) = Entries(0, head - 1)
    BY <1>1, <2>1, EntriesStep
  <2>4. Len(Entries(0, head - 1)) \in Nat
        /\ Len(Append(Entries(0, head - 1), pushed[head])) = Len(Entries(0, head - 1)) + 1
    BY <2>2
  <2> QED
    BY <2>3, <2>4
<1> QED
  BY <1>3, <1>4

\* The sector that is written leaves at most the last popped entry unread.
LEMMA DurableWrites ==
    ASSUME WalInv, ReplayInv, DurableInv, WriteSector
    PROVE  DurableInv'
<1>1. /\ pc' = "sync" /\ UNCHANGED <<rest, pushed, head, durable_tail, synced>>
  BY DEF WriteSector, ringVars
<1>2. DurableSync'
  BY <1>1 DEF DurableInv, DurableSync
<1>3. SyncedButLast'
  <2>1. synced \in 0 .. Len(live)
    BY DEF WalInv, TypeOK, DiskTyped
  <2>2. ReadStates(live')[synced] = ReadStates(live)[synced]
    BY <2>1, SectorRead
  <2>3. Entries(0, durable_tail - 1)' = Entries(0, durable_tail - 1)
    BY <1>1 DEF Entries
  <2> QED
    BY <1>1, <2>2, <2>3 DEF DurableInv, SyncedButLast
<1>4. ReadButLast'
  <2>1. PICK vs \in Seq(Logged) :
            /\ Popped = Read'.entries \o vs
            /\ vs # <<>> => Len(Bytes(vs)) < Len(Encode(vs[1])) + Len(rest)
    <3>1. Trails(Read', Popped, rest)
      BY SectorRead
    <3> QED
      BY <3>1, Zenon DEF Trails
  <2> DEFINE read == Read'.entries
  <2>2. read \in Seq(Entry) /\ vs \in Seq(Entry) /\ Len(read) \in Nat /\ Len(vs) \in Nat
    <3>1. Read' \in ReaderState
      BY SectorRead
    <3>2. read \in Seq(Entry)
      BY <3>1 DEF ReaderState
    <3> HIDE DEF read
    <3> QED
      BY <3>2, LoggedAreEntries
  <2> HIDE DEF read
  <2>3. Popped = read \o vs
    BY <2>1 DEF read
  <2>4. Len(Popped) = Len(read) + Len(vs) /\ (vs # <<>> => Popped[Len(Popped)] = vs[Len(vs)])
    <3>1. /\ Len(read \o vs) = Len(read) + Len(vs)
          /\ \A i \in 1 .. Len(read) + Len(vs) :
                (read \o vs)[i] = IF i <= Len(read) THEN read[i] ELSE vs[i - Len(read)]
      BY <2>2, ConcatProperties
    <3>2. vs # <<>> => /\ Len(read) + Len(vs) \in 1 .. Len(read) + Len(vs)
                       /\ ~(Len(read) + Len(vs) <= Len(read))
                       /\ (Len(read) + Len(vs)) - Len(read) = Len(vs)
      <4>1. vs # <<>> => Len(vs) > 0
        BY <2>2
      <4> QED
        BY <2>2, <4>1
    <3> QED
      BY <2>3, <3>1, <3>2
  <2>5. head \in 0 .. tail /\ Popped = Entries(0, head)
    BY EntriesAre, ReplayTypes DEF Popped
  <2>6. ASSUME vs # <<>>
        PROVE  /\ Len(Bytes(vs)) \in Nat /\ Len(Encode(vs[1])) \in Nat /\ Len(Encode(vs[Len(vs)])) \in Nat
               /\ Len(Bytes(vs)) >= Len(Encode(vs[1]))
               /\ Len(vs) > 1 => Len(Bytes(vs)) >= Len(Encode(vs[1])) + Len(Encode(vs[Len(vs)]))
               /\ Len(Bytes(vs)) < Len(Encode(vs[1])) + Len(rest)
    <3>1. vs[1] \in Logged /\ vs[Len(vs)] \in Logged
      BY <2>6
    <3>2. Bytes(vs) \in Seq(Nat) /\ Encode(vs[1]) \in Seq(Nat) /\ Encode(vs[Len(vs)]) \in Seq(Nat)
      BY <3>1, BytesType, EncodedEntry
    <3>3. Len(Bytes(vs)) \in Nat /\ Len(Encode(vs[1])) \in Nat /\ Len(Encode(vs[Len(vs)])) \in Nat
      BY <3>2
    <3> QED
      BY <2>1, <2>6, <3>3, BytesEnds
  <2>7. Len(read) >= Len(Entries(0, head - 1))
    <3>1. CASE rest = <<>>
      <4>1. vs = <<>>
        <5> SUFFICES ASSUME vs # <<>> PROVE FALSE
          OBVIOUS
        <5>1. Len(rest) = 0
          BY <3>1
        <5> QED
          BY <2>6, <5>1
      <4>2. Len(read) = Len(Popped)
        BY <2>2, <2>4, <4>1
      <4>3. Len(Entries(0, head - 1)) <= Len(Popped)
        BY EntriesShorter, <2>5
      <4> QED
        BY <4>2, <4>3
    <3>2. CASE rest # <<>>
      <4>1. head > 0 /\ Loggable(pushed[head]) /\ Len(rest) <= Len(Encode(pushed[head]))
        BY <3>2 DEF DurableInv, DurableSync
      <4>2. Popped = Append(Entries(0, head - 1), pushed[head])
        BY <2>5, <4>1, EntriesStep
      <4>3. head - 1 \in 0 .. tail
        BY <2>5, <4>1, ReplayTypes
      <4>4. Entries(0, head - 1) \in Seq(Entry)
        BY <4>3, EntriesAre
      <4>5. Len(Popped) = Len(Entries(0, head - 1)) + 1 /\ Popped[Len(Popped)] = pushed[head]
            /\ Len(Entries(0, head - 1)) \in Nat
        BY <4>2, <4>4
      <4>6. Len(vs) <= 1
        <5> SUFFICES ASSUME Len(vs) > 1 PROVE FALSE
          BY <2>2
        <5>1. vs # <<>>
          OBVIOUS
        <5>2. vs[Len(vs)] = pushed[head]
          BY <2>4, <4>5, <5>1
        <5>3. Len(rest) <= Len(Encode(vs[Len(vs)]))
          BY <4>1, <5>2
        <5> QED
          BY <2>6, <5>1, <5>3, ReplayTypes
      <4> QED
        BY <2>2, <2>4, <4>5, <4>6
    <3> QED
      BY <3>1, <3>2
  <2>8. Entries(0, head - 1)' = Entries(0, head - 1)
    BY <1>1 DEF Entries
  <2> QED
    BY <2>7, <2>8 DEF ReadButLast, read
<1> QED
  BY <1>2, <1>3, <1>4, Zenon DEF DurableInv

\* A step that neither writes, syncs nor publishes.
LEMMA DurableQuiet ==
    ASSUME DurableInv, DurableSync', live' = live, synced' = synced, pc' \notin {"sync", "publish"},
           Entries(0, durable_tail - 1)' = Entries(0, durable_tail - 1)
    PROVE  DurableInv'
  BY DEF DurableInv, ReadButLast, SyncedButLast

LEMMA DurableClients ==
    ASSUME WalInv, DurableInv,
           (\E d \in Deltas : Push(d)) \/ CommitBegin \/ CommitOk \/ CommitTimeout \/ RequestShutdown
    PROVE  DurableInv'
<1>0. pushed \in Seq(Deltas) /\ tail \in Nat /\ head \in 0 .. tail /\ durable_tail \in 0 .. head
  BY DEF WalInv, TypeOK, RingTyped, tail
<1>1. /\ UNCHANGED <<pc, rest, live, synced, head, durable_tail>>
      /\ Entries(0, durable_tail - 1)' = Entries(0, durable_tail - 1)
      /\ Entries(0, head - 1)' = Entries(0, head - 1)
      /\ head > 0 => pushed'[head] = pushed[head]
  <2>1. ASSUME NEW d \in Deltas, Push(d)
        PROVE  /\ UNCHANGED <<pc, rest, live, synced, head, durable_tail>>
               /\ Entries(0, durable_tail - 1)' = Entries(0, durable_tail - 1)
               /\ Entries(0, head - 1)' = Entries(0, head - 1)
               /\ head > 0 => pushed'[head] = pushed[head]
    <3>1. /\ UNCHANGED <<pc, rest, live, synced, head, durable_tail>>
          /\ pushed' = Append(pushed, d)
      BY <2>1 DEF Push, control, disk
    <3>2. durable_tail - 1 \in -1 .. tail /\ head - 1 \in -1 .. tail
      BY <1>0
    <3>3. \A n \in -1 .. tail : Entries(0, n)' = Entries(0, n)
      BY <3>1, EntriesPush
    <3>4. Entries(0, durable_tail - 1)' = Entries(0, durable_tail - 1)
          /\ Entries(0, head - 1)' = Entries(0, head - 1)
      BY <3>1, <3>2, <3>3
    <3>5. head > 0 => pushed'[head] = pushed[head]
      BY <1>0, <3>1 DEF tail
    <3> QED
      BY <3>1, <3>4, <3>5
  <2>2. CASE CommitBegin \/ CommitOk \/ CommitTimeout
    BY <2>2 DEF CommitBegin, CommitOk, CommitTimeout, ringVars, control, disk, Entries
  <2>3. CASE RequestShutdown
    BY <2>3 DEF RequestShutdown, ringVars, control, disk, Entries
  <2> QED
    BY <2>1, <2>2, <2>3
<1>2. Read' = Read
  BY <1>1 DEF Read
<1>3. DurableSync'
  BY <1>1 DEF DurableInv, DurableSync
<1>4. ReadButLast'
  BY <1>1, <1>2 DEF DurableInv, ReadButLast
<1>5. SyncedButLast'
  BY <1>1 DEF DurableInv, SyncedButLast
<1> QED
  BY <1>3, <1>4, <1>5 DEF DurableInv

LEMMA DurablePops ==
    ASSUME WalInv, DurableInv, PopDelta \/ PopDropped, pc = "loop", rest = <<>>
    PROVE  DurableInv'
<1>1. UNCHANGED <<live, synced, pushed, durable_tail>> /\ head' = head + 1
  BY DEF PopDelta, PopDropped, disk
<1>2. pc' \in {"loop", "copy"}
  BY DEF PopDelta, PopDropped, control
<1>3. DurableSync'
  <2>1. CASE PopDelta
    <3>1. rest' = Encode(pushed[head + 1]) /\ Loggable(pushed[head + 1])
      BY <2>1 DEF PopDelta
    <3>2. Len(rest') \in Nat
      <4>1. rest' \in Seq(Nat)
        BY <1>1, <2>1, <3>1, PoppedPop, EncodeType DEF PopDelta
      <4> QED
        BY <4>1
    <3>3. head + 1 > 0
      BY ReplayTypes
    <3> QED
      BY <1>1, <1>2, <3>1, <3>2, <3>3 DEF DurableSync
  <2>2. CASE PopDropped
    <3>1. rest' = <<>>
      BY <2>2 DEF PopDropped, control
    <3> QED
      BY <1>2, <3>1 DEF DurableSync
  <2> QED
    BY <2>1, <2>2
<1>4. Entries(0, durable_tail - 1)' = Entries(0, durable_tail - 1)
  BY <1>1 DEF Entries
<1> QED
  BY <1>1, <1>2, <1>3, <1>4, DurableQuiet

LEMMA DurableFlushes ==
    ASSUME WalInv, DurableInv, IdleFlush \/ FinalFlush \/ CopyDone \/ RotateAtCap \/ Close
    PROVE  DurableInv'
<1>1. UNCHANGED <<live, synced, pushed, head, durable_tail, rest>> /\ pc' \notin {"sync", "publish"}
  <2>1. CASE IdleFlush \/ FinalFlush
    BY <2>1 DEF IdleFlush, FinalFlush, Flush, ringVars, disk
  <2>2. CASE CopyDone \/ RotateAtCap
    BY <2>2 DEF CopyDone, RotateAtCap, ringVars, disk, WalInv, TypeOK, FlusherTyped
  <2>3. CASE Close
    BY <2>3 DEF Close, ringVars, disk
  <2> QED
    BY <2>1, <2>2, <2>3
<1>2. DurableSync'
  BY <1>1 DEF DurableInv, DurableSync
<1>3. Entries(0, durable_tail - 1)' = Entries(0, durable_tail - 1)
  BY <1>1 DEF Entries
<1> QED
  BY <1>1, <1>2, <1>3, DurableQuiet

LEMMA DurableCopies ==
    ASSUME WalInv, DurableInv, CopyBytes
    PROVE  DurableInv'
<1> DEFINE space == SectorPayload - Len(sector_buffer)
           n == IF space < Len(rest) THEN space ELSE Len(rest)
<1>1. /\ rest # <<>> /\ rest' = SubSeq(rest, n + 1, Len(rest))
      /\ pc' \in {"write", "copy"}
      /\ UNCHANGED <<live, synced, pushed, head, durable_tail>>
  BY DEF CopyBytes, ringVars, disk
<1>2. n \in 0 .. Len(rest)
  BY ReplayTypes, FramingAssumption
<1> HIDE DEF n, space
<1>3. Len(rest') <= Len(rest) /\ Len(rest') \in Nat
  <2>1. n + 1 \in Int /\ Len(rest) \in Int /\ \A i \in n + 1 .. Len(rest) : rest[i] \in Nat
    BY <1>2, ReplayTypes
  <2>2. SubSeq(rest, n + 1, Len(rest)) \in Seq(Nat)
        /\ Len(SubSeq(rest, n + 1, Len(rest))) =
              IF n + 1 <= Len(rest) THEN (Len(rest) - (n + 1)) + 1 ELSE 0
    BY <2>1, SubSeqProperties
  <2> QED
    BY <1>1, <1>2, <2>2, ReplayTypes
<1>4. DurableSync'
  <2>1. head > 0 /\ Loggable(pushed[head]) /\ Len(rest) <= Len(Encode(pushed[head]))
    BY <1>1 DEF DurableInv, DurableSync
  <2>2. Len(Encode(pushed[head])) \in Nat
    <3>1. pushed[head] \in Deltas
      BY <2>1, ReplayTypes DEF tail
    <3>2. Encode(pushed[head]) \in Seq(Nat)
      BY <3>1, EncodeType
    <3> QED
      BY <3>2
  <2>3. Len(rest') <= Len(Encode(pushed[head]))
    BY <1>3, <2>1, <2>2, ReplayTypes
  <2> QED
    BY <1>1, <2>1, <2>3 DEF DurableSync
<1>5. Entries(0, durable_tail - 1)' = Entries(0, durable_tail - 1)
  BY <1>1 DEF Entries
<1> QED
  BY <1>1, <1>4, <1>5, DurableQuiet

\* Reading on only adds: the entries of more sectors are no fewer.
LEMMA ReadLonger ==
    ASSUME NEW file \in Seq(Sector), NEW j \in 0 .. Len(file), NEW k \in j .. Len(file)
    PROVE  /\ Len(ReadStates(file)[j].entries) \in Nat
           /\ Len(ReadStates(file)[k].entries) \in Nat
           /\ Len(ReadStates(file)[j].entries) <= Len(ReadStates(file)[k].entries)
<1>1. k \in 0 .. Len(file)
  OBVIOUS
<1>2. ReadStates(file)[j].entries \in Seq(Entry) /\ ReadStates(file)[k].entries \in Seq(Entry)
  BY <1>1, ReadType DEF ReaderState
<1>3. IsPrefix(ReadStates(file)[j].entries, ReadStates(file)[k].entries)
  BY ReadGrows
<1>4. Len(ReadStates(file)[j].entries) <= Len(ReadStates(file)[k].entries)
  BY <1>2, <1>3, PrefixMeaning
<1> QED
  BY <1>2, <1>4

LEMMA EntriesLength ==
    ASSUME WalInv, NEW n \in -1 .. tail
    PROVE  Len(Entries(0, n)) \in Nat
<1>1. CASE n = -1
  <2>1. Entries(0, n) = <<>> /\ Len(<<>>) = 0
    BY <1>1 DEF Entries
  <2> QED
    BY <2>1
<1>2. CASE n \in 0 .. tail
  <2>1. Entries(0, n) \in Seq(Entry)
    BY <1>2, EntriesAre
  <2> QED
    BY <2>1
<1>3. tail \in Nat
  BY ReplayTypes
<1> QED
  BY <1>1, <1>2, <1>3

LEMMA DurableSyncs ==
    ASSUME WalInv, DurableInv, SyncFile, ~SyncFails
    PROVE  DurableInv'
<1>1. /\ pc = "sync" /\ pc' = "publish" /\ synced' = Len(live)
      /\ UNCHANGED <<live, rest, pushed, head, durable_tail>>
  BY DEF SyncFile, SyncFails, ringVars
<1>2. DurableSync' /\ ReadButLast'
  <2>1. Read' = Read /\ Entries(0, head - 1)' = Entries(0, head - 1)
    BY <1>1 DEF Read, Entries
  <2> QED
    BY <1>1, <2>1 DEF DurableInv, DurableSync, ReadButLast
<1>3. SyncedButLast'
  <2>1. live \in Seq(Sector) /\ synced \in 0 .. Len(live) /\ Len(live) \in synced .. Len(live)
        /\ durable_tail - 1 \in -1 .. tail
    BY DEF WalInv, TypeOK, DiskTyped, RingTyped, tail
  <2>2. Len(ReadStates(live)[synced].entries) >= Len(Entries(0, durable_tail - 1))
    BY DEF DurableInv, SyncedButLast
  <2>3. Len(ReadStates(live)[Len(live)].entries) >= Len(Entries(0, durable_tail - 1))
    <3>1. /\ Len(ReadStates(live)[synced].entries) \in Nat
          /\ Len(ReadStates(live)[Len(live)].entries) \in Nat
          /\ Len(ReadStates(live)[synced].entries) <= Len(ReadStates(live)[Len(live)].entries)
      BY <2>1, ReadLonger
    <3>2. Len(Entries(0, durable_tail - 1)) \in Nat
      BY <2>1, EntriesLength
    <3> QED
      BY <2>2, <3>1, <3>2
  <2>4. Entries(0, durable_tail - 1)' = Entries(0, durable_tail - 1)
    BY <1>1 DEF Entries
  <2> QED
    BY <1>1, <2>3, <2>4 DEF SyncedButLast
<1> QED
  BY <1>2, <1>3 DEF DurableInv

LEMMA DurablePublishes ==
    ASSUME WalInv, DurableInv, PublishDurable
    PROVE  DurableInv'
<1>1. /\ pc = "publish" /\ durable_tail' \in {head, durable_tail}
      /\ UNCHANGED <<live, synced, rest, pushed, head>>
  BY DEF PublishDurable, disk
<1>2. pc' \notin {"sync", "publish"}
  BY DEF PublishDurable, AfterFlush, WalInv, TypeOK, FlusherTyped
<1>3. DurableSync' /\ ReadButLast'
  BY <1>1, <1>2 DEF DurableInv, DurableSync, ReadButLast
<1>4. SyncedButLast'
  <2>1. Len(ReadStates(live)[synced].entries) >= Len(Entries(0, durable_tail - 1))
    BY DEF DurableInv, SyncedButLast
  <2>2. Len(ReadStates(live)[synced].entries) >= Len(Entries(0, head - 1))
    BY <1>1 DEF DurableInv, DurableSync, ReadButLast, Read
  <2>3. Entries(0, durable_tail - 1)' \in {Entries(0, head - 1), Entries(0, durable_tail - 1)}
    BY <1>1 DEF Entries
  <2> QED
    BY <1>1, <2>1, <2>2, <2>3 DEF SyncedButLast
<1> QED
  BY <1>3, <1>4 DEF DurableInv

LEMMA DurableCrashes ==
    ASSUME WalInv, DurableInv, Crash
    PROVE  DurableInv'
<1>1. /\ live' \in LiveImages /\ synced' = Len(live') /\ pc' = "down" /\ rest' = <<>>
      /\ UNCHANGED <<pushed, head, durable_tail>>
  BY DEF Crash, ringVars
<1>2. DurableSync' /\ ReadButLast'
  BY <1>1 DEF DurableSync, ReadButLast
<1>3. SyncedButLast'
  <2>1. live \in Seq(Sector) /\ synced \in 0 .. Len(live) /\ Len(live) \in Nat
        /\ durable_tail - 1 \in -1 .. tail
    BY DEF WalInv, TypeOK, DiskTyped, RingTyped, tail
  <2>2. PICK k \in synced .. Len(live) :
            /\ k <= Len(live')
            /\ \A j \in k .. Len(live') : ReadStates(live')[j].entries = ReadStates(live)[k].entries
    BY <1>1, <2>1, ImagesRead
  <2>3. Len(live') \in k .. Len(live')
    <3>1. live' \in Seq(Sector)
      BY <1>1, <2>1, ImagesRead
    <3>2. Len(live') \in Nat
      BY <3>1
    <3> QED
      BY <2>1, <2>2, <3>2
  <2>4. ReadStates(live')[synced'].entries = ReadStates(live)[k].entries
    BY <1>1, <2>2, <2>3
  <2>5. Len(ReadStates(live)[synced].entries) >= Len(Entries(0, durable_tail - 1))
    BY DEF DurableInv, SyncedButLast
  <2>6. Len(ReadStates(live)[k].entries) >= Len(Entries(0, durable_tail - 1))
    <3>1. /\ Len(ReadStates(live)[synced].entries) \in Nat
          /\ Len(ReadStates(live)[k].entries) \in Nat
          /\ Len(ReadStates(live)[synced].entries) <= Len(ReadStates(live)[k].entries)
      BY <2>1, ReadLonger
    <3>2. Len(Entries(0, durable_tail - 1)) \in Nat
      BY <2>1, EntriesLength
    <3> QED
      BY <2>5, <3>1, <3>2
  <2>7. Entries(0, durable_tail - 1)' = Entries(0, durable_tail - 1)
    BY <1>1 DEF Entries
  <2> QED
    BY <2>4, <2>6, <2>7 DEF SyncedButLast
<1> QED
  BY <1>2, <1>3 DEF DurableInv

LEMMA DurableStep ==
    ASSUME WalInv, ReplayInv, DurableInv, [Next]_vars, [Undisturbed /\ ~SyncFails]_vars
    PROVE  DurableInv'
<1>1. CASE UNCHANGED vars
  <2>1. UNCHANGED <<pc, rest, live, synced, pushed, head, durable_tail>>
    BY <1>1 DEF vars
  <2>2. /\ Read' = Read /\ Entries(0, head - 1)' = Entries(0, head - 1)
        /\ Entries(0, durable_tail - 1)' = Entries(0, durable_tail - 1)
    BY <2>1 DEF Read, Entries
  <2> QED
    BY <2>1, <2>2 DEF DurableInv, DurableSync, ReadButLast, SyncedButLast
<1>2. CASE Undisturbed /\ ~SyncFails
  <2>1. CASE DrainFlush \/ Throttled \/ SnapEnter \/ SnapFlush \/ SnapPublish \/ SnapFails
             \/ SnapDelete \/ SnapTruncate \/ SnapReopenFails
    <3>1. pc \in {"drain", "throttle", "snap_drain", "snap_write", "snap_delete", "snap_truncate"}
      BY <2>1 DEF DrainFlush, Throttled, SnapEnter, SnapFlush, SnapPublish, SnapFails, SnapDelete,
                  SnapTruncate, SnapReopenFails
    <3> QED
      BY <3>1 DEF ReplayInv, ReplayControl
  <2>2. CASE PopDelta \/ PopDropped
    <3>1. Polling
      BY <2>2 DEF PopDelta, PopDropped
    <3>2. pc = "loop" /\ rest = <<>>
      BY <3>1 DEF Polling, ReplayInv, ReplayControl
    <3> QED
      BY <2>2, <3>2, DurablePops
  <2> QED
    BY <1>1, <1>2, <2>1, <2>2, DurableClients, DurableFlushes, DurableCopies, DurableWrites, DurableSyncs,
       DurablePublishes, DurableCrashes DEF Next, FlusherStep, Undisturbed
<1> QED
  BY <1>1, <1>2

LEMMA DurableHolds == WalInv /\ ReplayInv /\ DurableInv => DurableButLast
<1> SUFFICES ASSUME WalInv, ReplayInv, DurableInv, NEW file \in LiveImages
             PROVE  Len(Replay(file, archive)) >=
                       Len(recovered) + Len(Entries(log_start, durable_tail - 1))
  BY DEF DurableButLast
<1>1. recovered = <<>> /\ log_start = 0 /\ NoArchive /\ Len(<<>>) = 0
  BY DEF ReplayInv, ReplayControl
<1>2. PICK k \in synced .. Len(live) : Replay(file, archive) = ReadStates(live)[k].entries
  BY <1>1, ReplayOfImage
<1>3. live \in Seq(Sector) /\ synced \in 0 .. Len(live) /\ durable_tail - 1 \in -1 .. tail
  BY DEF WalInv, TypeOK, DiskTyped, RingTyped, tail
<1>4. Len(ReadStates(live)[synced].entries) >= Len(Entries(0, durable_tail - 1))
  BY DEF DurableInv, SyncedButLast
<1>5. Len(Entries(0, durable_tail - 1)) \in Nat
  BY <1>3, EntriesLength
<1>6. Len(ReadStates(live)[k].entries) >= Len(Entries(0, durable_tail - 1))
  <2>1. /\ Len(ReadStates(live)[synced].entries) \in Nat
        /\ Len(ReadStates(live)[k].entries) \in Nat
        /\ Len(ReadStates(live)[synced].entries) <= Len(ReadStates(live)[k].entries)
    BY <1>3, ReadLonger
  <2> QED
    BY <1>4, <1>5, <2>1
<1> QED
  BY <1>1, <1>2, <1>5, <1>6

(* Every image a crash can leave of the log replays all deltas below       *)
(* durable_tail except possibly the last one, under the conditions of      *)
(* ReplayCorrect and as long as no fsync fails.                            *)
THEOREM DurableCorrect == Spec /\ [][Undisturbed /\ ~SyncFails]_vars => []DurableButLast
<1>1. Init => ReplayInv /\ DurableInv
  BY ReplayInit, DurableInit
<1>2. WalInv /\ ReplayInv /\ DurableInv /\ [Next]_vars /\ [Undisturbed /\ ~SyncFails]_vars
        => ReplayInv' /\ DurableInv'
  <2> SUFFICES ASSUME WalInv, ReplayInv, DurableInv, [Next]_vars, [Undisturbed /\ ~SyncFails]_vars
               PROVE  ReplayInv' /\ DurableInv'
    OBVIOUS
  <2>1. [Undisturbed]_vars
    OBVIOUS
  <2> QED
    BY <2>1, ReplayStep, DurableStep
<1>3. WalInv /\ ReplayInv /\ DurableInv => DurableButLast
  BY DurableHolds
<1>4. Spec => []WalInv
  BY WalInvariant
<1> QED
  BY <1>1, <1>2, <1>3, <1>4, PTL DEF Spec

\* Entries(0, n) gets no shorter as n grows.
LEMMA EntriesGrow ==
    ASSUME WalInv, NEW n \in -1 .. tail, NEW m \in -1 .. tail, n <= m
    PROVE  Len(Entries(0, n)) <= Len(Entries(0, m))
<1>1. tail \in Nat
  BY ReplayTypes
<1> DEFINE size(k) == Len(Entries(0, k))
           T == {d \in Nat : n + d <= tail => size(n) <= size(n + d)}
<1>2. \A k \in -1 .. tail : size(k) \in Nat
  BY EntriesLength
<1>3. 0 \in T
  <2>1. n + 0 = n
    OBVIOUS
  <2> QED
    BY <1>2, <2>1
<1>4. ASSUME NEW d \in T PROVE d + 1 \in T
  <2> SUFFICES ASSUME n + (d + 1) <= tail PROVE size(n) <= size(n + (d + 1))
    OBVIOUS
  <2>1. PICK k : k = n + (d + 1)
    OBVIOUS
  <2>2. /\ d \in Nat /\ n + d = k - 1 /\ k \in 0 .. tail /\ k - 1 \in -1 .. tail
        /\ n + d <= tail
    BY <1>1, <1>4, <2>1
  <2>3. size(n) <= size(k - 1)
    BY <1>4, <2>2
  <2>4. size(k - 1) <= size(k)
    <3>1. CASE k = 0
      <4>1. Entries(0, k) = <<>> /\ Entries(0, k - 1) = <<>>
        BY <3>1 DEF Entries
      <4> QED
        BY <1>2, <2>2, <4>1
    <3>2. CASE k > 0
      <4>1. k - 1 \in 0 .. tail
        BY <2>2, <3>2
      <4>2. PICK s : s = Entries(0, k - 1)
        OBVIOUS
      <4>3. s \in Seq(Entry)
        BY <4>1, <4>2, EntriesAre
      <4>4. Entries(0, k) = Append(s, pushed[k]) \/ Entries(0, k) = s
        BY <2>2, <3>2, <4>2, EntriesStep
      <4>5. Len(Append(s, pushed[k])) = Len(s) + 1 /\ Len(s) \in Nat
        BY <4>3
      <4> QED
        BY <4>2, <4>4, <4>5
    <3> QED
      BY <2>2, <3>1, <3>2
  <2>5. size(n) \in Nat /\ size(k - 1) \in Nat /\ size(k) \in Nat
    BY <1>2, <2>2
  <2> HIDE DEF size, T
  <2> QED
    BY <2>1, <2>3, <2>4, <2>5
<1> HIDE DEF T
<1>5. \A d \in Nat : d \in T
  <2>1. T \subseteq Nat
    BY DEF T
  <2> QED
    BY <1>3, <1>4, <2>1, InductionOnSets
<1>6. m - n \in Nat /\ n + (m - n) = m /\ m <= tail
  BY <1>1
<1>7. size(n) <= size(n + (m - n))
  <2> HIDE DEF size
  <2>1. m - n \in T
    BY <1>5, <1>6
  <2> QED
    BY <1>6, <2>1 DEF T
<1> QED
  BY <1>6, <1>7

LEMMA CommittedHolds == WalInv /\ ReplayInv /\ DurableButLast => CommittedButLast
<1> SUFFICES ASSUME WalInv, ReplayInv, DurableButLast, NEW file \in LiveImages
             PROVE  Len(Replay(file, archive)) >=
                       Len(recovered) + Len(Entries(log_start, committed - 1))
  BY DEF CommittedButLast
<1>1. recovered = <<>> /\ log_start = 0 /\ NoArchive /\ Len(<<>>) = 0
  BY DEF ReplayInv, ReplayControl
<1>2. committed <= durable_tail /\ committed - 1 \in -1 .. tail /\ durable_tail - 1 \in -1 .. tail
  BY DEF WalInv, Ordered, TypeOK, RingTyped, tail
<1>3. PICK n, m : n = committed - 1 /\ m = durable_tail - 1
  OBVIOUS
<1>4. n <= m /\ n \in -1 .. tail /\ m \in -1 .. tail
  BY <1>2, <1>3 DEF WalInv, TypeOK, RingTyped
<1>5. /\ Len(Entries(0, n)) \in Nat /\ Len(Entries(0, m)) \in Nat
      /\ Len(Entries(0, n)) <= Len(Entries(0, m))
  BY <1>4, EntriesLength, EntriesGrow
<1>6. Len(Replay(file, archive)) >= Len(Entries(0, m))
  BY <1>1, <1>3, <1>5 DEF DurableButLast
<1>7. PICK k \in synced .. Len(live) : Replay(file, archive) = ReadStates(live)[k].entries
  BY <1>1, ReplayOfImage
<1>8. Len(Replay(file, archive)) \in Nat
  BY <1>7, ReadLonger DEF WalInv, TypeOK, DiskTyped
<1> QED
  BY <1>1, <1>3, <1>5, <1>6, <1>8

(* takyon_commit answers RC_OK only when every image a crash can leave of  *)
(* the log holds the deltas pushed before it, except possibly the last one,*)
(* under the conditions of DurableCorrect.                                 *)
THEOREM CommitsAreDurable == Spec /\ [][Undisturbed /\ ~SyncFails]_vars => []CommittedButLast
<1>1. Init => ReplayInv
  BY ReplayInit
<1>2. WalInv /\ ReplayInv /\ [Next]_vars /\ [Undisturbed /\ ~SyncFails]_vars => ReplayInv'
  <2> SUFFICES ASSUME WalInv, ReplayInv, [Next]_vars, [Undisturbed /\ ~SyncFails]_vars
               PROVE  ReplayInv'
    OBVIOUS
  <2>1. [Undisturbed]_vars
    OBVIOUS
  <2> QED
    BY <2>1, ReplayStep
<1>3. WalInv /\ ReplayInv /\ DurableButLast => CommittedButLast
  BY CommittedHolds
<1>4. Spec => []WalInv
  BY WalInvariant
<1>5. Spec /\ [][Undisturbed /\ ~SyncFails]_vars => []DurableButLast
  BY DurableCorrect
<1> QED
  BY <1>1, <1>2, <1>3, <1>4, <1>5, PTL DEF Spec
=============================================================================
