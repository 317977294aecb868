----------------------------- MODULE NativeIndex -----------------------------
(***************************************************************************)
(* The keys NativeSecondaryIndex (relational/secondary_native.ts) stores   *)
(* in the engine's ordered index and the scans it answers lookups with.    *)
(*                                                                         *)
(* A string is a sequence of character codes.  Inside the prefix           *)
(* idx:<table>:<column>: an entry's key is <value><SEP><pk>, ordered       *)
(* lexicographically; an entry is the record [value, pk] that it encodes.  *)
(***************************************************************************)
EXTENDS Integers, Sequences, SequencesExt, FiniteSets

CONSTANTS
    LookupCap,  \* most entries lookup returns (4096)
    RangeCap    \* most entries a range returns (1024 unless the caller says)

ASSUME ScanCapAssumption == LookupCap \in Nat \ {0} /\ RangeCap \in Nat \ {0}

SECONDARY_SEP == 31        \* U+001F
HI_SENTINEL   == 65535     \* U+FFFF

\* Byte-lexicographic order of two keys.
KeyLess(s, t) ==
    \E i \in 1 .. Len(t) :
        /\ i <= Len(s) + 1
        /\ \A j \in 1 .. i - 1 : s[j] = t[j]
        /\ i > Len(s) \/ s[i] < t[i]

KeyLeq(s, t) == s = t \/ KeyLess(s, t)

entryKey(e) == e.value \o <<SECONDARY_SEP>> \o e.pk

valuePrefix(v) == Append(v, SECONDARY_SEP)

\* The entries whose keys lie before that of e, and the first n in key order.
Below(found, e) == {f \in found : KeyLess(entryKey(f), entryKey(e))}

Leading(n, found) == {e \in found : Cardinality(Below(found, e)) < n}

\* The engine's scans over the keys of one index, up to a cap; an empty bound is open.
scanPrefix(entries, prefix, cap) == Leading(cap, {e \in entries : IsPrefix(prefix, entryKey(e))})

scanRange(entries, lo, hi, cap) ==
    Leading(cap, {e \in entries : /\ lo = <<>> \/ KeyLeq(lo, entryKey(e))
                                  /\ hi = <<>> \/ KeyLeq(entryKey(e), hi)})

lookup_NoSeparator(entries, v) == scanPrefix(entries, v, LookupCap)

lookup(entries, v) == scanPrefix(entries, valuePrefix(v), LookupCap)

lookupRange(entries, lo, hi) ==
    scanRange(entries, IF lo = <<>> THEN <<>> ELSE valuePrefix(lo),
                       IF hi = <<>> THEN <<>> ELSE Append(valuePrefix(hi), HI_SENTINEL), RangeCap)

\* padU32Hex with Digits digits of base Base, most significant first; the
\* code has eight of base sixteen.  The digit characters sort like their values.
Base == 2
Digits == 3
DigitChar(d) == 48 + d

padU32Hex(n) == [i \in 1 .. Digits |-> DigitChar((n \div Base ^ (Digits - i)) % Base)]

lookupNumericRange(entries, lo, hi) ==
    scanRange(entries, valuePrefix(padU32Hex(lo)),
              Append(valuePrefix(padU32Hex(hi)), HI_SENTINEL), RangeCap)

=============================================================================
