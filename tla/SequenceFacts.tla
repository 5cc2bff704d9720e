---------------------------- MODULE SequenceFacts ----------------------------
(***************************************************************************)
(* What the proofs need of sequences: their elements, and the operations    *)
(* the models use on them.                                                  *)
(***************************************************************************)
EXTENDS Integers, Sequences, SequencesExt, TLAPS

LEMMA SeqFacts ==
  ASSUME NEW S, NEW s \in Seq(S)
  PROVE  /\ Len(s) \in Nat /\ DOMAIN s = 1 .. Len(s)
         /\ Range(s) \subseteq S
         /\ \A x : x \in Range(s) <=> \E i \in 1 .. Len(s) : s[i] = x
  BY DEF Range

LEMMA AppendFacts ==
  ASSUME NEW S, NEW s \in Seq(S), NEW e \in S
  PROVE  /\ Append(s, e) \in Seq(S)
         /\ Len(Append(s, e)) = Len(s) + 1
         /\ Append(s, e)[Len(s) + 1] = e
         /\ \A i \in 1 .. Len(s) : Append(s, e)[i] = s[i]
         /\ Range(Append(s, e)) = Range(s) \cup {e}
  <1> DEFINE r == Append(s, e)
  <1>1. /\ r \in Seq(S) /\ Len(r) = Len(s) + 1 /\ Len(s) \in Nat
        /\ r[Len(s) + 1] = e /\ \A i \in 1 .. Len(s) : r[i] = s[i]
    OBVIOUS
  <1> HIDE DEF r
  <1>2. \A x : x \in Range(r) <=> x \in Range(s) \cup {e}
    BY <1>1, SeqFacts
  <1> QED
    BY <1>1, <1>2 DEF r

LEMMA ConcatFacts ==
  ASSUME NEW S, NEW s \in Seq(S), NEW t \in Seq(S)
  PROVE  /\ s \o t \in Seq(S)
         /\ Len(s \o t) = Len(s) + Len(t)
         /\ \A i \in 1 .. Len(s) : (s \o t)[i] = s[i]
         /\ \A i \in 1 .. Len(t) : (s \o t)[Len(s) + i] = t[i]
         /\ Range(s \o t) = Range(s) \cup Range(t)
  <1> DEFINE r == s \o t
  <1>1. /\ r \in Seq(S) /\ Len(r) = Len(s) + Len(t) /\ Len(s) \in Nat /\ Len(t) \in Nat
        /\ \A i \in 1 .. Len(s) : r[i] = s[i]
        /\ \A i \in 1 .. Len(t) : r[Len(s) + i] = t[i]
    OBVIOUS
  <1> HIDE DEF r
  <1>2. ASSUME NEW x \in Range(r) PROVE x \in Range(s) \cup Range(t)
    <2>1. PICK i \in 1 .. Len(r) : r[i] = x
      BY <1>1, <1>2, SeqFacts
    <2>2. CASE i \in 1 .. Len(s)
      BY <1>1, <2>1, <2>2, SeqFacts
    <2>3. CASE i \notin 1 .. Len(s)
      <3>1. i - Len(s) \in 1 .. Len(t) /\ Len(s) + (i - Len(s)) = i
        BY <1>1, <2>3
      <3>2. t[i - Len(s)] = x
        BY <1>1, <2>1, <3>1
      <3> QED
        BY <1>1, <3>1, <3>2, SeqFacts
    <2> QED
      BY <2>2, <2>3
  <1>3. ASSUME NEW x \in Range(s) PROVE x \in Range(r)
    <2>1. PICK i \in 1 .. Len(s) : s[i] = x
      BY <1>3, SeqFacts
    <2>2. i \in 1 .. Len(r) /\ r[i] = x
      BY <1>1, <2>1
    <2> QED
      BY <1>1, <2>2, SeqFacts
  <1>4. ASSUME NEW x \in Range(t) PROVE x \in Range(r)
    <2>1. PICK i \in 1 .. Len(t) : t[i] = x
      BY <1>4, SeqFacts
    <2>2. Len(s) + i \in 1 .. Len(r) /\ r[Len(s) + i] = x
      BY <1>1, <2>1
    <2> QED
      BY <1>1, <2>2, SeqFacts
  <1> QED
    BY <1>1, <1>2, <1>3, <1>4 DEF r

LEMMA PartFacts ==
  ASSUME NEW S, NEW s \in Seq(S), NEW k \in 0 .. Len(s)
  PROVE  /\ SubSeq(s, 1, k) \in Seq(S)
         /\ Len(SubSeq(s, 1, k)) = k
         /\ \A i \in 1 .. k : SubSeq(s, 1, k)[i] = s[i]
         /\ Range(SubSeq(s, 1, k)) \subseteq Range(s)
  <1> DEFINE r == SubSeq(s, 1, k)
  <1>1. /\ r \in Seq(S) /\ Len(r) = k /\ Len(s) \in Nat
        /\ \A i \in 1 .. k : r[i] = s[i]
    OBVIOUS
  <1> HIDE DEF r
  <1>2. \A x \in Range(r) : x \in Range(s)
    BY <1>1, SeqFacts
  <1> QED
    BY <1>1, <1>2 DEF r

LEMMA TailFacts ==
  ASSUME NEW S, NEW s \in Seq(S), s # <<>>
  PROVE  /\ Head(s) \in S /\ Head(s) = s[1] /\ Len(s) >= 1
         /\ Tail(s) \in Seq(S)
         /\ Len(Tail(s)) = Len(s) - 1
         /\ \A i \in 1 .. (Len(s) - 1) : Tail(s)[i] = s[i + 1]
         /\ Range(s) = Range(Tail(s)) \cup {Head(s)}
  <1> DEFINE r == Tail(s)
             h == Head(s)
  <1>1. /\ r \in Seq(S) /\ Len(r) = Len(s) - 1 /\ Len(s) \in Nat /\ Len(s) >= 1
        /\ h = s[1] /\ h \in S
        /\ \A i \in 1 .. (Len(s) - 1) : r[i] = s[i + 1]
    OBVIOUS
  <1> HIDE DEF r, h
  <1>2. ASSUME NEW x \in Range(s), x # h PROVE x \in Range(r)
    <2>1. PICK i \in 1 .. Len(s) : s[i] = x
      BY <1>2, SeqFacts
    <2>2. i - 1 \in 1 .. (Len(s) - 1) /\ (i - 1) + 1 = i
      BY <1>1, <1>2, <2>1
    <2>3. i - 1 \in 1 .. Len(r) /\ r[i - 1] = x
      BY <1>1, <2>1, <2>2
    <2> QED
      BY <1>1, <2>3, SeqFacts
  <1>3. \A x \in Range(r) : x \in Range(s)
    <2> SUFFICES ASSUME NEW x \in Range(r) PROVE x \in Range(s)
      OBVIOUS
    <2>1. PICK i \in 1 .. Len(r) : r[i] = x
      BY <1>1, SeqFacts
    <2>2. i + 1 \in 1 .. Len(s) /\ s[i + 1] = x
      BY <1>1, <2>1
    <2> QED
      BY <2>2, SeqFacts
  <1>4. h \in Range(s)
    BY <1>1, SeqFacts
  <1> QED
    BY <1>1, <1>2, <1>3, <1>4 DEF r, h

\* What was written before the end is the beginning of what was to be written.
LEMMA PrefixFacts ==
  ASSUME NEW S, NEW s \in Seq(S), NEW t \in Seq(S)
  PROVE  IsPrefix(s, s \o t)
  <1> DEFINE r == s \o t
  <1>1. /\ r \in Seq(S) /\ Len(r) >= Len(s) /\ Len(s) \in Nat /\ Len(s) \in 0 .. Len(r)
        /\ Len(s) \in 0 .. Len(s)
        /\ \A i \in 1 .. Len(s) : r[i] = s[i]
    BY ConcatFacts
  <1> HIDE DEF r
  <1>2. /\ SubSeq(r, 1, Len(s)) \in Seq(S) /\ Len(SubSeq(r, 1, Len(s))) = Len(s)
        /\ SubSeq(s, 1, Len(s)) \in Seq(S) /\ Len(SubSeq(s, 1, Len(s))) = Len(s)
        /\ \A i \in 1 .. Len(s) : SubSeq(r, 1, Len(s))[i] = SubSeq(s, 1, Len(s))[i]
    BY <1>1, PartFacts
  <1>3. SubSeq(r, 1, Len(s)) = SubSeq(s, 1, Len(s))
    BY <1>2
  <1> QED
    BY <1>1, <1>3 DEF IsPrefix, r

\* A sequence is its first k elements and the rest.
LEMMA SplitFacts ==
  ASSUME NEW S, NEW s \in Seq(S), NEW k \in 0 .. Len(s)
  PROVE  /\ SubSeq(s, k + 1, Len(s)) \in Seq(S)
         /\ s = SubSeq(s, 1, k) \o SubSeq(s, k + 1, Len(s))
  <1> DEFINE x == SubSeq(s, 1, k)
             y == SubSeq(s, k + 1, Len(s))
             r == x \o y
  <1>1. x \in Seq(S) /\ Len(x) = k /\ \A i \in 1 .. k : x[i] = s[i]
    BY PartFacts
  <1>2. /\ y \in Seq(S) /\ Len(y) = Len(s) - k /\ Len(s) \in Nat
        /\ \A i \in 1 .. (Len(s) - k) : y[i] = s[k + i]
    OBVIOUS
  <1> HIDE DEF x, y
  <1>3. /\ r \in Seq(S) /\ Len(r) = Len(s)
        /\ \A i \in 1 .. k : r[i] = s[i]
        /\ \A i \in 1 .. (Len(s) - k) : r[k + i] = s[k + i]
    BY <1>1, <1>2, ConcatFacts
  <1> HIDE DEF r
  <1>4. ASSUME NEW i \in 1 .. Len(s) PROVE r[i] = s[i]
    <2>1. CASE i \in 1 .. k
      BY <1>3, <2>1
    <2>2. CASE i \notin 1 .. k
      <3>1. i - k \in 1 .. (Len(s) - k) /\ k + (i - k) = i
        BY <1>2, <2>2
      <3> QED
        BY <1>3, <3>1
    <2> QED
      BY <2>1, <2>2
  <1>5. r = s
    BY <1>3, <1>4
  <1> QED
    BY <1>2, <1>5 DEF x, y, r

\* A prefix stays one when the longer sequence grows.
LEMMA PrefixAppend ==
  ASSUME NEW S, NEW s \in Seq(S), NEW t \in Seq(S), NEW e \in S, IsPrefix(s, t)
  PROVE  IsPrefix(s, Append(t, e))
  <1> DEFINE r == Append(t, e)
  <1>1. /\ r \in Seq(S) /\ Len(r) = Len(t) + 1 /\ Len(t) \in Nat /\ Len(s) \in Nat
        /\ \A i \in 1 .. Len(t) : r[i] = t[i]
    BY AppendFacts
  <1>2. Len(s) <= Len(t) /\ SubSeq(s, 1, Len(s)) = SubSeq(t, 1, Len(s))
    BY DEF IsPrefix
  <1> HIDE DEF r
  <1>3. Len(s) \in 0 .. Len(t) /\ Len(s) \in 0 .. Len(r)
    BY <1>1, <1>2
  <1>4. /\ SubSeq(r, 1, Len(s)) \in Seq(S) /\ Len(SubSeq(r, 1, Len(s))) = Len(s)
        /\ SubSeq(t, 1, Len(s)) \in Seq(S) /\ Len(SubSeq(t, 1, Len(s))) = Len(s)
        /\ \A i \in 1 .. Len(s) : SubSeq(r, 1, Len(s))[i] = SubSeq(t, 1, Len(s))[i]
    BY <1>1, <1>3, PartFacts
  <1>5. SubSeq(r, 1, Len(s)) = SubSeq(t, 1, Len(s))
    BY <1>4
  <1> QED
    BY <1>1, <1>2, <1>5 DEF IsPrefix, r

\* The elements from position a on.
LEMMA FromFacts ==
  ASSUME NEW S, NEW s \in Seq(S), NEW a \in 1 .. (Len(s) + 1)
  PROVE  /\ SubSeq(s, a, Len(s)) \in Seq(S)
         /\ Len(SubSeq(s, a, Len(s))) = Len(s) - a + 1
         /\ \A j \in 1 .. (Len(s) - a + 1) : SubSeq(s, a, Len(s))[j] = s[a + j - 1]
         /\ \A i \in a .. Len(s) : s[i] \in Range(SubSeq(s, a, Len(s)))
  <1> DEFINE r == SubSeq(s, a, Len(s))
  <1>1. /\ r \in Seq(S) /\ Len(r) = Len(s) - a + 1 /\ Len(s) \in Nat
        /\ \A j \in 1 .. (Len(s) - a + 1) : r[j] = s[a + j - 1]
    OBVIOUS
  <1> HIDE DEF r
  <1>2. ASSUME NEW i \in a .. Len(s) PROVE s[i] \in Range(r)
    <2>1. i - a + 1 \in 1 .. (Len(s) - a + 1) /\ a + (i - a + 1) - 1 = i
      BY <1>1
    <2>2. i - a + 1 \in 1 .. Len(r) /\ r[i - a + 1] = s[i]
      BY <1>1, <2>1
    <2> QED
      BY <1>1, <2>2, SeqFacts
  <1> QED
    BY <1>1, <1>2 DEF r
=============================================================================
