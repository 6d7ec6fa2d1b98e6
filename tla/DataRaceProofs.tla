--------------------------- MODULE DataRaceProofs ---------------------------
(***************************************************************************)
(* The race detector, for all numbers of threads and bytes, all programs,  *)
(* and all sizes of a word and of a record.  First the words and records:  *)
(* what the checks do to them, and that what they keep fits.  Then that a  *)
(* race the detector reports is one, and that the first race between plain *)
(* accesses to a byte is reported.  Shadow memory keeps events that stand  *)
(* for accesses, clock vectors pass them when the accesses happen before,  *)
(* and whatever shadow memory forgets is covered by an event that it keeps.*)
(***************************************************************************)
EXTENDS DataRace, FiniteSetTheorems, WellFoundedInduction, TLAPS

----------------------------------------------------------------------------
(* The inductive invariant *)

\* Clocks grow, no thread is ahead of another one's own clock, and every thread has one
ClocksOK ==
  /\ seq \in Nat
  /\ cv \in [Thread -> [Thread -> Nat]]
  /\ running \in Thread
  /\ program \in Programs
  /\ \A t \in Thread : cv[t][t] \in 1..seq
  /\ \A t, u \in Thread : cv[t][u] <= cv[u][u]

EventOK(e) == e = [tid |-> e.tid, clock |-> e.clock] /\ e.tid \in Thread /\ e.clock \in Nat \ {0}

WordOK(s) ==
  /\ s = [full |-> s.full, reads |-> s.reads, cap |-> s.cap, wt |-> s.wt, wc |-> s.wc, atomic |-> s.atomic]
  /\ s.full \in BOOLEAN /\ s.atomic \in BOOLEAN
  /\ s.wc \in Nat /\ (s.wc # 0 => s.wt \in Thread)
  /\ \A e \in s.reads : EventOK(e)

\* A record's arrays have a power of two of places, or there are none
RecordFits(s) ==
  /\ IsFiniteSet(s.reads)
  /\ \/ s.cap = 0 /\ s.reads = {}
     \/ s.cap \in Nat /\ s.cap >= InitCapacity /\ PowerOfTwo(s.cap)
  /\ Cardinality(s.reads) <= s.cap

WordFits(s) ==
  /\ s.cap = 0
  /\ s.reads = {} \/ \E e \in s.reads : s.reads = {e}
  /\ s.wc <= MaxWriteVector
  /\ \A e \in s.reads : e.clock <= MaxWriteVector

Fits(s) == IF s.full THEN RecordFits(s) ELSE WordFits(s)

ShadowOK ==
  /\ shadow = [b \in Bytes |-> shadow[b]]
  /\ \A b \in Bytes : WordOK(shadow[b]) /\ Fits(shadow[b])

\* What a read keeps of the reads before it
Kept(C, t, s) == {e \in s.reads : ClockMayRace(C, t, e)}

Base == ClocksOK /\ ShadowOK

----------------------------------------------------------------------------
(* The operators *)

\* Twice a power of two is one: fullRaceCheckRead doubles the arrays
LEMMA DoublePower ==
  ASSUME NEW n \in Nat, PowerOfTwo(n)
  PROVE  PowerOfTwo(2 * n)
<1>1. 2 * n # 0
  BY DEF PowerOfTwo
<1>2. ASSUME NEW d \in 1..(2 * n), NEW q \in 1..(2 * n), 2 * n = d * q, d % 2 = 1
      PROVE  d = 1
  <2>1. PICK e \in Nat : d = 2 * e + 1
    BY <1>2
  <2>2. CASE q % 2 = 1
    <3>1. PICK f \in Nat : q = 2 * f + 1
      BY <2>2
    <3>2. d * q = 2 * (2 * (e * f) + e + f) + 1
      BY <2>1, <3>1
    <3>3. e * f \in Nat
      OBVIOUS
    <3> DEFINE m == 2 * (e * f) + e + f
    <3>4. m \in Nat
      BY <3>3
    <3>5. 2 * n = 2 * m + 1
      BY <3>2, <1>2, Zenon
    <3> HIDE DEF m
    <3>6. QED
      BY <3>4, <3>5
  <2>3. CASE q % 2 = 0
    <3>1. PICK f \in Nat : q = 2 * f
      BY <2>3
    <3>2. d * q = 2 * (d * f)
      BY <3>1
    <3>3. d * f \in Nat
      OBVIOUS
    <3>4. n = d * f
      BY <3>2, <3>3, <1>2
    <3>5. f # 0
      BY <3>1
    <3>6. d <= d * f /\ f <= d * f
      BY <3>5
    <3>7. d \in 1..n /\ f \in 1..n
      BY <3>4, <3>5, <3>6
    <3>8. QED
      BY <3>4, <3>7, <1>2, Zenon DEF PowerOfTwo
  <2>4. QED
    BY <2>2, <2>3
<1>3. QED
  BY <1>1, <1>2, Zenon DEF PowerOfTwo

\* The first byte of an access is one of its bytes
LEMMA FirstIn ==
  ASSUME NEW R \in SUBSET Nat, R # {}
  PROVE  First(R) \in R
<1> DEFINE Less == {ss \in Nat \X Nat : ss[1] < ss[2]}
<1>1. IsWellFoundedOn(Less, Nat)
  BY NatLessThanWellFounded, Zenon DEF OpToRel
<1>2. \E m \in R : \A k \in R : ~(<<k, m>> \in Less)
  <2> HIDE DEF Less
  <2> QED
    BY <1>1, WFMin, Zenon
<1>3. \A k, m \in Nat : k < m => <<k, m>> \in Less
  BY Zenon
<1>4. PICK m \in R : \A k \in R : m <= k
  <2>1. PICK m \in R : \A k \in R : ~(<<k, m>> \in Less)
    BY <1>2, Zenon
  <2> HIDE DEF Less
  <2>2. \A k \in R : ~(k < m)
    BY <1>3, <2>1, Zenon
  <2>3. QED
    BY <2>2
<1>5. QED
  BY <1>4, Zenon DEF First

\* The arrays have room for one more read than was kept of those in them
LEMMA CapacityFits ==
  ASSUME NEW cap \in Nat, NEW k \in Nat, k <= cap,
         cap = 0 \/ (cap >= InitCapacity /\ PowerOfTwo(cap))
  PROVE  /\ Capacity(k, cap) \in Nat
         /\ k + 1 <= Capacity(k, cap)
         /\ Capacity(k, cap) >= InitCapacity
         /\ PowerOfTwo(Capacity(k, cap))
<1>1. CASE k = 0 /\ cap = 0
  BY <1>1, CapacityAssumption DEF Capacity
<1>2. CASE ~(k = 0 /\ cap = 0) /\ PowerOfTwo(k) /\ k >= InitCapacity
  <2>1. Capacity(k, cap) = 2 * k
    BY <1>2, Zenon DEF Capacity
  <2>2. PowerOfTwo(2 * k)
    BY <1>2, DoublePower, Zenon
  <2>3. QED
    BY <1>2, <2>1, <2>2, CapacityAssumption
<1>3. CASE ~(k = 0 /\ cap = 0) /\ ~(PowerOfTwo(k) /\ k >= InitCapacity)
  <2>1. Capacity(k, cap) = cap
    BY <1>3, Zenon DEF Capacity
  <2>2. cap # 0
    BY <1>3
  <2>3. k # cap
    BY <1>3, <2>2, Zenon
  <2>4. QED
    BY <2>1, <2>2, <2>3
<1>4. QED
  BY <1>1, <1>2, <1>3, Zenon

\* expandRecord keeps what the word says
LEMMA ExpandOK ==
  ASSUME NEW s, WordOK(s), Fits(s), ~s.full
  PROVE  LET r == ExpandRecord(s)
         IN  /\ WordOK(r) /\ Fits(r) /\ r.full
             /\ r.reads = s.reads /\ r.wt = s.wt /\ r.wc = s.wc /\ r.atomic = s.atomic
             /\ s.reads # {} => r.cap = InitCapacity
<1> DEFINE c == IF s.reads # {} THEN InitCapacity ELSE 0
           r == [full |-> TRUE, reads |-> s.reads, cap |-> c, wt |-> s.wt, wc |-> s.wc, atomic |-> s.atomic]
<1>1. ExpandRecord(s) = r
  <2>1. ExpandRecord(s) = [s EXCEPT !.full = TRUE, !.cap = c]
    BY Zenon DEF ExpandRecord
  <2> HIDE DEF c
  <2>2. QED
    BY <2>1, Zenon DEF WordOK
<1>2. WordOK(r)
  BY Zenon DEF WordOK
<1>3. IsFiniteSet(s.reads) /\ Cardinality(s.reads) \in {0, 1} /\ (s.reads = {} => Cardinality(s.reads) = 0)
  BY FS_EmptySet, FS_Singleton, Zenon DEF Fits, WordFits
<1>4. RecordFits(r)
  BY <1>3, CapacityAssumption DEF RecordFits
<1>5. QED
  BY <1>1, <1>2, <1>4 DEF Fits

\* fullRaceCheckRead drops the reads the new one covers, adds it, and finds room for it
LEMMA FullReadOK ==
  ASSUME NEW C \in [Thread -> Nat], NEW t \in Thread, C[t] # 0, NEW s, WordOK(s), Fits(s), s.full
  PROVE  LET r == FullRead(C, t, s)
         IN  /\ WordOK(r) /\ Fits(r) /\ r.full
             /\ r.reads = Kept(C, t, s) \cup {Event(C, t)}
             /\ r.wt = s.wt /\ r.wc = s.wc /\ r.atomic = s.atomic
<1> DEFINE kept == Kept(C, t, s)
           c == Capacity(Cardinality(kept), s.cap)
           new == kept \cup {Event(C, t)}
           r == [full |-> TRUE, reads |-> new, cap |-> c, wt |-> s.wt, wc |-> s.wc, atomic |-> s.atomic]
<1>1. FullRead(C, t, s) = r
  <2>1. FullRead(C, t, s) = [s EXCEPT !.reads = new, !.cap = c]
    BY Zenon DEF FullRead, Kept
  <2> HIDE DEF new, c
  <2>2. QED
    BY <2>1, Zenon DEF WordOK
<1>2. EventOK(Event(C, t))
  BY Zenon DEF EventOK, Event
<1>3. WordOK(r)
  BY <1>2, Zenon DEF WordOK, Kept
<1>4. /\ IsFiniteSet(kept) /\ Cardinality(kept) \in Nat
      /\ Cardinality(kept) <= s.cap
      /\ s.cap \in Nat /\ (s.cap = 0 \/ (s.cap >= InitCapacity /\ PowerOfTwo(s.cap)))
  <2>1. IsFiniteSet(s.reads) /\ kept \subseteq s.reads /\ Cardinality(s.reads) <= s.cap
    BY Zenon DEF Fits, RecordFits, Kept
  <2>2. s.cap \in Nat /\ (s.cap = 0 \/ (s.cap >= InitCapacity /\ PowerOfTwo(s.cap)))
    <3>1. RecordFits(s)
      BY Zenon DEF Fits
    <3>2. s.cap = 0 \/ (s.cap \in Nat /\ s.cap >= InitCapacity /\ PowerOfTwo(s.cap))
      BY <3>1, Zenon DEF RecordFits
    <3>3. s.cap \in Nat
      BY <3>2
    <3>4. QED
      BY <3>2, <3>3, Zenon
  <2>3. IsFiniteSet(kept) /\ Cardinality(kept) <= Cardinality(s.reads)
    BY <2>1, FS_Subset, Zenon
  <2>4. Cardinality(kept) \in Nat /\ Cardinality(s.reads) \in Nat
    BY <2>1, <2>3, FS_CardinalityType, Zenon
  <2>5. QED
    BY <2>1, <2>2, <2>3, <2>4
<1>5. c \in Nat /\ Cardinality(kept) + 1 <= c /\ c >= InitCapacity /\ PowerOfTwo(c)
  BY <1>4, CapacityFits, Zenon
<1>6. IsFiniteSet(new) /\ Cardinality(new) \in Nat /\ Cardinality(new) <= Cardinality(kept) + 1
  <2>1. IsFiniteSet(new) /\ (Cardinality(new) = Cardinality(kept) \/ Cardinality(new) = Cardinality(kept) + 1)
    BY <1>4, FS_AddElement, Zenon
  <2>2. QED
    BY <1>4, <2>1
<1>7. RecordFits(r)
  <2> HIDE DEF kept, c, new
  <2> QED
    BY <1>4, <1>5, <1>6, CapacityAssumption DEF RecordFits
<1>8. QED
  BY <1>1, <1>3, <1>7 DEF Fits

\* Whatever form it takes, a read is added to the reads it does not cover
LEMMA ReadOK ==
  ASSUME NEW C \in [Thread -> Nat], NEW t \in Thread, C[t] # 0, NEW s, WordOK(s), Fits(s)
  PROVE  LET r == Read(C, t, s)
         IN  /\ WordOK(r) /\ Fits(r)
             /\ r.reads = Kept(C, t, s) \cup {Event(C, t)}
             /\ r.wt = s.wt /\ r.wc = s.wc /\ r.atomic = s.atomic
<1>1. CASE s.full
  <2>1. Read(C, t, s) = FullRead(C, t, s)
    BY <1>1, Zenon DEF Read
  <2>2. QED
    BY <1>1, <2>1, FullReadOK
<1>2. CASE ~s.full /\ TooLarge(C, t)
  <2> DEFINE x == ExpandRecord(s)
  <2>1. Read(C, t, s) = FullRead(C, t, x)
    BY <1>2, Zenon DEF Read
  <2>2. /\ WordOK(x) /\ Fits(x) /\ x.full
        /\ x.reads = s.reads /\ x.wt = s.wt /\ x.wc = s.wc /\ x.atomic = s.atomic
    BY <1>2, ExpandOK, Zenon
  <2>3. Kept(C, t, x) = Kept(C, t, s)
    BY <2>2, Zenon DEF Kept
  <2> HIDE DEF x
  <2>4. QED
    BY <2>1, <2>2, <2>3, FullReadOK
<1>3. CASE ~s.full /\ ~TooLarge(C, t) /\ RacesWithRead(C, t, s)
  <2> DEFINE x == ExpandRecord(s)
             new == s.reads \cup {Event(C, t)}
             r == [full |-> TRUE, reads |-> new, cap |-> InitCapacity, wt |-> s.wt, wc |-> s.wc, atomic |-> s.atomic]
  <2>1. PICK e \in s.reads : s.reads = {e} /\ ClockMayRace(C, t, e)
    BY <1>3, Zenon DEF RacesWithRead, Fits, WordFits
  <2>2. Read(C, t, s) = [x EXCEPT !.reads = @ \cup {Event(C, t)}]
    BY <1>3, Zenon DEF Read
  <2>3. /\ WordOK(x) /\ x.full
        /\ x.reads = s.reads /\ x.wt = s.wt /\ x.wc = s.wc /\ x.atomic = s.atomic
        /\ x.cap = InitCapacity
    BY <1>3, <2>1, ExpandOK, Zenon
  <2>4. Read(C, t, s) = r
    <3> HIDE DEF x
    <3> QED
      BY <2>2, <2>3, Zenon DEF WordOK
  <2>5. Kept(C, t, s) = s.reads
    BY <2>1, Zenon DEF Kept
  <2>6. EventOK(Event(C, t))
    BY Zenon DEF EventOK, Event
  <2>7. WordOK(r)
    BY <2>6, Zenon DEF WordOK
  <2>8. IsFiniteSet({e}) /\ Cardinality({e}) = 1
    BY FS_Singleton, Zenon
  <2>9. IsFiniteSet(new) /\ (Cardinality(new) = 1 \/ Cardinality(new) = 2)
    BY <2>1, <2>8, FS_AddElement
  <2>10. RecordFits(r)
    <3> HIDE DEF new
    <3> QED
      BY <2>9, CapacityAssumption DEF RecordFits
  <2>11. QED
    BY <2>4, <2>5, <2>7, <2>10 DEF Fits
<1>4. CASE ~s.full /\ ~TooLarge(C, t) /\ ~RacesWithRead(C, t, s)
  <2> DEFINE r == Word({Event(C, t)}, s.wt, s.wc, s.atomic)
  <2>1. Read(C, t, s) = r
    BY <1>4, Zenon DEF Read
  <2>2. Kept(C, t, s) = {}
    BY <1>4, Zenon DEF Kept, RacesWithRead
  <2>3. EventOK(Event(C, t))
    BY Zenon DEF EventOK, Event
  <2>4. WordOK(r) /\ r.reads = {Event(C, t)} /\ r.wt = s.wt /\ r.wc = s.wc /\ r.atomic = s.atomic /\ ~r.full
    BY <2>3, Zenon DEF WordOK, Word
  <2>5. WordFits(r)
    BY <1>4, MaxWriteVectorAssumption DEF WordFits, Word, Fits, TooLarge, Event
  <2>6. QED
    BY <2>1, <2>2, <2>4, <2>5, Zenon DEF Fits
<1>5. QED
  BY <1>1, <1>2, <1>3, <1>4, Zenon

\* A write forgets the reads and becomes the last write
LEMMA WrittenOK ==
  ASSUME NEW C \in [Thread -> Nat], NEW t \in Thread, C[t] # 0, NEW s, WordOK(s), Fits(s), NEW at \in BOOLEAN
  PROVE  LET r == Written(C, t, s, at)
         IN  /\ WordOK(r) /\ Fits(r)
             /\ r.reads = {} /\ r.wt = t /\ r.wc = C[t] /\ r.atomic = at
<1>1. CASE s.full \/ TooLarge(C, t)
  <2> DEFINE x == IF s.full THEN s ELSE ExpandRecord(s)
             r == [full |-> TRUE, reads |-> {}, cap |-> x.cap, wt |-> t, wc |-> C[t], atomic |-> at]
  <2>1. Written(C, t, s, at) = [x EXCEPT !.reads = {}, !.wt = t, !.wc = C[t], !.atomic = at]
    BY <1>1, Zenon DEF Written
  <2>2. WordOK(x) /\ Fits(x) /\ x.full
    BY ExpandOK, Zenon
  <2> HIDE DEF x
  <2>3. Written(C, t, s, at) = r
    BY <2>1, <2>2, Zenon DEF WordOK
  <2>4. WordOK(r)
    BY Zenon DEF WordOK
  <2>5. RecordFits(r)
    BY <2>2, FS_EmptySet DEF RecordFits, Fits
  <2>6. QED
    BY <2>3, <2>4, <2>5 DEF Fits
<1>2. CASE ~(s.full \/ TooLarge(C, t))
  <2> DEFINE r == Word({}, t, C[t], at)
  <2>1. Written(C, t, s, at) = r
    BY <1>2, Zenon DEF Written
  <2>2. WordOK(r) /\ ~r.full /\ r.reads = {} /\ r.wt = t /\ r.wc = C[t] /\ r.atomic = at
    BY Zenon DEF WordOK, Word
  <2>3. WordFits(r)
    BY <1>2, MaxWriteVectorAssumption DEF WordFits, Word, TooLarge
  <2>4. QED
    BY <2>1, <2>2, <2>3, Zenon DEF Fits
<1>3. QED
  BY <1>1, <1>2, Zenon

\* Every check leaves a word or a record that fits
LEMMA CheckOK ==
  ASSUME NEW C \in [Thread -> Nat], NEW t \in Thread, C[t] # 0, NEW s, WordOK(s), Fits(s), NEW kind \in Kinds
  PROVE  WordOK(Check(kind, C, t, s).s) /\ Fits(Check(kind, C, t, s).s)
<1> DEFINE r == Check(kind, C, t, s).s
<1>1. r \in {s, Read(C, t, s), Written(C, t, s, TRUE), Written(C, t, s, FALSE)}
  BY Zenon DEF Kinds, Check, RaceCheckRead, RaceCheckWrite, AtomRaceCheckRead, AtomRaceCheckWrite, RecordWrite, RMWCheck, Result
<1>2. WordOK(Read(C, t, s)) /\ Fits(Read(C, t, s))
  BY ReadOK, Zenon
<1>3. \A at \in BOOLEAN : WordOK(Written(C, t, s, at)) /\ Fits(Written(C, t, s, at))
  BY WrittenOK, Zenon
<1> HIDE DEF r
<1>4. QED
  BY <1>1, <1>2, <1>3, Zenon DEF r

\* The bytes found to race, and the shadow left, when every byte is checked
Found(kind, C, t, R, S) == {b \in CheckedBytes(kind, R) : Check(kind, C, t, S[b]).race}
NewShadow(kind, C, t, R, S) ==
  [b \in Bytes |-> IF b \in CheckedBytes(kind, R) THEN Check(kind, C, t, S[b]).s ELSE S[b]]

\* The bytes of an access are checked one by one, or have the same word as the first
LEMMA CheckBytesOK ==
  ASSUME NEW kind \in Kinds, NEW C, NEW t, NEW R \in SUBSET Bytes, R # {}, NEW S
  PROVE  /\ CheckedBytes(kind, R) \subseteq R
         /\ CheckBytes(kind, C, t, R, S).shadow = NewShadow(kind, C, t, R, S)
         /\ CheckBytes(kind, C, t, R, S).races \subseteq Found(kind, C, t, R, S)
         /\ Found(kind, C, t, R, S) \subseteq CheckBytes(kind, C, t, R, S).races \cup CheckBytes(kind, C, t, R, S).shared
<1> DEFINE res == CheckBytes(kind, C, t, R, S)
           checked == CheckedBytes(kind, R)
           one == Check(kind, C, t, S[First(R)])
           result == [b \in checked |-> Check(kind, C, t, S[b])]
           fast == {b \in checked : Fast(kind, R, b, S, one)}
<1>1. checked \subseteq R
  BY FirstIn, BytesAssumption, Zenon DEF CheckedBytes
<1>2. /\ res.races = {b \in checked \ fast : result[b].race}
      /\ res.shared = IF one.race THEN fast ELSE {}
      /\ res.shadow = [b \in Bytes |-> IF b \in fast THEN one.s ELSE IF b \in checked THEN result[b].s ELSE S[b]]
  BY Zenon DEF CheckBytes
<1>3. \A b \in fast : S[b] = S[First(R)]
  <2>1. \A b \in R : b <= b
    BY BytesAssumption
  <2>2. fast \subseteq R
    BY <1>1, Zenon
  <2>3. QED
    BY <2>1, <2>2, Zenon DEF Fast
<1>4. \A b \in checked : result[b] = Check(kind, C, t, S[b])
  BY Zenon
<1>5. \A b \in fast : result[b] = one /\ b \in checked
  BY <1>3, <1>4, Zenon
<1> HIDE DEF one, result, checked, fast, res
<1>6. res.shadow = [b \in Bytes |-> IF b \in checked THEN Check(kind, C, t, S[b]).s ELSE S[b]]
  BY <1>2, <1>4, <1>5
<1>7. res.races \subseteq {b \in checked : Check(kind, C, t, S[b]).race}
  BY <1>2, <1>4, Zenon
<1>8. {b \in checked : Check(kind, C, t, S[b]).race} \subseteq res.races \cup res.shared
  BY <1>2, <1>4, <1>5
<1>9. QED
  BY <1>1, <1>6, <1>7, <1>8, Zenon DEF res, checked, NewShadow, Found

\* The shadow is the one left when every byte is checked
LEMMA ShadowOfBytes ==
  ASSUME NEW kind \in Kinds, NEW C, NEW t, NEW R \in SUBSET Bytes, R # {}, NEW S
  PROVE  CheckBytes(kind, C, t, R, S).shadow = NewShadow(kind, C, t, R, S)
<1>1. /\ CheckedBytes(kind, R) \subseteq R
      /\ CheckBytes(kind, C, t, R, S).shadow = NewShadow(kind, C, t, R, S)
      /\ CheckBytes(kind, C, t, R, S).races \subseteq Found(kind, C, t, R, S)
      /\ Found(kind, C, t, R, S) \subseteq CheckBytes(kind, C, t, R, S).races \cup CheckBytes(kind, C, t, R, S).shared
  BY CheckBytesOK, Zenon
<1>2. QED
  BY <1>1, Zenon

\* setAtomicStoreFlag changes only the mark
LEMMA FlagOK ==
  ASSUME ShadowOK, NEW kind \in Kinds, NEW R \in SUBSET Bytes, R # {}
  PROVE  \A b \in Bytes :
           /\ WordOK(SetAtomicStoreFlag(kind, R, shadow)[b])
           /\ Fits(SetAtomicStoreFlag(kind, R, shadow)[b])
           /\ SetAtomicStoreFlag(kind, R, shadow)[b].reads = shadow[b].reads
           /\ SetAtomicStoreFlag(kind, R, shadow)[b].wt = shadow[b].wt
           /\ SetAtomicStoreFlag(kind, R, shadow)[b].wc = shadow[b].wc
           /\ shadow[b].atomic => SetAtomicStoreFlag(kind, R, shadow)[b].atomic
<1> DEFINE S == SetAtomicStoreFlag(kind, R, shadow)
<1>1. CASE kind = "store"
  BY <1>1, Zenon DEF SetAtomicStoreFlag, ShadowOK
<1>2. CASE kind # "store"
  <2>1. S = [shadow EXCEPT ![First(R)] = [shadow[First(R)] EXCEPT !.atomic = TRUE]]
    BY <1>2, Zenon DEF SetAtomicStoreFlag
  <2>2. First(R) \in Bytes
    BY FirstIn, BytesAssumption, Zenon
  <2>3. S = [b \in Bytes |-> IF b = First(R) THEN [shadow[b] EXCEPT !.atomic = TRUE] ELSE shadow[b]]
    BY <2>1, <2>2, Zenon DEF ShadowOK
  <2>4. ASSUME NEW s, WordOK(s), Fits(s)
        PROVE  LET r == [s EXCEPT !.atomic = TRUE]
               IN  WordOK(r) /\ Fits(r) /\ r.reads = s.reads /\ r.wc = s.wc /\ r.wt = s.wt /\ r.atomic
    <3> DEFINE r == [full |-> s.full, reads |-> s.reads, cap |-> s.cap, wt |-> s.wt, wc |-> s.wc, atomic |-> TRUE]
    <3>1. [s EXCEPT !.atomic = TRUE] = r
      <4>1. s = [full |-> s.full, reads |-> s.reads, cap |-> s.cap, wt |-> s.wt, wc |-> s.wc, atomic |-> s.atomic]
        BY <2>4, Zenon DEF WordOK
      <4>2. \A at : [s EXCEPT !.atomic = at] =
                    [full |-> s.full, reads |-> s.reads, cap |-> s.cap, wt |-> s.wt, wc |-> s.wc, atomic |-> at]
        BY <4>1
      <4>3. QED
        BY <4>2, Zenon
    <3>2. WordOK(r)
      BY <2>4, Zenon DEF WordOK
    <3>3. Fits(r)
      BY <2>4, Zenon DEF Fits, RecordFits, WordFits
    <3>4. QED
      BY <3>1, <3>2, <3>3, Zenon
  <2>5. \A b \in Bytes : WordOK(shadow[b]) /\ Fits(shadow[b])
    BY Zenon DEF ShadowOK
  <2> HIDE DEF S
  <2>6. ASSUME NEW b \in Bytes
        PROVE  /\ WordOK(S[b]) /\ Fits(S[b])
               /\ S[b].reads = shadow[b].reads /\ S[b].wt = shadow[b].wt
               /\ S[b].wc = shadow[b].wc
               /\ shadow[b].atomic => S[b].atomic
    <3>1. CASE b = First(R)
      <4>1. S[b] = [shadow[b] EXCEPT !.atomic = TRUE]
        BY <2>3, <3>1, Zenon
      <4>2. QED
        BY <2>4, <2>5, <4>1, Zenon
    <3>2. CASE b # First(R)
      BY <2>3, <2>5, <3>2, Zenon
    <3>3. QED
      BY <3>1, <3>2, Zenon
  <2>7. QED
    BY <2>6, Zenon DEF S
<1>3. QED
  BY <1>1, <1>2, Zenon DEF Kinds

----------------------------------------------------------------------------
(* Clocks, words and records *)

\* A thread's next action has the largest clock, and its vector what it merged
LEMMA ActOK ==
  ASSUME ClocksOK, NEW t \in Thread, NEW C \in [Thread -> Nat], \A x \in Thread : C[x] <= cv[x][x],
         Act(t, C), program' = program
  PROVE  /\ ClocksOK'
         /\ cv'[t][t] = seq + 1
         /\ \A x \in Thread \ {t} : cv'[t][x] = C[x]
         /\ \A u \in Thread \ {t} : cv'[u] = cv[u]
<1>1. /\ seq' = seq + 1 /\ running' = t
      /\ cv' = [cv EXCEPT ![t] = [C EXCEPT ![t] = seq + 1]]
  BY Zenon DEF Act
<1>2. /\ seq \in Nat /\ cv \in [Thread -> [Thread -> Nat]]
      /\ \A x \in Thread : cv[x][x] \in 1..seq
      /\ \A x, y \in Thread : cv[x][y] <= cv[y][y]
  BY Zenon DEF ClocksOK
<1>3. cv' \in [Thread -> [Thread -> Nat]]
  BY <1>1, <1>2
<1>4. /\ cv'[t][t] = seq + 1
      /\ \A x \in Thread \ {t} : cv'[t][x] = C[x]
      /\ \A u \in Thread \ {t} : cv'[u] = cv[u]
  BY <1>1, <1>2, Zenon
<1>5. \A x \in Thread : cv'[x][x] \in 1..seq'
  BY <1>1, <1>2, <1>4
<1>6. \A x, y \in Thread : cv'[x][y] <= cv'[y][y]
  <2> SUFFICES ASSUME NEW x \in Thread, NEW y \in Thread
               PROVE  cv'[x][y] <= cv'[y][y]
    BY Zenon
  <2>0. cv[x][y] \in Nat /\ cv[y][y] \in Nat /\ cv[y][y] <= seq /\ cv[x][y] <= cv[y][y]
    BY <1>2
  <2>1. CASE y = t
    BY <1>2, <1>4, <2>0, <2>1
  <2>2. CASE y # t
    BY <1>2, <1>4, <2>0, <2>2, Zenon
  <2>3. QED
    BY <2>1, <2>2, Zenon
<1>7. QED
  BY <1>1, <1>2, <1>3, <1>4, <1>5, <1>6 DEF ClocksOK

\* What a program may do is what the constants allow
LEMMA Allowed ==
  ASSUME ClocksOK
  PROVE  /\ program.kinds \subseteq Kinds
         /\ program.threads \subseteq Thread
         /\ \A R \in program.ranges : R # {} /\ R \in SUBSET Bytes
         /\ \A t \in Thread : cv[t] \in [Thread -> Nat] /\ cv[t][t] # 0 /\ \A x \in Thread : cv[t][x] <= cv[x][x]
         /\ \A t, u \in Thread : /\ Merge(cv[t], cv[u]) \in [Thread -> Nat]
                                 /\ \A x \in Thread : Merge(cv[t], cv[u])[x] <= cv[x][x]
<1>1. /\ program \in Programs /\ cv \in [Thread -> [Thread -> Nat]] /\ seq \in Nat
      /\ \A x \in Thread : cv[x][x] \in 1..seq
      /\ \A x, y \in Thread : cv[x][y] <= cv[y][y]
  BY Zenon DEF ClocksOK
<1>2. /\ program.kinds \subseteq Kinds /\ program.threads \subseteq Thread
      /\ \A R \in program.ranges : R # {} /\ R \in SUBSET Bytes
  BY <1>1, ProgramAssumption, Zenon
<1>3. \A t \in Thread : cv[t] \in [Thread -> Nat] /\ cv[t][t] # 0 /\ \A x \in Thread : cv[t][x] <= cv[x][x]
  BY <1>1
<1>4. ASSUME NEW t \in Thread, NEW u \in Thread
      PROVE  /\ Merge(cv[t], cv[u]) \in [Thread -> Nat]
             /\ \A x \in Thread : Merge(cv[t], cv[u])[x] <= cv[x][x]
  <2>1. \A x \in Thread : cv[t][x] \in Nat /\ cv[u][x] \in Nat
    BY <1>1, Zenon
  <2>2. QED
    BY <1>3, <2>1, Zenon DEF Merge, MaxNat
<1>5. QED
  BY <1>2, <1>3, <1>4, Zenon

\* An access leaves words and records that fit, in the shadow S it starts from
LEMMA ApplyShadow ==
  ASSUME NEW kind \in Kinds, NEW C \in [Thread -> Nat], NEW t \in Thread, C[t] # 0,
         NEW R \in SUBSET Bytes, R # {}, NEW S, \A b \in Bytes : WordOK(S[b]) /\ Fits(S[b]),
         shadow' = CheckBytes(kind, C, t, R, S).shadow
  PROVE  ShadowOK' /\ shadow' = NewShadow(kind, C, t, R, S)
<1>1. shadow' = NewShadow(kind, C, t, R, S)
  BY ShadowOfBytes, Zenon
<1>2. \A b \in Bytes : WordOK(Check(kind, C, t, S[b]).s) /\ Fits(Check(kind, C, t, S[b]).s)
  BY CheckOK, Zenon
<1>3. \A b \in Bytes : WordOK(shadow'[b]) /\ Fits(shadow'[b])
  BY <1>1, <1>2, Zenon DEF NewShadow
<1>4. shadow' = [b \in Bytes |-> shadow'[b]]
  BY <1>1, Zenon DEF NewShadow
<1>5. QED
  BY <1>1, <1>3, <1>4, Zenon DEF ShadowOK

\* Every step keeps the clocks ordered and the words and records fitting
LEMMA BaseNext ==
  ASSUME Base, [Next]_vars
  PROVE  Base'
<1> USE DEF Base
<1>1. ASSUME NEW t \in program.threads, NEW u \in program.threads, Synchronise(t, u)
      PROVE  Base'
  <2>1. t \in Thread /\ u \in Thread
    BY Allowed, Zenon
  <2>2. Act(t, Merge(cv[t], cv[u])) /\ program' = program /\ shadow' = shadow
    BY <1>1, Zenon DEF Synchronise
  <2>3. ClocksOK'
    BY <2>1, <2>2, Allowed, ActOK, Zenon
  <2>4. ShadowOK'
    BY <2>2, Zenon DEF ShadowOK
  <2>5. QED
    BY <2>3, <2>4, Zenon
<1>2. ASSUME NEW kind \in program.kinds, NEW R \in program.ranges, PlainAccess(kind, R)
      PROVE  Base'
  <2>1. kind \in Kinds /\ R \in SUBSET Bytes /\ R # {}
    BY Allowed, Zenon
  <2>2. /\ cv' = cv /\ seq' = seq /\ running' = running /\ program' = program
        /\ shadow' = CheckBytes(kind, cv[running], running, R, shadow).shadow
    BY <1>2, Zenon DEF PlainAccess, Apply
  <2>3. ClocksOK'
    BY <2>2, Zenon DEF ClocksOK
  <2>4. running \in Thread /\ cv[running] \in [Thread -> Nat] /\ cv[running][running] # 0
    BY Allowed, Zenon DEF ClocksOK
  <2>5. \A b \in Bytes : WordOK(shadow[b]) /\ Fits(shadow[b])
    BY Zenon DEF ShadowOK
  <2>6. ShadowOK'
    BY <2>1, <2>2, <2>4, <2>5, ApplyShadow, Zenon
  <2>7. QED
    BY <2>3, <2>6, Zenon
<1>3. ASSUME NEW kind \in program.kinds, NEW t \in program.threads, NEW R \in program.ranges, AtomicAccess(kind, t, R)
      PROVE  Base'
  <2> DEFINE S == SetAtomicStoreFlag(kind, R, shadow)
  <2>1. kind \in Kinds /\ R \in SUBSET Bytes /\ R # {} /\ t \in Thread
    BY Allowed, Zenon
  <2>2. /\ Act(t, cv[t]) /\ program' = program
        /\ shadow' = CheckBytes(kind, cv'[t], t, R, S).shadow
    BY <1>3, Zenon DEF AtomicAccess, Apply
  <2>3. ClocksOK'
    BY <2>1, <2>2, Allowed, ActOK, Zenon
  <2>4. cv'[t] \in [Thread -> Nat] /\ cv'[t][t] # 0
    BY <2>1, <2>3 DEF ClocksOK
  <2>5. \A b \in Bytes : WordOK(S[b]) /\ Fits(S[b])
    BY <2>1, FlagOK, Zenon
  <2> HIDE DEF S
  <2>6. ShadowOK'
    BY <2>1, <2>2, <2>4, <2>5, ApplyShadow, Zenon
  <2>7. QED
    BY <2>3, <2>6, Zenon
<1>4. CASE UNCHANGED vars
  BY <1>4, Zenon DEF vars, ClocksOK, ShadowOK
<1>5. QED
  BY <1>1, <1>2, <1>3, <1>4, Zenon DEF Next

\* Threads start with the clocks of their creation, and shadow memory empty
LEMMA BaseInit ==
  ASSUME Init
  PROVE  Base
<1>1. N \in Nat /\ N >= 2 /\ Thread = 1..N
  BY ThreadAssumption, FS_CardinalityType, Zenon DEF N
<1>2. ClocksOK
  <2>1. seq = 2 * N - 1 /\ running = 1 /\ program \in Programs
    BY Zenon DEF Init
  <2>2. /\ cv = [t \in Thread |-> [u \in Thread |-> cv[t][u]]]
        /\ \A t, u \in Thread : cv[t][u] = CASE t = 1 /\ u = 1 -> 2 * N - 2
                                            [] t # 1 /\ u = 1 -> 2 * t - 2
                                            [] t # 1 /\ u = t -> 2 * t - 1
                                            [] OTHER -> 0
    BY Zenon DEF Init
  <2>3. \A t, u \in Thread : cv[t][u] \in Nat
    BY <1>1, <2>2
  <2>4. \A t \in Thread : cv[t][t] \in 1..seq
    BY <1>1, <2>1, <2>2
  <2>5. \A t, u \in Thread : cv[t][u] <= cv[u][u]
    BY <1>1, <2>2
  <2>6. cv \in [Thread -> [Thread -> Nat]]
    BY <2>2, <2>3
  <2>7. QED
    BY <1>1, <2>1, <2>4, <2>5, <2>6 DEF ClocksOK
<1>3. WordOK(Empty) /\ Fits(Empty)
  BY MaxWriteVectorAssumption DEF Empty, Word, WordOK, Fits, WordFits
<1>4. ShadowOK
  BY <1>3, Zenon DEF Init, ShadowOK
<1>5. QED
  BY <1>2, <1>4, Zenon DEF Base

\* What the checks keep of an access fits where they put it, for every number of
\* threads and every program: a packed word holds one read and clocks of its
\* width, and fullRaceCheckRead never writes past a record's arrays.
THEOREM ShadowAlwaysFits == Spec => []ShadowFits
<1>1. Init => Base
  BY BaseInit, Zenon
<1>2. Base /\ [Next]_vars => Base'
  BY BaseNext, Zenon
<1>3. Base => ShadowFits
  <2> SUFFICES ASSUME Base, NEW b \in Bytes
               PROVE  LET s == shadow[b]
                      IN  \/ s.full /\ Cardinality(s.reads) <= s.cap
                          \/ ~s.full /\ Cardinality(s.reads) <= 1 /\ {s.wc} \cup {e.clock : e \in s.reads} \subseteq 0..MaxWriteVector
    BY Zenon DEF ShadowFits
  <2> DEFINE s == shadow[b]
  <2>1. WordOK(s) /\ Fits(s)
    BY Zenon DEF Base, ShadowOK
  <2>2. CASE s.full
    BY <2>1, <2>2, Zenon DEF Fits, RecordFits
  <2>3. CASE ~s.full
    <3>1. WordFits(s)
      BY <2>1, <2>3, Zenon DEF Fits
    <3>2. Cardinality(s.reads) <= 1
      <4>1. CASE s.reads = {}
        BY <4>1, FS_EmptySet
      <4>2. CASE \E e \in s.reads : s.reads = {e}
        <5>1. PICK e \in s.reads : s.reads = {e}
          BY <4>2, Zenon
        <5>2. Cardinality({e}) = 1
          BY FS_Singleton, Zenon
        <5>3. QED
          BY <5>1, <5>2
      <4>3. QED
        BY <3>1, <4>1, <4>2, Zenon DEF WordFits
    <3>3. {s.wc} \cup {e.clock : e \in s.reads} \subseteq 0..MaxWriteVector
      BY <2>1, <3>1, MaxWriteVectorAssumption DEF WordFits, WordOK, EventOK
    <3>4. QED
      BY <2>3, <3>2, <3>3, Zenon
  <2>4. QED
    BY <2>1, <2>2, <2>3, Zenon DEF WordOK
<1>4. QED
  BY <1>1, <1>2, <1>3, PTL DEF Spec

----------------------------------------------------------------------------
(* Programs of atomic accesses *)

\* With atomic accesses alone, a word is marked atomic as soon as it has a write
AtomicOK == \A b \in Bytes : shadow[b].reads = {} /\ (shadow[b].wc # 0 => shadow[b].atomic)

\* The inductive step for programs that make atomic accesses alone: nothing is reported
LEMMA AtomicNext ==
  ASSUME Base, NoPlainAccesses(program), AtomicOK, reported = {}, [Next]_vars
  PROVE  AtomicOK' /\ reported' = {}
<1>0. ClocksOK /\ ShadowOK
  BY Zenon DEF Base
<1>1. ASSUME NEW t \in program.threads, NEW u \in program.threads, Synchronise(t, u)
      PROVE  AtomicOK' /\ reported' = {}
  BY <1>1, Zenon DEF Synchronise, AtomicOK
<1>2. ASSUME NEW kind \in program.kinds, NEW R \in program.ranges, PlainAccess(kind, R)
      PROVE  AtomicOK' /\ reported' = {}
  BY <1>2, Zenon DEF PlainAccess, NoPlainAccesses
<1>3. ASSUME NEW kind \in program.kinds, NEW t \in program.threads, NEW R \in program.ranges, AtomicAccess(kind, t, R)
      PROVE  AtomicOK' /\ reported' = {}
  <2> DEFINE S == SetAtomicStoreFlag(kind, R, shadow)
  <2>1. kind \in {"load", "store", "rmw", "cas", "failedcas"} /\ kind \in Kinds /\ R \in SUBSET Bytes /\ R # {} /\ t \in Thread
    <3>1. kind \in Kinds /\ R \in SUBSET Bytes /\ R # {} /\ t \in Thread
      BY <1>0, Allowed, Zenon
    <3>2. ~IsPlain(kind)
      BY <1>3, Zenon DEF AtomicAccess
    <3>3. QED
      BY <3>1, <3>2, Zenon DEF IsPlain, IsMemop, Kinds
  <2>2. /\ Act(t, cv[t]) /\ program' = program
        /\ shadow' = CheckBytes(kind, cv'[t], t, R, S).shadow
        /\ reported' = reported \cup CheckBytes(kind, cv'[t], t, R, S).races
    BY <1>3, Zenon DEF AtomicAccess, Apply
  <2>3. cv'[t] \in [Thread -> Nat] /\ cv'[t][t] # 0
    <3>1. ClocksOK'
      BY <1>0, <2>1, <2>2, Allowed, ActOK, Zenon
    <3>2. QED
      BY <2>1, <3>1 DEF ClocksOK
  <2>4. \A b \in Bytes : WordOK(S[b]) /\ Fits(S[b]) /\ S[b].reads = {} /\ (S[b].wc # 0 => S[b].atomic)
    <3>1. \A b \in Bytes : /\ WordOK(S[b]) /\ Fits(S[b])
                           /\ S[b].reads = shadow[b].reads /\ S[b].wc = shadow[b].wc
                           /\ shadow[b].atomic => S[b].atomic
      BY <1>0, <2>1, FlagOK, Zenon
    <3> HIDE DEF S
    <3> QED
      BY <3>1, Zenon DEF AtomicOK
  <2> HIDE DEF S
  <2>5. ASSUME NEW b \in Bytes
        PROVE  LET r == Check(kind, cv'[t], t, S[b])
               IN  ~r.race /\ r.s.reads = {} /\ (r.s.wc # 0 => r.s.atomic)
    <3>1. ~RacesWithRead(cv'[t], t, S[b]) /\ (RacesWithWrite(cv'[t], t, S[b]) => S[b].atomic)
      BY <2>4, Zenon DEF RacesWithRead, RacesWithWrite, ClockMayRace, LastWrite
    <3>2. ~Check(kind, cv'[t], t, S[b]).race
      BY <2>1, <3>1, Zenon DEF Check, AtomRaceCheckRead, AtomRaceCheckWrite, RMWCheck, RecordWrite, Result
    <3>3. Check(kind, cv'[t], t, S[b]).s \in {S[b], Written(cv'[t], t, S[b], TRUE)}
      BY <2>1, Zenon DEF Check, AtomRaceCheckRead, AtomRaceCheckWrite, RMWCheck, RecordWrite, Result
    <3>4. Written(cv'[t], t, S[b], TRUE).reads = {} /\ Written(cv'[t], t, S[b], TRUE).atomic
      <4>1. TRUE \in BOOLEAN
        BY Zenon
      <4>2. QED
        BY <2>1, <2>3, <2>4, <4>1, WrittenOK, Zenon
    <3>5. QED
      BY <2>4, <3>2, <3>3, <3>4, Zenon
  <2>6. /\ CheckBytes(kind, cv'[t], t, R, S).shadow = NewShadow(kind, cv'[t], t, R, S)
        /\ CheckBytes(kind, cv'[t], t, R, S).races \subseteq Found(kind, cv'[t], t, R, S)
        /\ CheckedBytes(kind, R) \subseteq R
    BY <2>1, CheckBytesOK
  <2>7. Found(kind, cv'[t], t, R, S) = {}
    BY <2>1, <2>5, <2>6, Zenon DEF Found
  <2>8. AtomicOK'
    BY <2>2, <2>4, <2>5, <2>6, Zenon DEF NewShadow, AtomicOK
  <2>9. QED
    BY <2>2, <2>6, <2>7, <2>8, Zenon
<1>4. CASE UNCHANGED vars
  BY <1>4, Zenon DEF vars, AtomicOK
<1>5. QED
  BY <1>1, <1>2, <1>3, <1>4, Zenon DEF Next

----------------------------------------------------------------------------
(* No race is false: the inductive invariant *)

Ids == {a.id : a \in accs}

\* The ids of accesses are numbered without gaps, a thread has seen its own
\* accesses, and those of others only by way of its last action
AccessesOK ==
  /\ IsFiniteSet(Ids) /\ Ids = 1..Cardinality(Ids)
  /\ \A a \in accs : a = [id |-> a.id, tid |-> a.tid, byte |-> a.byte, kind |-> a.kind] /\ a.tid \in Thread
  /\ seen \in [Thread -> SUBSET Ids] /\ released \in [Thread -> SUBSET Ids]
  /\ \A t \in Thread : released[t] \subseteq seen[t]
  /\ \A a \in accs : a.id \in seen[a.tid]
  /\ \A a \in accs, t \in Thread : a.tid # t /\ a.id \in seen[t] => a.id \in released[t]

\* The event e, kept in shadow memory, is the access a: the threads whose clock
\* vectors V have passed e are those whose last action published a in P
Stands(V, P, e, a) ==
  /\ a.tid = e.tid
  /\ e.clock <= V[e.tid][e.tid]
  /\ \A u \in Thread : V[u][e.tid] > e.clock <=> a.id \in P[u]

\* Every event that s keeps for byte b is a plain access in A to b, the last write a write
Sound(V, P, A, s, b) ==
  /\ s.wc # 0 =>
       \E a \in A : a.byte = b /\ IsPlain(a.kind) /\ IsWrite(a.kind) /\ Stands(V, P, LastWrite(s), a)
  /\ \A e \in s.reads : \E a \in A : a.byte = b /\ IsPlain(a.kind) /\ Stands(V, P, e, a)

SoundInv ==
  /\ Base /\ AccessesOK
  /\ NoAtomicWrites(program) => \A b \in Bytes : Sound(cv, released, accs, shadow[b], b)
  /\ NoPlainAccesses(program) => AtomicOK /\ reported = {}
  /\ NoFalseRace

----------------------------------------------------------------------------
(* Which accesses happen before which *)

\* The access with number id, by t, of the bytes R
Accesses(kind, t, R, id) == {[id |-> id, tid |-> t, byte |-> b, kind |-> kind] : b \in R}

\* A new access gets a number of its own, and only its thread has seen it, until
\* an action of that thread publishes it
LEMMA AccessesApply ==
  ASSUME AccessesOK, NEW kind, NEW t \in Thread, NEW R, R # {}, NEW id, id = Cardinality(Ids) + 1,
         accs' = accs \cup Accesses(kind, t, R, id), seen' = [seen EXCEPT ![t] = @ \cup {id}],
         released' = released \/ released' = [released EXCEPT ![t] = seen'[t]]
  PROVE  AccessesOK' /\ id \notin Ids
<1>1. PICK n \in Nat : n = Cardinality(Ids) /\ Ids = 1..n /\ IsFiniteSet(Ids)
  BY FS_CardinalityType, Zenon DEF AccessesOK
<1>2. id = n + 1 /\ id \notin Ids
  <2>1. id = n + 1
    BY <1>1, Zenon
  <2>2. n + 1 \notin 1..n
    OBVIOUS
  <2>3. QED
    BY <1>1, <2>1, <2>2, Zenon
<1>3. Ids' = Ids \cup {id}
  <2>1. Ids' = {a.id : a \in accs} \cup {a.id : a \in Accesses(kind, t, R, id)}
    BY Zenon DEF Ids
  <2>2. \A a \in Accesses(kind, t, R, id) : a.id = id
    BY DEF Accesses
  <2>3. Accesses(kind, t, R, id) # {}
    BY Zenon DEF Accesses
  <2>4. {a.id : a \in Accesses(kind, t, R, id)} = {id}
    BY <2>2, <2>3, Zenon
  <2>5. QED
    BY <2>1, <2>4, Zenon DEF Ids
<1>4. IsFiniteSet(Ids') /\ Cardinality(Ids') = n + 1
  BY <1>1, <1>2, <1>3, FS_AddElement, Zenon
<1>5. Ids' = 1..(n + 1)
  <2>1. 1..(n + 1) = 1..n \cup {n + 1}
    OBVIOUS
  <2>2. QED
    BY <1>1, <1>2, <1>3, <2>1, Zenon
<1>6. \A a \in accs' : a = [id |-> a.id, tid |-> a.tid, byte |-> a.byte, kind |-> a.kind] /\ a.tid \in Thread
  BY DEF AccessesOK, Accesses
<1>7. /\ seen \in [Thread -> SUBSET Ids] /\ released \in [Thread -> SUBSET Ids]
      /\ \A u \in Thread : released[u] \subseteq seen[u]
  BY Zenon DEF AccessesOK
<1>8. seen' \in [Thread -> SUBSET Ids'] /\ seen'[t] = seen[t] \cup {id} /\ \A u \in Thread \ {t} : seen'[u] = seen[u]
  BY <1>3, <1>7, Zenon
<1>9. /\ released' \in [Thread -> SUBSET Ids'] /\ \A u \in Thread \ {t} : released'[u] = released[u]
      /\ released'[t] = released[t] \/ released'[t] = seen'[t]
  BY <1>3, <1>7, <1>8
<1>10. \A u \in Thread : released'[u] \subseteq seen'[u]
  BY <1>7, <1>8, <1>9, Zenon
<1>11. \A a \in accs' : a.id \in seen'[a.tid]
  <2> SUFFICES ASSUME NEW a \in accs'
               PROVE  a.id \in seen'[a.tid]
    BY Zenon
  <2>1. CASE a \in accs
    BY <1>8, <2>1, Zenon DEF AccessesOK
  <2>2. CASE a \in Accesses(kind, t, R, id)
    BY <1>8, <2>2 DEF Accesses
  <2>3. QED
    BY <2>1, <2>2, Zenon
<1>12. \A a \in accs', u \in Thread : a.tid # u /\ a.id \in seen'[u] => a.id \in released'[u]
  <2> SUFFICES ASSUME NEW a \in accs', NEW u \in Thread, a.tid # u, a.id \in seen'[u]
               PROVE  a.id \in released'[u]
    BY Zenon
  <2>1. CASE a \in accs
    <3>1. a.id \in Ids
      BY <2>1, Zenon DEF Ids
    <3>2. a.id \in seen[u]
      BY <1>2, <1>8, <3>1, Zenon
    <3>3. a.id \in released[u]
      BY <2>1, <3>2, Zenon DEF AccessesOK
    <3>4. QED
      BY <1>7, <1>8, <1>9, <3>3, Zenon
  <2>2. CASE a \in Accesses(kind, t, R, id)
    <3>1. a.tid = t /\ a.id = id
      BY <2>2 DEF Accesses
    <3>2. seen'[u] = seen[u]
      BY <1>8, <3>1, Zenon
    <3>3. QED
      BY <1>2, <1>7, <3>1, <3>2
  <2>3. QED
    BY <2>1, <2>2, Zenon
<1>13. QED
  BY <1>2, <1>4, <1>5, <1>6, <1>8, <1>9, <1>10, <1>11, <1>12, Zenon DEF AccessesOK

\* A synchronisation shows t what the last action of u has published
LEMMA AccessesSync ==
  ASSUME AccessesOK, NEW t \in Thread, NEW u \in Thread, accs' = accs,
         seen' = [seen EXCEPT ![t] = seen[t] \cup released[u]],
         released' = [released EXCEPT ![t] = seen[t] \cup released[u]]
  PROVE  AccessesOK'
<1>1. Ids' = Ids
  BY Zenon DEF Ids
<1>2. /\ seen \in [Thread -> SUBSET Ids] /\ released \in [Thread -> SUBSET Ids]
      /\ \A x \in Thread : released[x] \subseteq seen[x]
  BY Zenon DEF AccessesOK
<1>3. /\ seen' \in [Thread -> SUBSET Ids] /\ seen'[t] = seen[t] \cup released[u]
      /\ released' \in [Thread -> SUBSET Ids] /\ released'[t] = seen[t] \cup released[u]
      /\ \A x \in Thread \ {t} : seen'[x] = seen[x] /\ released'[x] = released[x]
  BY <1>2, Zenon
<1>4. \A x \in Thread : released'[x] \subseteq seen'[x]
  BY <1>2, <1>3, Zenon
<1>5. \A a \in accs : a.id \in seen'[a.tid]
  BY <1>3, Zenon DEF AccessesOK
<1>6. \A a \in accs, x \in Thread : a.tid # x /\ a.id \in seen'[x] => a.id \in released'[x]
  BY <1>3, Zenon DEF AccessesOK
<1>7. QED
  BY <1>1, <1>3, <1>4, <1>5, <1>6, Zenon DEF AccessesOK

\* A step in which t acts, having merged what the last action of u published
Passes(t, u) ==
  /\ cv'[t][t] = seq + 1
  /\ \A x \in Thread \ {t} : cv'[t][x] = MaxNat(cv[t][x], cv[u][x])
  /\ \A x \in Thread \ {t} : cv'[x] = cv[x] /\ released'[x] = released[x]
  /\ \A i \in Ids : i \in released'[t] <=> i \in seen[t] \/ i \in released[u]

\* Clock vectors and the published accesses move together
LEMMA StandsPasses ==
  ASSUME ClocksOK, AccessesOK, NEW t \in Thread, NEW u \in Thread, Passes(t, u),
         NEW e, e.tid \in Thread, e.clock \in Nat, NEW a \in accs, Stands(cv, released, e, a)
  PROVE  Stands(cv', released', e, a)
<1>1. /\ seq \in Nat /\ \A x, y \in Thread : cv[x][y] \in Nat
      /\ \A x \in Thread : cv[x][x] <= seq
  BY DEF ClocksOK
<1>2. a.id \in Ids /\ a.tid = e.tid /\ e.clock <= cv[e.tid][e.tid]
  BY Zenon DEF Ids, Stands
<1>3. \A x \in Thread : cv[x][e.tid] > e.clock <=> a.id \in released[x]
  BY Zenon DEF Stands
<1>4. CASE e.tid = t
  <2>1. cv'[t][e.tid] > e.clock /\ e.clock <= cv'[e.tid][e.tid]
    BY <1>1, <1>2, <1>4 DEF Passes
  <2>2. a.id \in released'[t]
    BY <1>2, <1>4, Zenon DEF AccessesOK, Passes
  <2>3. \A x \in Thread \ {t} : cv'[x][e.tid] > e.clock <=> a.id \in released'[x]
    BY <1>3, Zenon DEF Passes
  <2>4. QED
    BY <1>2, <2>1, <2>2, <2>3, Zenon DEF Stands
<1>5. CASE e.tid # t
  <2>1. a.id \in seen[t] <=> a.id \in released[t]
    BY <1>2, <1>5, Zenon DEF AccessesOK
  <2>2. cv'[t][e.tid] > e.clock <=> cv[t][e.tid] > e.clock \/ cv[u][e.tid] > e.clock
    BY <1>1, <1>5 DEF Passes, MaxNat
  <2>3. a.id \in released'[t] <=> a.id \in released[t] \/ a.id \in released[u]
    BY <1>2, <2>1, Zenon DEF Passes
  <2>4. cv'[t][e.tid] > e.clock <=> a.id \in released'[t]
    BY <1>3, <2>2, <2>3, Zenon
  <2>5. \A x \in Thread \ {t} : cv'[x][e.tid] > e.clock <=> a.id \in released'[x]
    BY <1>3, Zenon DEF Passes
  <2>6. cv'[e.tid][e.tid] = cv[e.tid][e.tid]
    BY <1>5, Zenon DEF Passes
  <2>7. QED
    BY <1>2, <2>4, <2>5, <2>6, Zenon DEF Stands
<1>6. QED
  BY <1>4, <1>5, Zenon

\* A synchronisation and an atomic access are such steps
LEMMA SyncPasses ==
  ASSUME ClocksOK, AccessesOK, NEW t \in Thread, NEW u \in Thread, Synchronise(t, u)
  PROVE  Passes(t, u) /\ AccessesOK'
<1>1. /\ Act(t, Merge(cv[t], cv[u])) /\ program' = program /\ accs' = accs
      /\ seen' = [seen EXCEPT ![t] = seen[t] \cup released[u]]
      /\ released' = [released EXCEPT ![t] = seen[t] \cup released[u]]
  BY Zenon DEF Synchronise
<1>2. /\ cv'[t][t] = seq + 1
      /\ \A x \in Thread \ {t} : cv'[t][x] = Merge(cv[t], cv[u])[x]
      /\ \A x \in Thread \ {t} : cv'[x] = cv[x]
  BY <1>1, Allowed, ActOK
<1>3. released \in [Thread -> SUBSET Ids]
  BY Zenon DEF AccessesOK
<1>4. /\ \A x \in Thread \ {t} : released'[x] = released[x]
      /\ released'[t] = seen[t] \cup released[u]
  BY <1>1, <1>3, Zenon
<1>5. AccessesOK'
  BY <1>1, AccessesSync, Zenon
<1>6. QED
  BY <1>2, <1>4, <1>5, Zenon DEF Passes, Merge

\* What an access adds to the reference, with a new number
LEMMA ApplyRecords ==
  ASSUME NEW kind, NEW t, NEW R, NEW C, NEW S, Apply(kind, t, R, C, S)
  PROVE  \E id : /\ id = Cardinality(Ids) + 1
                 /\ accs' = accs \cup Accesses(kind, t, R, id)
                 /\ seen' = [seen EXCEPT ![t] = @ \cup {id}]
BY Zenon DEF Apply, Record, Ids, Accesses

\* An atomic access is an action that merges nothing, and publishes itself
LEMMA AtomicPasses ==
  ASSUME ClocksOK, AccessesOK, NEW kind, NEW t \in Thread, NEW R, R # {}, AtomicAccess(kind, t, R)
  PROVE  /\ Passes(t, t) /\ AccessesOK'
         /\ \A x \in Thread \ {t} : cv'[t][x] = cv[t][x]
         /\ \E id : accs' = accs \cup Accesses(kind, t, R, id)
<1>1. /\ Act(t, cv[t]) /\ program' = program
      /\ Apply(kind, t, R, cv'[t], SetAtomicStoreFlag(kind, R, shadow))
      /\ released' = [released EXCEPT ![t] = seen'[t]]
  BY Zenon DEF AtomicAccess, Apply
<1>2. /\ cv'[t][t] = seq + 1
      /\ \A x \in Thread \ {t} : cv'[t][x] = cv[t][x]
      /\ \A x \in Thread \ {t} : cv'[x] = cv[x]
  BY <1>1, Allowed, ActOK, Zenon
<1>3. PICK id : /\ id = Cardinality(Ids) + 1
                /\ accs' = accs \cup Accesses(kind, t, R, id)
                /\ seen' = [seen EXCEPT ![t] = @ \cup {id}]
  BY <1>1, ApplyRecords, Zenon
<1>4. AccessesOK' /\ id \notin Ids
  BY <1>1, <1>3, AccessesApply, Zenon
<1>5. released \in [Thread -> SUBSET Ids] /\ seen \in [Thread -> SUBSET Ids] /\ released[t] \subseteq seen[t]
  BY Zenon DEF AccessesOK
<1>6. released'[t] = seen[t] \cup {id} /\ \A x \in Thread \ {t} : released'[x] = released[x]
  BY <1>1, <1>3, <1>5, Zenon
<1>7. \A i \in Ids : i \in released'[t] <=> i \in seen[t] \/ i \in released[t]
  BY <1>4, <1>5, <1>6, Zenon
<1>8. \A x \in Thread : MaxNat(cv[t][x], cv[t][x]) = cv[t][x]
  BY Zenon DEF MaxNat
<1>9. QED
  BY <1>2, <1>3, <1>4, <1>6, <1>7, <1>8, Zenon DEF Passes

\* A plain access leaves the clocks, and publishes nothing
LEMMA PlainKeeps ==
  ASSUME ClocksOK, AccessesOK, NEW kind, NEW R, R # {}, PlainAccess(kind, R)
  PROVE  /\ cv' = cv /\ released' = released /\ AccessesOK'
         /\ \E id : id \notin Ids /\ accs' = accs \cup Accesses(kind, running, R, id)
<1>1. cv' = cv /\ released' = released /\ Apply(kind, running, R, cv[running], shadow)
  BY Zenon DEF PlainAccess
<1>2. PICK id : /\ id = Cardinality(Ids) + 1
                /\ accs' = accs \cup Accesses(kind, running, R, id)
                /\ seen' = [seen EXCEPT ![running] = @ \cup {id}]
  BY <1>1, ApplyRecords, Zenon
<1>3. running \in Thread
  BY Zenon DEF ClocksOK
<1>4. AccessesOK' /\ id \notin Ids
  BY <1>1, <1>2, <1>3, AccessesApply, Zenon
<1>5. QED
  BY <1>1, <1>2, <1>4, Zenon

\* Every step keeps the numbering, and what threads have seen
LEMMA AccessesNext ==
  ASSUME ClocksOK, AccessesOK, [Next]_vars
  PROVE  AccessesOK'
<1>1. ASSUME NEW t \in program.threads, NEW u \in program.threads, Synchronise(t, u)
      PROVE  AccessesOK'
  BY <1>1, Allowed, SyncPasses, Zenon
<1>2. ASSUME NEW kind \in program.kinds, NEW R \in program.ranges, PlainAccess(kind, R)
      PROVE  AccessesOK'
  BY <1>2, Allowed, PlainKeeps, Zenon
<1>3. ASSUME NEW kind \in program.kinds, NEW t \in program.threads, NEW R \in program.ranges, AtomicAccess(kind, t, R)
      PROVE  AccessesOK'
  BY <1>3, Allowed, AtomicPasses, Zenon
<1>4. CASE UNCHANGED vars
  BY <1>4, Zenon DEF vars, AccessesOK, Ids
<1>5. QED
  BY <1>1, <1>2, <1>3, <1>4, Zenon DEF Next

\* The program under test stays the same
LEMMA ProgramFixed ==
  ASSUME [Next]_vars
  PROVE  program' = program
<1>1. ASSUME NEW t \in program.threads, NEW u \in program.threads, Synchronise(t, u)
      PROVE  program' = program
  BY <1>1, Zenon DEF Synchronise
<1>2. ASSUME NEW kind \in program.kinds, NEW R \in program.ranges, PlainAccess(kind, R)
      PROVE  program' = program
  BY <1>2, Zenon DEF PlainAccess, Apply
<1>3. ASSUME NEW kind \in program.kinds, NEW t \in program.threads, NEW R \in program.ranges, AtomicAccess(kind, t, R)
      PROVE  program' = program
  BY <1>3, Zenon DEF AtomicAccess, Apply
<1>4. QED
  BY <1>1, <1>2, <1>3, Zenon DEF Next, vars

\* No access has been made at first
LEMMA AccessesInit ==
  ASSUME Init
  PROVE  AccessesOK
<1>1. Ids = {}
  BY Zenon DEF Init, Ids
<1>2. IsFiniteSet(Ids) /\ Ids = 1..Cardinality(Ids)
  BY <1>1, FS_EmptySet
<1>3. QED
  BY <1>2, Zenon DEF Init, AccessesOK

----------------------------------------------------------------------------
(* Soundness *)

\* What was said of a word stays true when a thread acts
LEMMA SoundPasses ==
  ASSUME ClocksOK, AccessesOK, NEW t \in Thread, NEW u \in Thread, Passes(t, u), accs \subseteq accs',
         NEW s, WordOK(s), NEW b, Sound(cv, released, accs, s, b)
  PROVE  Sound(cv', released', accs', s, b)
<1>1. ASSUME s.wc # 0
      PROVE  \E a \in accs' : a.byte = b /\ IsPlain(a.kind) /\ IsWrite(a.kind) /\ Stands(cv', released', LastWrite(s), a)
  <2>1. PICK a \in accs : a.byte = b /\ IsPlain(a.kind) /\ IsWrite(a.kind) /\ Stands(cv, released, LastWrite(s), a)
    BY <1>1, Zenon DEF Sound
  <2>2. LastWrite(s).tid \in Thread /\ LastWrite(s).clock \in Nat
    BY <1>1, Zenon DEF LastWrite, WordOK
  <2>3. Stands(cv', released', LastWrite(s), a)
    BY <2>1, <2>2, StandsPasses, Zenon
  <2>4. QED
    BY <2>1, <2>3, Zenon
<1>2. ASSUME NEW e \in s.reads
      PROVE  \E a \in accs' : a.byte = b /\ IsPlain(a.kind) /\ Stands(cv', released', e, a)
  <2>1. PICK a \in accs : a.byte = b /\ IsPlain(a.kind) /\ Stands(cv, released, e, a)
    BY Zenon DEF Sound
  <2>2. e.tid \in Thread /\ e.clock \in Nat
    BY Zenon DEF WordOK, EventOK
  <2>3. Stands(cv', released', e, a)
    BY <2>1, <2>2, StandsPasses, Zenon
  <2>4. QED
    BY <2>1, <2>3, Zenon
<1>3. QED
  BY <1>1, <1>2, Zenon DEF Sound

\* A race that a check finds with an event that stands for an access is real:
\* that access is not ordered before this one
LEMMA RaceIsReal ==
  ASSUME ClocksOK, AccessesOK, NEW kind \in Kinds \ {"store", "rmw", "cas"}, NEW t \in Thread, NEW R, NEW b \in R,
         NEW C, \A x \in Thread \ {t} : C[x] = cv[t][x],
         NEW s, WordOK(s), Sound(cv, released, accs, s, b), Check(kind, C, t, s).race
  PROVE  \E r \in Races(kind, t, R, seen[t]) : r.byte = b
<1>1. ASSUME NEW e, e.tid \in Thread, e.clock \in Nat, ClockMayRace(C, t, e),
             NEW a \in accs, a.byte = b, IsPlain(a.kind), IsWrite(a.kind) \/ IsWrite(kind), Stands(cv, released, e, a)
      PROVE  \E r \in Races(kind, t, R, seen[t]) : r.byte = b
  <2>1. a.tid # t /\ ~(cv[t][e.tid] > e.clock)
    BY <1>1 DEF ClockMayRace, Stands, ClocksOK
  <2>2. a.id \notin released[t]
    BY <1>1, <2>1, Zenon DEF Stands
  <2>3. a.id \notin seen[t]
    BY <2>1, <2>2, Zenon DEF AccessesOK
  <2> DEFINE earlier == {x \in accs : /\ x.id \notin seen[t]
                                      /\ x.byte \in R /\ x.tid # t
                                      /\ IsWrite(x.kind) \/ IsWrite(kind)
                                      /\ IsPlain(x.kind) \/ IsPlain(kind)}
             Race(x) == [byte |-> x.byte, plain |-> IsPlain(x.kind) /\ IsPlain(kind)]
  <2>4. a \in earlier
    BY <1>1, <2>1, <2>3, Zenon
  <2>5. Races(kind, t, R, seen[t]) = {Race(x) : x \in earlier}
    BY Zenon DEF Races
  <2>6. Race(a) \in Races(kind, t, R, seen[t]) /\ Race(a).byte = a.byte
    <3> HIDE DEF earlier
    <3> QED
      BY <2>4, <2>5, Zenon
  <2>7. QED
    BY <1>1, <2>6, Zenon
<1>2. CASE RacesWithWrite(C, t, s)
  <2>1. ClockMayRace(C, t, LastWrite(s)) /\ s.wc # 0
    BY <1>2, Zenon DEF RacesWithWrite, ClockMayRace, LastWrite
  <2>2. PICK a \in accs : a.byte = b /\ IsPlain(a.kind) /\ IsWrite(a.kind) /\ Stands(cv, released, LastWrite(s), a)
    BY <2>1, Zenon DEF Sound
  <2>3. LastWrite(s).tid \in Thread /\ LastWrite(s).clock \in Nat
    BY <2>1, Zenon DEF LastWrite, WordOK
  <2>4. QED
    BY <1>1, <2>1, <2>2, <2>3, Zenon
<1>3. CASE kind \in {"write", "memwrite"} /\ RacesWithRead(C, t, s)
  <2>1. PICK e \in s.reads : ClockMayRace(C, t, e)
    BY <1>3, Zenon DEF RacesWithRead
  <2>2. PICK a \in accs : a.byte = b /\ IsPlain(a.kind) /\ Stands(cv, released, e, a)
    BY Zenon DEF Sound
  <2>3. e.tid \in Thread /\ e.clock \in Nat
    BY Zenon DEF WordOK, EventOK
  <2>4. IsWrite(kind)
    BY <1>3, Zenon DEF IsWrite
  <2>5. QED
    BY <1>1, <2>1, <2>2, <2>3, <2>4, Zenon
<1>4. RacesWithWrite(C, t, s) \/ (kind \in {"write", "memwrite"} /\ RacesWithRead(C, t, s))
  BY Zenon DEF Kinds, Check, RaceCheckRead, RaceCheckWrite, AtomRaceCheckRead, Result
<1>5. QED
  BY <1>2, <1>3, <1>4, Zenon

\* A plain access puts only itself into shadow memory
LEMMA SoundPlain ==
  ASSUME Base, AccessesOK, NEW kind \in Kinds, IsPlain(kind), NEW R, NEW b \in R, NEW id,
         id \notin Ids, accs' = accs \cup Accesses(kind, running, R, id),
         NEW s, WordOK(s), Fits(s), Sound(cv, released, accs, s, b)
  PROVE  Sound(cv, released, accs', Check(kind, cv[running], running, s).s, b)
<1> DEFINE t == running
           e == Event(cv[t], t)
           a == [id |-> id, tid |-> t, byte |-> b, kind |-> kind]
           r == Check(kind, cv[t], t, s).s
<1>1. t \in Thread /\ cv[t] \in [Thread -> Nat] /\ cv[t][t] # 0
  BY Allowed, Zenon DEF Base, ClocksOK
<1>2. a \in accs' /\ a.byte = b /\ IsPlain(a.kind) /\ a.kind = kind
  BY Zenon DEF Accesses
<1>3. Stands(cv, released, e, a)
  <2>1. \A u \in Thread : ~(cv[u][t] > cv[t][t])
    BY <1>1 DEF Base, ClocksOK
  <2>2. \A u \in Thread : id \notin released[u]
    BY Zenon DEF AccessesOK
  <2>3. QED
    BY <1>1, <2>1, <2>2 DEF Stands, Event
<1>4. CASE kind \in {"read", "memread"}
  <2>1. r = Read(cv[t], t, s)
    BY <1>4, Zenon DEF Check, RaceCheckRead, Result
  <2>2. r.reads = Kept(cv[t], t, s) \cup {e} /\ LastWrite(r) = LastWrite(s) /\ r.wc = s.wc
    BY <1>1, <2>1, ReadOK DEF LastWrite
  <2> HIDE DEF e, a, r, t
  <2>3. \A x \in r.reads : \E y \in accs' : y.byte = b /\ IsPlain(y.kind) /\ Stands(cv, released, x, y)
    BY <1>2, <1>3, <2>2, Zenon DEF Kept, Sound
  <2>4. r.wc # 0 => \E y \in accs' : y.byte = b /\ IsPlain(y.kind) /\ IsWrite(y.kind) /\ Stands(cv, released, LastWrite(r), y)
    BY <2>2, Zenon DEF Sound
  <2>5. QED
    BY <2>3, <2>4, Zenon DEF Sound, r, t
<1>5. CASE kind \in {"write", "memwrite"}
  <2>1. r = Written(cv[t], t, s, FALSE)
    BY <1>5, Zenon DEF Check, RaceCheckWrite, Result
  <2>2. r.reads = {} /\ r.wt = t /\ r.wc = cv[t][t]
    <3>1. \A at \in BOOLEAN : /\ Written(cv[t], t, s, at).reads = {}
                              /\ Written(cv[t], t, s, at).wt = t
                              /\ Written(cv[t], t, s, at).wc = cv[t][t]
      BY <1>1, WrittenOK
    <3>2. QED
      BY <2>1, <3>1, Zenon
  <2>3. LastWrite(r) = e
    BY <2>2, Zenon DEF LastWrite, Event
  <2>4. IsWrite(kind)
    BY <1>5, Zenon DEF IsWrite
  <2> HIDE DEF e, a, r, t
  <2>5. QED
    BY <1>2, <1>3, <2>2, <2>3, <2>4, Zenon DEF Sound, r, t
<1>6. QED
  BY <1>4, <1>5, Zenon DEF IsPlain, IsMemop

\* The inductive step for programs without atomic writes: a race is reported
\* only if it is one, and shadow memory keeps only plain accesses
LEMMA SoundNext ==
  ASSUME Base, AccessesOK, NoAtomicWrites(program), NoFalseRace,
         \A b \in Bytes : Sound(cv, released, accs, shadow[b], b), [Next]_vars
  PROVE  NoFalseRace' /\ \A b \in Bytes : Sound(cv', released', accs', shadow'[b], b)
<1>0. ClocksOK /\ ShadowOK /\ \A b \in Bytes : WordOK(shadow[b]) /\ Fits(shadow[b])
  BY Zenon DEF Base, ShadowOK
<1>1. ASSUME NEW t \in program.threads, NEW u \in program.threads, Synchronise(t, u)
      PROVE  NoFalseRace' /\ \A b \in Bytes : Sound(cv', released', accs', shadow'[b], b)
  <2>1. t \in Thread /\ u \in Thread
    BY <1>0, Allowed, Zenon
  <2>2. shadow' = shadow /\ accs' = accs /\ reported' = reported /\ racy' = racy
    BY <1>1, Zenon DEF Synchronise
  <2>3. Passes(t, u)
    BY <1>0, <1>1, <2>1, SyncPasses, Zenon
  <2>4. \A b \in Bytes : Sound(cv', released', accs', shadow[b], b)
    BY <1>0, <2>1, <2>2, <2>3, SoundPasses, Zenon
  <2>5. QED
    BY <2>2, <2>4, Zenon DEF NoFalseRace
<1>2. ASSUME NEW kind \in program.kinds, NEW R \in program.ranges, PlainAccess(kind, R)
      PROVE  NoFalseRace' /\ \A b \in Bytes : Sound(cv', released', accs', shadow'[b], b)
  <2> DEFINE t == running
  <2>1. kind \in Kinds \ {"store", "rmw", "cas"} /\ R \in SUBSET Bytes /\ R # {} /\ IsPlain(kind)
    BY <1>0, <1>2, Allowed, Zenon DEF NoAtomicWrites, PlainAccess
  <2>2. t \in Thread /\ cv[t] \in [Thread -> Nat] /\ cv[t][t] # 0
    BY <1>0, Allowed, Zenon DEF ClocksOK
  <2>3. /\ shadow' = CheckBytes(kind, cv[t], t, R, shadow).shadow
        /\ reported' = reported \cup CheckBytes(kind, cv[t], t, R, shadow).races
        /\ racy' = racy \cup Races(kind, t, R, seen[t])
    BY <1>2, Zenon DEF PlainAccess, Apply
  <2>4. /\ cv' = cv /\ released' = released
        /\ \E id : id \notin Ids /\ accs' = accs \cup Accesses(kind, t, R, id)
    BY <1>0, <1>2, <2>1, PlainKeeps, Zenon
  <2>5. PICK id : id \notin Ids /\ accs' = accs \cup Accesses(kind, t, R, id)
    BY <2>4, Zenon
  <2>6. shadow' = NewShadow(kind, cv[t], t, R, shadow)
    BY <1>0, <2>1, <2>2, <2>3, ApplyShadow, Zenon
  <2>7. CheckedBytes(kind, R) \subseteq R /\ CheckBytes(kind, cv[t], t, R, shadow).races \subseteq Found(kind, cv[t], t, R, shadow)
    BY <2>1, CheckBytesOK, Zenon
  <2>8. ASSUME NEW b \in Bytes
        PROVE  Sound(cv', released', accs', shadow'[b], b)
    <3>1. Sound(cv, released, accs, shadow[b], b)
      BY Zenon
    <3>2. CASE b \in CheckedBytes(kind, R)
      <4>1. b \in R /\ shadow'[b] = Check(kind, cv[t], t, shadow[b]).s
        BY <2>6, <2>7, <3>2, Zenon DEF NewShadow
      <4>2. Sound(cv, released, accs', Check(kind, cv[t], t, shadow[b]).s, b)
        BY <1>0, <2>1, <2>5, <3>1, <4>1, SoundPlain, Zenon
      <4>3. QED
        BY <2>4, <4>1, <4>2, Zenon
    <3>3. CASE b \notin CheckedBytes(kind, R)
      <4>1. shadow'[b] = shadow[b]
        BY <2>6, <3>3, Zenon DEF NewShadow
      <4>2. Sound(cv, released, accs', shadow[b], b)
        BY <2>5, <3>1, Zenon DEF Sound
      <4>3. QED
        BY <2>4, <4>1, <4>2, Zenon
    <3>4. QED
      BY <3>2, <3>3, Zenon
  <2>9. ASSUME NEW b \in Found(kind, cv[t], t, R, shadow)
        PROVE  \E r \in racy' : r.byte = b
    <3>1. b \in R /\ b \in Bytes /\ Check(kind, cv[t], t, shadow[b]).race
      BY <2>1, <2>7, Zenon DEF Found
    <3>2. \E r \in Races(kind, t, R, seen[t]) : r.byte = b
      BY <1>0, <2>1, <2>2, <3>1, RaceIsReal
    <3>3. QED
      BY <2>3, <3>2, Zenon
  <2>10. NoFalseRace'
    BY <2>3, <2>7, <2>9, Zenon DEF NoFalseRace
  <2>11. QED
    BY <2>8, <2>10, Zenon
<1>3. ASSUME NEW kind \in program.kinds, NEW t \in program.threads, NEW R \in program.ranges, AtomicAccess(kind, t, R)
      PROVE  NoFalseRace' /\ \A b \in Bytes : Sound(cv', released', accs', shadow'[b], b)
  <2> DEFINE S == SetAtomicStoreFlag(kind, R, shadow)
  <2>1. kind \in {"load", "failedcas"} /\ kind \in Kinds /\ R \in SUBSET Bytes /\ R # {} /\ t \in Thread
    <3>1. kind \in Kinds /\ R \in SUBSET Bytes /\ R # {} /\ t \in Thread
      BY <1>0, Allowed, Zenon
    <3>2. ~IsPlain(kind) /\ kind \notin {"store", "rmw", "cas"}
      BY <1>3, Zenon DEF NoAtomicWrites, AtomicAccess
    <3>3. QED
      BY <3>1, <3>2, Zenon DEF IsPlain, IsMemop, Kinds
  <2>2. /\ shadow' = CheckBytes(kind, cv'[t], t, R, S).shadow
        /\ reported' = reported \cup CheckBytes(kind, cv'[t], t, R, S).races
        /\ racy' = racy \cup Races(kind, t, R, seen[t])
    BY <1>3, Zenon DEF AtomicAccess, Apply
  <2>3. /\ Passes(t, t)
        /\ \A x \in Thread \ {t} : cv'[t][x] = cv[t][x]
        /\ accs \subseteq accs'
    BY <1>0, <1>3, <2>1, AtomicPasses, Zenon
  <2>4. \A b \in Bytes :
          /\ WordOK(S[b]) /\ Fits(S[b])
          /\ S[b].reads = shadow[b].reads /\ LastWrite(S[b]) = LastWrite(shadow[b]) /\ S[b].wc = shadow[b].wc
    BY <1>0, <2>1, FlagOK, Zenon DEF LastWrite
  <2> HIDE DEF S
  <2>5. shadow' = NewShadow(kind, cv'[t], t, R, S)
    BY <2>1, <2>2, ShadowOfBytes
  <2>6. \A b \in Bytes : shadow'[b] = S[b]
    BY <2>1, <2>5, Zenon DEF NewShadow, Check, AtomRaceCheckRead, Result
  <2>7. \A b \in Bytes : Sound(cv, released, accs, S[b], b)
    BY <2>4, Zenon DEF Sound
  <2>8. \A b \in Bytes : Sound(cv', released', accs', S[b], b)
    BY <1>0, <2>1, <2>3, <2>4, <2>7, SoundPasses, Zenon
  <2>9. ASSUME NEW b \in Found(kind, cv'[t], t, R, S)
        PROVE  \E r \in racy' : r.byte = b
    <3>1. b \in R /\ b \in Bytes /\ Check(kind, cv'[t], t, S[b]).race
      BY <2>1, CheckBytesOK, Zenon DEF Found
    <3>2. \E r \in Races(kind, t, R, seen[t]) : r.byte = b
      BY <1>0, <2>1, <2>3, <2>4, <2>7, <3>1, RaceIsReal, Zenon
    <3>3. QED
      BY <2>2, <3>2, Zenon
  <2>10. CheckBytes(kind, cv'[t], t, R, S).races \subseteq Found(kind, cv'[t], t, R, S)
    BY <2>1, CheckBytesOK, Zenon
  <2>11. NoFalseRace'
    BY <2>2, <2>9, <2>10, Zenon DEF NoFalseRace
  <2>12. QED
    BY <2>6, <2>8, <2>11, Zenon
<1>4. CASE UNCHANGED vars
  BY <1>4, Zenon DEF vars, NoFalseRace
<1>5. QED
  BY <1>1, <1>2, <1>3, <1>4, Zenon DEF Next

\* Sound: clock_may_race answers true only of accesses that are not ordered by
\* happens-before, for every program in which plain accesses do not meet atomic
\* writes, with any number of threads and bytes, and with memory operations,
\* atomic loads and failed compare-and-swaps among the accesses.
THEOREM NoRaceIsFalse ==
  ASSUME \A p \in Programs : NoAtomicWrites(p) \/ NoPlainAccesses(p)
  PROVE  Spec => []NoFalseRace
<1>1. Init => SoundInv
  <2> SUFFICES ASSUME Init
               PROVE  SoundInv
    BY Zenon
  <2>1. Base /\ AccessesOK
    BY BaseInit, AccessesInit, Zenon
  <2>2. \A b \in Bytes : shadow[b].reads = {} /\ shadow[b].wc = 0
    BY Zenon DEF Init, Empty, Word
  <2>3. QED
    BY <2>1, <2>2, Zenon DEF Init, SoundInv, Sound, AtomicOK, NoFalseRace
<1>2. SoundInv /\ [Next]_vars => SoundInv'
  <2> SUFFICES ASSUME SoundInv, [Next]_vars
               PROVE  SoundInv'
    BY Zenon
  <2>1. Base' /\ AccessesOK'
    BY BaseNext, AccessesNext, Zenon DEF SoundInv, Base
  <2>2. program' = program /\ program \in Programs
    BY ProgramFixed, Zenon DEF SoundInv, Base, ClocksOK
  <2>3. ASSUME NoAtomicWrites(program)
        PROVE  NoFalseRace' /\ \A b \in Bytes : Sound(cv', released', accs', shadow'[b], b)
    BY <2>3, SoundNext, Zenon DEF SoundInv
  <2>4. ASSUME NoPlainAccesses(program)
        PROVE  AtomicOK' /\ reported' = {}
    BY <2>4, AtomicNext, Zenon DEF SoundInv
  <2>5. NoFalseRace'
    BY <2>2, <2>3, <2>4, Zenon DEF NoFalseRace
  <2>6. QED
    BY <2>1, <2>2, <2>3, <2>4, <2>5, Zenon DEF SoundInv
<1>3. QED
  BY <1>1, <1>2, PTL DEF Spec, SoundInv


----------------------------------------------------------------------------
(* No plain race is missed: the inductive invariant *)

\* The event e covers the access a: who has passed e has seen a, and so has e's thread
Covers(V, P, e, a) ==
  /\ e.clock # 0
  /\ e.clock <= V[e.tid][e.tid]
  /\ \A u \in Thread : V[u][e.tid] > e.clock => a.id \in P[u]
  /\ a.tid = e.tid \/ a.id \in P[e.tid]

\* Every plain access to byte b is covered by an event that s keeps, a write by the last write
Complete(V, P, A, s, b) ==
  \A a \in A :
    a.byte = b /\ IsPlain(a.kind) =>
      \/ Covers(V, P, LastWrite(s), a)
      \/ ~IsWrite(a.kind) /\ \E e \in s.reads : Covers(V, P, e, a)

PlainRace(b) == [byte |-> b, plain |-> TRUE]

\* As long as no two plain accesses to a byte have raced, all are covered
AllCovered == \A b \in Bytes : PlainRace(b) \notin racy => Complete(cv, released, accs, shadow[b], b)

CompleteInv ==
  /\ Base /\ AccessesOK
  /\ NoAtomicWrites(program) /\ NoMemops(program) => AllCovered
  /\ PlainRacesReported

----------------------------------------------------------------------------
(* Proofs *)

\* Clock vectors and what an event covers move together
LEMMA CoversPasses ==
  ASSUME ClocksOK, AccessesOK, NEW t \in Thread, NEW u \in Thread, Passes(t, u),
         NEW e, e.tid \in Thread, e.clock \in Nat, NEW a \in accs, Covers(cv, released, e, a)
  PROVE  Covers(cv', released', e, a)
<1>1. /\ seq \in Nat /\ \A x, y \in Thread : cv[x][y] \in Nat
      /\ \A x \in Thread : cv[x][x] <= seq
  BY DEF ClocksOK
<1>2. a.id \in Ids /\ e.clock # 0 /\ e.clock <= cv[e.tid][e.tid]
  BY Zenon DEF Ids, Covers
<1>3. \A x \in Thread : cv[x][e.tid] > e.clock => a.id \in released[x]
  BY Zenon DEF Covers
<1>4. \A x \in Thread : a.id \in released[x] => a.id \in released'[x]
  BY <1>2, Zenon DEF AccessesOK, Passes
<1>5. a.tid = e.tid \/ a.id \in released'[e.tid]
  BY <1>4, Zenon DEF Covers
<1>6. e.clock <= cv'[e.tid][e.tid]
  BY <1>1, <1>2 DEF Passes
<1>7. a.id \in released'[t] \/ ~(cv'[t][e.tid] > e.clock)
  <2>1. CASE e.tid = t
    <3>1. a.id \in seen[t]
      BY <2>1, Zenon DEF Covers, AccessesOK
    <3>2. QED
      BY <1>2, <3>1, Zenon DEF Passes
  <2>2. CASE e.tid # t
    <3>1. cv'[t][e.tid] > e.clock => cv[t][e.tid] > e.clock \/ cv[u][e.tid] > e.clock
      BY <1>1, <2>2, Zenon DEF Passes, MaxNat
    <3>2. a.id \in released[t] \/ a.id \in released[u] => a.id \in released'[t]
      BY <1>2, <1>4, Zenon DEF Passes
    <3>3. QED
      BY <1>3, <3>1, <3>2, Zenon
  <2>3. QED
    BY <2>1, <2>2, Zenon
<1>8. \A x \in Thread : cv'[x][e.tid] > e.clock => a.id \in released'[x]
  BY <1>3, <1>7, Zenon DEF Passes
<1>9. QED
  BY <1>2, <1>5, <1>6, <1>8, Zenon DEF Covers

\* What covers an access covers it still when a thread acts
LEMMA CompletePasses ==
  ASSUME ClocksOK, AccessesOK, NEW t \in Thread, NEW u \in Thread, Passes(t, u),
         \A a \in accs' : IsPlain(a.kind) => a \in accs,
         NEW s, WordOK(s), NEW b, Complete(cv, released, accs, s, b)
  PROVE  Complete(cv', released', accs', s, b)
<1> SUFFICES ASSUME NEW a \in accs', a.byte = b, IsPlain(a.kind)
             PROVE  \/ Covers(cv', released', LastWrite(s), a)
                    \/ ~IsWrite(a.kind) /\ \E e \in s.reads : Covers(cv', released', e, a)
  BY Zenon DEF Complete
<1>1. a \in accs
  BY Zenon
<1>2. ASSUME Covers(cv, released, LastWrite(s), a)
      PROVE  Covers(cv', released', LastWrite(s), a)
  <2>1. LastWrite(s).tid \in Thread /\ LastWrite(s).clock \in Nat
    BY <1>2, Zenon DEF LastWrite, WordOK, Covers
  <2>2. QED
    BY <1>1, <1>2, <2>1, CoversPasses, Zenon
<1>3. ASSUME NEW e \in s.reads, Covers(cv, released, e, a)
      PROVE  Covers(cv', released', e, a)
  <2>1. e.tid \in Thread /\ e.clock \in Nat
    BY Zenon DEF WordOK, EventOK
  <2>2. QED
    BY <1>1, <1>3, <2>1, CoversPasses, Zenon
<1>4. QED
  BY <1>1, <1>2, <1>3, Zenon DEF Complete

\* The newest access of t covers every access that t has seen
LEMMA EventCovers ==
  ASSUME ClocksOK, AccessesOK, NEW t \in Thread, NEW a, a.tid = t \/ a.id \in released[t]
  PROVE  Covers(cv, released, Event(cv[t], t), a)
<1>1. cv[t][t] # 0 /\ cv[t][t] \in Nat /\ \A u \in Thread : cv[u][t] \in Nat /\ ~(cv[u][t] > cv[t][t])
  BY DEF ClocksOK
<1>2. QED
  BY <1>1 DEF Covers, Event

\* A plain access that races with no earlier one leaves every access covered:
\* what it drops was covered by the reads and the write that it covers itself
LEMMA CompletePlain ==
  ASSUME Base, AccessesOK, NEW kind \in {"read", "write"}, NEW R, NEW b \in R, NEW id,
         accs' = accs \cup Accesses(kind, running, R, id),
         NEW s, WordOK(s), Fits(s), Complete(cv, released, accs, s, b),
         \A a \in accs : a.byte = b /\ IsPlain(a.kind) /\ (IsWrite(a.kind) \/ IsWrite(kind)) =>
                          a.tid = running \/ a.id \in seen[running]
  PROVE  Complete(cv, released, accs', Check(kind, cv[running], running, s).s, b)
<1> DEFINE t == running
           e == Event(cv[t], t)
           r == Check(kind, cv[t], t, s).s
<1>1. ClocksOK /\ t \in Thread /\ cv[t] \in [Thread -> Nat] /\ cv[t][t] # 0
  BY Allowed, Zenon DEF Base, ClocksOK
<1>2. \A a \in accs' : a \in accs \/ (a.tid = t /\ a.kind = kind)
  BY DEF Accesses
<1>3. \A a : a.tid = t \/ a.id \in released[t] => Covers(cv, released, e, a)
  BY <1>1, EventCovers, Zenon
<1>4. CASE kind = "write"
  <2>1. r = Written(cv[t], t, s, FALSE)
    BY <1>4, Zenon DEF Check, RaceCheckWrite, Result
  <2>2. LastWrite(r) = e
    <3>1. \A at \in BOOLEAN : Written(cv[t], t, s, at).wt = t /\ Written(cv[t], t, s, at).wc = cv[t][t]
      BY <1>1, WrittenOK
    <3>2. QED
      BY <2>1, <3>1, Zenon DEF LastWrite, Event
  <2>3. ASSUME NEW a \in accs', a.byte = b, IsPlain(a.kind)
        PROVE  Covers(cv, released, e, a)
    <3>1. CASE a \in accs
      <4>1. a.tid = t \/ a.id \in seen[t]
        BY <1>4, <2>3, <3>1, Zenon DEF IsWrite
      <4>2. a.tid = t \/ a.id \in released[t]
        BY <1>1, <3>1, <4>1, Zenon DEF AccessesOK
      <4>3. QED
        BY <1>3, <4>2, Zenon
    <3>2. QED
      BY <1>2, <1>3, <3>1, Zenon
  <2> HIDE DEF e, r, t
  <2>4. QED
    BY <2>2, <2>3, Zenon DEF Complete, r, t
<1>5. CASE kind = "read"
  <2>1. r = Read(cv[t], t, s)
    BY <1>5, Zenon DEF Check, RaceCheckRead, Result
  <2>2. r.reads = Kept(cv[t], t, s) \cup {e} /\ LastWrite(r) = LastWrite(s)
    BY <1>1, <2>1, ReadOK DEF LastWrite
  <2>3. ASSUME NEW a \in accs', a.byte = b, IsPlain(a.kind)
        PROVE  \/ Covers(cv, released, LastWrite(r), a)
               \/ ~IsWrite(a.kind) /\ \E x \in r.reads : Covers(cv, released, x, a)
    <3>1. CASE a \in accs /\ Covers(cv, released, LastWrite(s), a)
      BY <2>2, <3>1, Zenon
    <3>2. ASSUME a \in accs, ~IsWrite(a.kind), NEW x \in s.reads, Covers(cv, released, x, a)
          PROVE  \E y \in r.reads : Covers(cv, released, y, a)
      <4>1. CASE ClockMayRace(cv[t], t, x)
        BY <2>2, <3>2, <4>1, Zenon DEF Kept
      <4>2. CASE ~ClockMayRace(cv[t], t, x)
        <5>1. x.tid \in Thread /\ x.clock \in Nat /\ x.clock # 0
          BY Zenon DEF WordOK, EventOK
        <5>2. x.tid = t \/ cv[t][x.tid] > x.clock
          BY <1>1, <4>2, <5>1 DEF ClockMayRace
        <5>3. a.tid = t \/ a.id \in released[t]
          BY <1>1, <3>2, <5>1, <5>2, Zenon DEF Covers
        <5>4. QED
          BY <1>3, <2>2, <5>3, Zenon
      <4>3. QED
        BY <4>1, <4>2, Zenon
    <3>3. CASE a.tid = t /\ a.kind = kind
      <4>1. ~IsWrite(a.kind)
        BY <1>5, <3>3, Zenon DEF IsWrite
      <4>2. QED
        BY <1>3, <2>2, <3>3, <4>1, Zenon
    <3>4. CASE a \in accs
      BY <2>3, <3>1, <3>2, <3>4, Zenon DEF Complete
    <3>5. QED
      BY <1>2, <3>3, <3>4, Zenon
  <2> HIDE DEF e, r, t
  <2>4. QED
    BY <2>3, Zenon DEF Complete, r, t
<1>6. QED
  BY <1>4, <1>5, Zenon

\* A plain access that races with an earlier one is found to race with the event that covers it
LEMMA CoveredIsFound ==
  ASSUME Base, AccessesOK, NEW kind \in {"read", "write"}, NEW t \in Thread, NEW b,
         NEW s, WordOK(s), Complete(cv, released, accs, s, b),
         NEW a \in accs, a.byte = b, IsPlain(a.kind), IsWrite(a.kind) \/ IsWrite(kind), a.tid # t, a.id \notin seen[t]
  PROVE  Check(kind, cv[t], t, s).race
<1>1. a.id \notin released[t]
  BY Zenon DEF AccessesOK
<1>2. ASSUME NEW e, e.tid \in Thread, e.clock \in Nat, Covers(cv, released, e, a)
      PROVE  ClockMayRace(cv[t], t, e)
  <2>1. e.tid # t /\ e.clock # 0 /\ ~(cv[t][e.tid] > e.clock)
    BY <1>1, <1>2, Zenon DEF Covers
  <2>2. cv[t][e.tid] \in Nat
    BY <1>2, Zenon DEF Base, ClocksOK
  <2>3. QED
    BY <1>2, <2>1, <2>2 DEF ClockMayRace
<1>3. CASE Covers(cv, released, LastWrite(s), a)
  <2>1. LastWrite(s).tid \in Thread /\ LastWrite(s).clock \in Nat
    BY <1>3, Zenon DEF LastWrite, WordOK, Covers
  <2>2. RacesWithWrite(cv[t], t, s)
    BY <1>2, <1>3, <2>1, Zenon DEF RacesWithWrite
  <2>3. QED
    BY <2>2, Zenon DEF Check, RaceCheckRead, RaceCheckWrite, Result
<1>4. ASSUME ~IsWrite(a.kind), NEW e \in s.reads, Covers(cv, released, e, a)
      PROVE  Check(kind, cv[t], t, s).race
  <2>1. e.tid \in Thread /\ e.clock \in Nat
    BY Zenon DEF WordOK, EventOK
  <2>2. RacesWithRead(cv[t], t, s)
    BY <1>2, <1>4, <2>1, Zenon DEF RacesWithRead
  <2>3. kind = "write"
    BY <1>4, Zenon DEF IsWrite
  <2>4. QED
    BY <2>2, <2>3, Zenon DEF Check, RaceCheckWrite, Result
<1>5. QED
  BY <1>3, <1>4, Zenon DEF Complete

\* The races of the reference come from accesses that do not happen before this one
LEMMA RacesFrom ==
  ASSUME NEW kind, NEW t, NEW R, NEW before
  PROVE  \A r : r \in Races(kind, t, R, before) <=>
                \E a \in accs :
                  /\ a.id \notin before /\ a.byte \in R /\ a.tid # t
                  /\ IsWrite(a.kind) \/ IsWrite(kind)
                  /\ IsPlain(a.kind) \/ IsPlain(kind)
                  /\ r = [byte |-> a.byte, plain |-> IsPlain(a.kind) /\ IsPlain(kind)]
BY Zenon DEF Races

\* An atomic access races with no access as one plain access with another
LEMMA AtomicMissesNone ==
  ASSUME NEW kind, NEW t, NEW R, AtomicAccess(kind, t, R), PlainRacesReported
  PROVE  PlainRacesReported'
<1>1. PICK M \in SUBSET Races(kind, t, R, seen[t]) : missed' = missed \cup M
  BY Zenon DEF AtomicAccess, Apply
<1>2. ~IsPlain(kind)
  BY Zenon DEF AtomicAccess
<1>3. ASSUME NEW r \in Races(kind, t, R, seen[t])
      PROVE  ~r.plain
  <2>1. PICK a \in accs : r = [byte |-> a.byte, plain |-> IsPlain(a.kind) /\ IsPlain(kind)]
    BY RacesFrom
  <2>2. r.plain = (IsPlain(a.kind) /\ IsPlain(kind))
    BY <2>1, Zenon
  <2>3. QED
    BY <1>2, <2>2, Zenon
<1>4. QED
  BY <1>1, <1>3, Zenon DEF PlainRacesReported

\* With no plain accesses there is nothing to miss
LEMMA NoPlainMissesNone ==
  ASSUME NoPlainAccesses(program), PlainRacesReported, [Next]_vars
  PROVE  PlainRacesReported'
<1>1. ASSUME NEW t \in program.threads, NEW u \in program.threads, Synchronise(t, u)
      PROVE  PlainRacesReported'
  BY <1>1, Zenon DEF Synchronise, PlainRacesReported
<1>2. ASSUME NEW kind \in program.kinds, NEW R \in program.ranges, PlainAccess(kind, R)
      PROVE  PlainRacesReported'
  BY <1>2, Zenon DEF PlainAccess, NoPlainAccesses
<1>3. ASSUME NEW kind \in program.kinds, NEW t \in program.threads, NEW R \in program.ranges, AtomicAccess(kind, t, R)
      PROVE  PlainRacesReported'
  BY <1>3, AtomicMissesNone, Zenon
<1>4. CASE UNCHANGED vars
  BY <1>4, Zenon DEF vars, PlainRacesReported
<1>5. QED
  BY <1>1, <1>2, <1>3, <1>4, Zenon DEF Next

\* The inductive step for programs of reads, writes, atomic loads and failed
\* compare-and-swaps: accesses stay covered, and a first race is found
LEMMA CompleteNext ==
  ASSUME Base, AccessesOK, NoAtomicWrites(program), NoMemops(program), AllCovered, PlainRacesReported, [Next]_vars
  PROVE  AllCovered' /\ PlainRacesReported'
<1>0. ClocksOK /\ ShadowOK /\ \A b \in Bytes : WordOK(shadow[b]) /\ Fits(shadow[b])
  BY Zenon DEF Base, ShadowOK
<1>1. ASSUME NEW t \in program.threads, NEW u \in program.threads, Synchronise(t, u)
      PROVE  AllCovered' /\ PlainRacesReported'
  <2>1. t \in Thread /\ u \in Thread
    BY <1>0, Allowed, Zenon
  <2>2. shadow' = shadow /\ accs' = accs /\ racy' = racy /\ missed' = missed
    BY <1>1, Zenon DEF Synchronise
  <2>3. Passes(t, u)
    BY <1>0, <1>1, <2>1, SyncPasses, Zenon
  <2>4. ASSUME NEW b \in Bytes, Complete(cv, released, accs, shadow[b], b)
        PROVE  Complete(cv', released', accs', shadow[b], b)
    BY <1>0, <2>1, <2>2, <2>3, <2>4, CompletePasses, Zenon
  <2>5. QED
    BY <2>2, <2>4, Zenon DEF AllCovered, PlainRacesReported
<1>2. ASSUME NEW kind \in program.kinds, NEW R \in program.ranges, PlainAccess(kind, R)
      PROVE  AllCovered' /\ PlainRacesReported'
  <2> DEFINE t == running
  <2>1. kind \in {"read", "write"} /\ kind \in Kinds /\ R \in SUBSET Bytes /\ R # {} /\ IsPlain(kind)
    BY <1>0, <1>2, Allowed, Zenon DEF NoMemops, PlainAccess, IsPlain
  <2>2. t \in Thread /\ cv[t] \in [Thread -> Nat] /\ cv[t][t] # 0
    BY <1>0, Allowed, Zenon DEF ClocksOK
  <2>3. /\ shadow' = CheckBytes(kind, cv[t], t, R, shadow).shadow
        /\ racy' = racy \cup Races(kind, t, R, seen[t])
        /\ missed' = missed \cup {r \in Races(kind, t, R, seen[t]) \ racy :
                                 r.byte \notin CheckBytes(kind, cv[t], t, R, shadow).races
                                          \cup CheckBytes(kind, cv[t], t, R, shadow).shared}
    BY <1>2, Zenon DEF PlainAccess, Apply
  <2>4. cv' = cv /\ released' = released /\ \E id : accs' = accs \cup Accesses(kind, t, R, id)
    BY <1>0, <1>2, <2>1, PlainKeeps, ZenonT(20)
  <2>5. PICK id : accs' = accs \cup Accesses(kind, t, R, id)
    BY <2>4, Zenon
  <2>6. CheckedBytes(kind, R) = R
    BY <2>1, Zenon DEF CheckedBytes, IsMemop
  <2>7. shadow' = NewShadow(kind, cv[t], t, R, shadow)
    BY <1>0, <2>1, <2>2, <2>3, ApplyShadow
  <2>8. ASSUME NEW b \in Bytes, PlainRace(b) \notin racy'
        PROVE  Complete(cv', released', accs', shadow'[b], b)
    <3>1. Complete(cv, released, accs, shadow[b], b)
      BY <2>3, <2>8, Zenon DEF AllCovered
    <3>2. CASE b \in R
      <4>1. shadow'[b] = Check(kind, cv[t], t, shadow[b]).s
        BY <2>6, <2>7, <3>2, Zenon DEF NewShadow
      <4>2. ASSUME NEW a \in accs, a.byte = b, IsPlain(a.kind), IsWrite(a.kind) \/ IsWrite(kind), a.tid # t, a.id \notin seen[t]
            PROVE  FALSE
        <5>1. PlainRace(b) = [byte |-> a.byte, plain |-> IsPlain(a.kind) /\ IsPlain(kind)]
          BY <2>1, <4>2, Zenon DEF PlainRace
        <5>2. PlainRace(b) \in Races(kind, t, R, seen[t])
          BY <2>1, <3>2, <4>2, <5>1, RacesFrom, Zenon
        <5>3. QED
          BY <2>3, <2>8, <5>2, Zenon
      <4>3. Complete(cv, released, accs', Check(kind, cv[t], t, shadow[b]).s, b)
        BY <1>0, <2>1, <2>5, <3>1, <3>2, <4>2, CompletePlain, Zenon
      <4>4. QED
        BY <2>4, <4>1, <4>3, Zenon
    <3>3. CASE b \notin R
      <4>1. shadow'[b] = shadow[b]
        BY <2>6, <2>7, <3>3, Zenon DEF NewShadow
      <4>2. \A a \in accs' : a.byte = b => a \in accs
        BY <2>5, <3>3 DEF Accesses
      <4>3. Complete(cv, released, accs', shadow[b], b)
        BY <3>1, <4>2, Zenon DEF Complete
      <4>4. QED
        BY <2>4, <4>1, <4>3, Zenon
    <3>4. QED
      BY <3>2, <3>3, Zenon
  <2>9. ASSUME NEW r \in Races(kind, t, R, seen[t]) \ racy, r.plain
        PROVE  r.byte \in CheckBytes(kind, cv[t], t, R, shadow).races \cup CheckBytes(kind, cv[t], t, R, shadow).shared
    <3>1. PICK a \in accs :
            /\ a.id \notin seen[t] /\ a.byte \in R /\ a.tid # t
            /\ IsWrite(a.kind) \/ IsWrite(kind)
            /\ r = [byte |-> a.byte, plain |-> IsPlain(a.kind) /\ IsPlain(kind)]
      BY RacesFrom
    <3>2. IsPlain(a.kind) /\ r = PlainRace(a.byte) /\ r.byte = a.byte /\ a.byte \in Bytes
      BY <2>1, <2>9, <3>1, Zenon DEF PlainRace
    <3>3. Complete(cv, released, accs, shadow[a.byte], a.byte)
      BY <2>9, <3>2, Zenon DEF AllCovered
    <3>4. Check(kind, cv[t], t, shadow[a.byte]).race
      BY <1>0, <2>1, <2>2, <3>1, <3>2, <3>3, CoveredIsFound, Zenon
    <3>5. a.byte \in Found(kind, cv[t], t, R, shadow)
      BY <2>6, <3>1, <3>4, Zenon DEF Found
    <3>6. QED
      BY <2>1, <3>2, <3>5, CheckBytesOK, Zenon
  <2>10. PlainRacesReported'
    BY <2>3, <2>9, Zenon DEF PlainRacesReported
  <2>11. QED
    BY <2>8, <2>10, Zenon DEF AllCovered
<1>3. ASSUME NEW kind \in program.kinds, NEW t \in program.threads, NEW R \in program.ranges, AtomicAccess(kind, t, R)
      PROVE  AllCovered' /\ PlainRacesReported'
  <2> DEFINE S == SetAtomicStoreFlag(kind, R, shadow)
  <2>1. /\ kind \in {"load", "failedcas"} /\ kind \in Kinds /\ ~IsPlain(kind)
        /\ R \in SUBSET Bytes /\ R # {} /\ t \in Thread
    BY <1>0, <1>3, Allowed, Zenon DEF NoAtomicWrites, AtomicAccess, IsPlain, IsMemop, Kinds
  <2>2. shadow' = CheckBytes(kind, cv'[t], t, R, S).shadow /\ racy \subseteq racy'
    BY <1>3, Zenon DEF AtomicAccess, Apply
  <2>3. Passes(t, t) /\ \E id : accs' = accs \cup Accesses(kind, t, R, id)
    BY <1>0, <1>3, <2>1, AtomicPasses, Zenon
  <2>4. \A a \in accs' : IsPlain(a.kind) => a \in accs
    BY <2>1, <2>3 DEF Accesses
  <2>5. \A b \in Bytes : WordOK(S[b]) /\ S[b].reads = shadow[b].reads /\ LastWrite(S[b]) = LastWrite(shadow[b])
    BY <1>0, <2>1, FlagOK, Zenon DEF LastWrite
  <2> HIDE DEF S
  <2>6. shadow' = NewShadow(kind, cv'[t], t, R, S)
    BY <2>1, <2>2, ShadowOfBytes
  <2>7. \A b \in Bytes : shadow'[b] = S[b]
    BY <2>1, <2>6, Zenon DEF NewShadow, Check, AtomRaceCheckRead, Result
  <2>8. ASSUME NEW b \in Bytes, PlainRace(b) \notin racy'
        PROVE  Complete(cv', released', accs', shadow'[b], b)
    <3>1. Complete(cv, released, accs, shadow[b], b)
      BY <2>2, <2>8, Zenon DEF AllCovered
    <3>2. Complete(cv, released, accs, S[b], b)
      BY <2>5, <3>1, Zenon DEF Complete
    <3>3. Complete(cv', released', accs', S[b], b)
      BY <1>0, <2>1, <2>3, <2>4, <2>5, <3>2, CompletePasses, Zenon
    <3>4. QED
      BY <2>7, <3>3, Zenon
  <2>9. QED
    BY <1>3, <2>8, AtomicMissesNone, ZenonT(20) DEF AllCovered
<1>4. CASE UNCHANGED vars
  BY <1>4, Zenon DEF vars, AllCovered, PlainRacesReported
<1>5. QED
  BY <1>1, <1>2, <1>3, <1>4, Zenon DEF Next

\* Complete for plain accesses: the first race between two of them on a byte is
\* reported when the second is made, although a word keeps one read, covered
\* reads are dropped and the bytes of an access share a check; for every program
\* of reads, writes, atomic loads and failed compare-and-swaps, with any number
\* of threads and bytes.
THEOREM NoPlainRaceIsMissed ==
  ASSUME \A p \in Programs : NoMemops(p) /\ (NoAtomicWrites(p) \/ NoPlainAccesses(p))
  PROVE  Spec => []PlainRacesReported
<1>1. Init => CompleteInv
  <2> SUFFICES ASSUME Init
               PROVE  CompleteInv
    BY Zenon
  <2>1. Base /\ AccessesOK
    BY BaseInit, AccessesInit, Zenon
  <2>2. QED
    BY <2>1, Zenon DEF Init, CompleteInv, AllCovered, Complete, PlainRacesReported
<1>2. CompleteInv /\ [Next]_vars => CompleteInv'
  <2> SUFFICES ASSUME CompleteInv, [Next]_vars
               PROVE  CompleteInv'
    BY Zenon
  <2>1. Base' /\ AccessesOK'
    BY BaseNext, AccessesNext, Zenon DEF CompleteInv, Base
  <2>2. program' = program /\ program \in Programs
    BY ProgramFixed, Zenon DEF CompleteInv, Base, ClocksOK
  <2>3. CASE NoAtomicWrites(program)
    BY <2>1, <2>2, <2>3, CompleteNext, Zenon DEF CompleteInv
  <2>4. CASE ~NoAtomicWrites(program)
    <3>1. NoPlainAccesses(program)
      BY <2>2, <2>4, Zenon
    <3>2. PlainRacesReported'
      BY <3>1, NoPlainMissesNone, Zenon DEF CompleteInv
    <3>3. QED
      BY <2>1, <2>2, <2>4, <3>2, Zenon DEF CompleteInv
  <2>5. QED
    BY <2>3, <2>4, Zenon
<1>3. QED
  BY <1>1, <1>2, PTL DEF Spec, CompleteInv
=============================================================================
