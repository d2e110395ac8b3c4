------------------------ MODULE SourceCollection_proofs ------------------------
(***************************************************************************)
(* A research run stays within its limits and stores nothing that is not   *)
(* pinned to a stored snapshot, whatever the sources offer and answer and  *)
(* wherever the run is cut short: proofs about SourceCollection.           *)
(***************************************************************************)
EXTENDS SourceCollection, FiniteSums, TLAPS

-----------------------------------------------------------------------------
(* Collecting: lists, and what sorting makes of them.                       *)

LEMMA ListingIs ==
    ASSUME NEW s, Listing(s)
    PROVE  /\ Len(s) \in Nat /\ DOMAIN s = 1..Len(s)
           /\ \A i \in DOMAIN s : s[i] \in ToSet(s)
           /\ ToSet(s) = {s[i] : i \in DOMAIN s}
  BY DEF Listing, ToSet

\* Whatever is numbered from 1 is a list.
LEMMA Numbered ==
    ASSUME NEW n \in Nat, NEW s, s = [i \in 1..n |-> s[i]]
    PROVE  Listing(s) /\ Len(s) = n
<1>1. \A i \in 1..n : s[i] \in ToSet(s)
  BY DEF ToSet
<1>2. s \in [1..n -> ToSet(s)]
  BY <1>1
<1>3. s \in Seq(ToSet(s))
  BY <1>2
<1> QED BY <1>2, <1>3 DEF Listing

LEMMA EmptyListing == Listing(<< >>) /\ ToSet(<< >>) = {}
  BY DEF Listing, ToSet

LEMMA JoinedListing ==
    ASSUME NEW s, Listing(s), NEW t, Listing(t)
    PROVE  /\ Listing(s \o t) /\ Len(s \o t) = Len(s) + Len(t)
           /\ ToSet(s \o t) = ToSet(s) \cup ToSet(t)
<1>1. PICK T : T = ToSet(s) \cup ToSet(t)
  OBVIOUS
<1>2. s \in Seq(T) /\ t \in Seq(T)
  BY <1>1 DEF Listing
<1>3. s \o t \in Seq(T) /\ Len(s \o t) = Len(s) + Len(t)
  BY <1>2
<1>4. \A i \in 1..Len(s) : (s \o t)[i] = s[i] /\ i \in DOMAIN (s \o t)
  BY <1>2, <1>3
<1>5. \A j \in 1..Len(t) : /\ (s \o t)[Len(s) + j] = t[j]
                           /\ Len(s) + j \in DOMAIN (s \o t)
  BY <1>2, <1>3
<1>6. \A k \in DOMAIN (s \o t) : (s \o t)[k] \in T
  BY <1>3
<1>7. ToSet(s \o t) = T
  <2>1. ToSet(s \o t) \subseteq T
    BY <1>6 DEF ToSet
  <2>2. \A x \in ToSet(s) : x \in ToSet(s \o t)
    BY <1>2, <1>4 DEF ToSet
  <2>3. \A x \in ToSet(t) : x \in ToSet(s \o t)
    <3> TAKE x \in ToSet(t)
    <3>1. PICK j \in 1..Len(t) : x = t[j]
      BY <1>2 DEF ToSet
    <3>2. x = (s \o t)[Len(s) + j] /\ Len(s) + j \in DOMAIN (s \o t)
      BY <1>5, <3>1
    <3> QED BY <3>2 DEF ToSet
  <2> QED BY <1>1, <2>1, <2>2, <2>3
<1>8. Listing(s \o t)
  BY <1>3, <1>7 DEF Listing
<1> QED BY <1>1, <1>3, <1>7, <1>8

\* The first entries of a list.
LEMMA FirstListing ==
    ASSUME NEW s, Listing(s), NEW n \in Nat, NEW b, b = SubSeq(s, 1, Smaller(n, Len(s)))
    PROVE  /\ Listing(b) /\ Len(b) = Smaller(n, Len(s))
           /\ Len(b) <= n /\ Len(b) <= Len(s) /\ (Len(b) < Len(s) => Len(b) = n)
           /\ ToSet(b) \subseteq ToSet(s)
           /\ \A i \in DOMAIN b : i \in DOMAIN s /\ b[i] = s[i]
<1>1. PICK m : m = Smaller(n, Len(s))
  OBVIOUS
<1>2. /\ s \in Seq(ToSet(s)) /\ Len(s) \in Nat /\ m \in 0..Len(s) /\ m <= n
      /\ (m < Len(s) => m = n)
  BY <1>1 DEF Smaller, Listing
<1>3. b \in Seq(ToSet(s)) /\ Len(b) = m /\ \A i \in 1..m : b[i] = s[i]
  BY <1>1, <1>2
<1>4. DOMAIN b = 1..m /\ DOMAIN s = 1..Len(s)
  BY <1>2, <1>3
<1>5. b = [i \in 1..m |-> b[i]]
  BY <1>3, <1>4
<1>6. Listing(b)
  <2>1. m \in Nat
    BY <1>2
  <2> QED BY <1>5, <2>1, Numbered
<1>7. \A i \in DOMAIN b : i \in DOMAIN s /\ b[i] = s[i]
  BY <1>2, <1>3, <1>4
<1>8. ToSet(b) \subseteq ToSet(s)
  BY <1>7 DEF ToSet
<1> QED BY <1>1, <1>2, <1>3, <1>6, <1>7, <1>8

\* Keys are tuples of one length, of no number, of two or of three.
KeysOK(at, keys) ==
    \/ \A i \in at : keys[i] = << >>
    \/ \A i \in at : keys[i] \in Int \X Int
    \/ \A i \in at : keys[i] \in Int \X Int \X Int

LEMMA NothingIsLess == ~TupleLess(<< >>, << >>)
  BY DEF TupleLess

LEMMA PairLess ==
    ASSUME NEW s \in Int \X Int, NEW t \in Int \X Int
    PROVE  TupleLess(s, t) <=> s[1] < t[1] \/ (s[1] = t[1] /\ s[2] < t[2])
<1>1. DOMAIN s = 1..2
  OBVIOUS
<1>2. TupleLess(s, t) <=> \E i \in 1..2 : s[i] < t[i] /\ \A j \in 1..(i - 1) : s[j] = t[j]
  BY <1>1 DEF TupleLess
<1>3. s[1] < t[1] => TupleLess(s, t)
  BY <1>2
<1>4. s[1] = t[1] /\ s[2] < t[2] => TupleLess(s, t)
  BY <1>2
<1>5. TupleLess(s, t) => s[1] < t[1] \/ (s[1] = t[1] /\ s[2] < t[2])
  BY <1>2
<1> QED BY <1>3, <1>4, <1>5

LEMMA TripleLess ==
    ASSUME NEW s \in Int \X Int \X Int, NEW t \in Int \X Int \X Int
    PROVE  TupleLess(s, t) <=> \/ s[1] < t[1]
                               \/ s[1] = t[1] /\ s[2] < t[2]
                               \/ s[1] = t[1] /\ s[2] = t[2] /\ s[3] < t[3]
<1>1. DOMAIN s = 1..3
  OBVIOUS
<1>2. TupleLess(s, t) <=> \E i \in 1..3 : s[i] < t[i] /\ \A j \in 1..(i - 1) : s[j] = t[j]
  BY <1>1 DEF TupleLess
<1>3. s[1] < t[1] => TupleLess(s, t)
  BY <1>2
<1>4. s[1] = t[1] /\ s[2] < t[2] => TupleLess(s, t)
  BY <1>2
<1>5. s[1] = t[1] /\ s[2] = t[2] /\ s[3] < t[3] => TupleLess(s, t)
  BY <1>2
<1>6. ASSUME TupleLess(s, t)
      PROVE  \/ s[1] < t[1]
             \/ s[1] = t[1] /\ s[2] < t[2]
             \/ s[1] = t[1] /\ s[2] = t[2] /\ s[3] < t[3]
  <2>1. PICK i \in 1..3 : s[i] < t[i] /\ \A j \in 1..(i - 1) : s[j] = t[j]
    BY <1>2, <1>6
  <2>2. i = 1 \/ i = 2 \/ i = 3
    OBVIOUS
  <2> QED BY <2>1, <2>2
<1> QED BY <1>3, <1>4, <1>5, <1>6

\* With keys of one kind, sorting compares the entries in a linear order.
LEMMA AheadIsLinear ==
    ASSUME NEW at \in SUBSET Int, NEW keys, KeysOK(at, keys),
           NEW R, R = {p \in at \X at : Ahead(keys, p[1], p[2])}
    PROVE  LinearOn(R, at) /\ \A i, j \in at : <<i, j>> \in R <=> Ahead(keys, i, j)
<1>1. \A i, j \in at : <<i, j>> \in R <=> Ahead(keys, i, j)
  OBVIOUS
<1>2. /\ \A i \in at : ~Ahead(keys, i, i)
      /\ \A i, j, k \in at : Ahead(keys, i, j) /\ Ahead(keys, j, k) => Ahead(keys, i, k)
      /\ \A i, j \in at : i # j => Ahead(keys, i, j) \/ Ahead(keys, j, i)
  <2>1. CASE \A i \in at : keys[i] = << >>
    <3>1. \A i, j \in at : Ahead(keys, i, j) <=> i < j
      BY <2>1, NothingIsLess DEF Ahead
    <3> QED BY <3>1
  <2>2. CASE \A i \in at : keys[i] \in Int \X Int
    <3>1. \A i, j \in at : TupleLess(keys[i], keys[j]) <=>
              \/ keys[i][1] < keys[j][1]
              \/ keys[i][1] = keys[j][1] /\ keys[i][2] < keys[j][2]
      BY <2>2, PairLess
    <3>2. \A i, j \in at : keys[i] = keys[j] <=>
              keys[i][1] = keys[j][1] /\ keys[i][2] = keys[j][2]
      <4>1. \A s, t \in Int \X Int : s = t <=> s[1] = t[1] /\ s[2] = t[2]
        OBVIOUS
      <4> QED BY <2>2, <4>1
    <3>3. \A i \in at : keys[i][1] \in Int /\ keys[i][2] \in Int
      BY <2>2
    <3>4. \A i, j \in at : Ahead(keys, i, j) <=>
              \/ keys[i][1] < keys[j][1]
              \/ keys[i][1] = keys[j][1] /\ keys[i][2] < keys[j][2]
              \/ keys[i][1] = keys[j][1] /\ keys[i][2] = keys[j][2] /\ i < j
      BY <3>1, <3>2 DEF Ahead
    <3> QED BY <3>3, <3>4
  <2>3. CASE \A i \in at : keys[i] \in Int \X Int \X Int
    <3>1. \A i, j \in at : TupleLess(keys[i], keys[j]) <=>
              \/ keys[i][1] < keys[j][1]
              \/ keys[i][1] = keys[j][1] /\ keys[i][2] < keys[j][2]
              \/ keys[i][1] = keys[j][1] /\ keys[i][2] = keys[j][2] /\ keys[i][3] < keys[j][3]
      BY <2>3, TripleLess
    <3>2. \A i, j \in at : keys[i] = keys[j] <=>
              keys[i][1] = keys[j][1] /\ keys[i][2] = keys[j][2] /\ keys[i][3] = keys[j][3]
      BY <2>3
    <3>3. \A i \in at : keys[i][1] \in Int /\ keys[i][2] \in Int /\ keys[i][3] \in Int
      BY <2>3
    <3>4. \A i, j \in at : Ahead(keys, i, j) <=>
              \/ keys[i][1] < keys[j][1]
              \/ keys[i][1] = keys[j][1] /\ keys[i][2] < keys[j][2]
              \/ keys[i][1] = keys[j][1] /\ keys[i][2] = keys[j][2] /\ keys[i][3] < keys[j][3]
              \/ /\ keys[i][1] = keys[j][1] /\ keys[i][2] = keys[j][2] /\ keys[i][3] = keys[j][3]
                 /\ i < j
      BY <3>1, <3>2 DEF Ahead
    <3> QED BY <3>3, <3>4
  <2> QED BY <2>1, <2>2, <2>3 DEF KeysOK
<1>3. LinearOn(R, at)
  BY <1>1, <1>2 DEF LinearOn
<1> QED BY <1>1, <1>3

\* The chosen entries of seq, each once, in the order of their keys.
OrderedBy(s, seq, at, keys) ==
    \E pick \in [DOMAIN s -> at] :
        /\ \A n \in DOMAIN s : s[n] = seq[pick[n]]
        /\ \A i \in at : \E n \in DOMAIN s : pick[n] = i
        /\ \A n, m \in DOMAIN s : n < m <=> Ahead(keys, pick[n], pick[m])

LEMMA SortedOK ==
    ASSUME NEW seq, NEW at \in SUBSET Int, IsFiniteSet(at), NEW keys, KeysOK(at, keys),
           NEW s, s = Sorted(seq, at, keys)
    PROVE  /\ Listing(s) /\ Len(s) = Cardinality(at) /\ DOMAIN s = 1..Cardinality(at)
           /\ OrderedBy(s, seq, at, keys)
<1>1. PICK R : R = {p \in at \X at : Ahead(keys, p[1], p[2])}
  OBVIOUS
<1>2. LinearOn(R, at) /\ \A i, j \in at : <<i, j>> \in R <=> Ahead(keys, i, j)
  BY <1>1, AheadIsLinear
<1>3. PICK C : C = Cardinality(at)
  OBVIOUS
<1>4. C \in Nat
  BY <1>3, FS_CardinalityType
<1>5. PICK place : place = [i \in at |-> Cardinality({j \in at : Ahead(keys, j, i)}) + 1]
  OBVIOUS
<1>6. \A i \in at : {j \in at : Ahead(keys, j, i)} = Preceding(R, at, i)
  BY <1>2 DEF Preceding
<1>7. \A i \in at : place[i] = Cardinality(Preceding(R, at, i)) + 1
  BY <1>5, <1>6
<1>8. \A i, j \in at :
         /\ Cardinality(Preceding(R, at, i)) \in 0..(C - 1)
         /\ <<i, j>> \in R => Cardinality(Preceding(R, at, i)) < Cardinality(Preceding(R, at, j))
         /\ Cardinality(Preceding(R, at, i)) = Cardinality(Preceding(R, at, j)) => i = j
  BY <1>2, <1>3, PlacesDiffer
<1>22. PICK before : before = [i \in at |-> Cardinality(Preceding(R, at, i))]
  OBVIOUS
<1>23. /\ \A i \in at : place[i] = before[i] + 1 /\ before[i] \in 0..(C - 1)
       /\ \A i, j \in at : Ahead(keys, i, j) => before[i] < before[j]
       /\ \A i, j \in at : before[i] = before[j] => i = j
  BY <1>2, <1>7, <1>8, <1>22
<1>24. \A x, y \in 0..(C - 1) : /\ x + 1 \in 1..C /\ (x + 1 = y + 1 => x = y)
                               /\ (x < y => x + 1 < y + 1)
  BY <1>4
<1>9. \A i \in at : place[i] \in 1..C
  BY <1>23, <1>24
<1>10. \A i, j \in at : Ahead(keys, i, j) => place[i] < place[j]
  BY <1>23, <1>24
<1>11. \A i, j \in at : place[i] = place[j] => i = j
  BY <1>23, <1>24
<1>12. \A n \in 1..C : \E i \in at : place[i] = n
  <2> TAKE n \in 1..C
  <2>1. \E i \in at : Cardinality(Preceding(R, at, i)) = n - 1
    BY <1>2, <1>3, PlacesTaken
  <2> QED BY <1>4, <1>7, <2>1
<1>13. PICK pick : pick = [n \in 1..C |-> CHOOSE i \in at : place[i] = n]
  OBVIOUS
<1>14. \A n \in 1..C : pick[n] \in at /\ place[pick[n]] = n
  BY <1>12, <1>13
<1>15. s = [n \in 1..C |-> seq[CHOOSE i \in at : place[i] = n]]
  BY <1>3, <1>5 DEF Sorted
<1>16. DOMAIN s = 1..C /\ \A n \in 1..C : s[n] = seq[pick[n]]
  BY <1>13, <1>15
<1>17. Listing(s) /\ Len(s) = C
  <2>1. s = [n \in 1..C |-> s[n]]
    BY <1>15, <1>16
  <2> QED BY <1>4, <2>1, Numbered
<1>18. pick \in [1..C -> at]
  BY <1>13, <1>14
<1>19. \A i \in at : place[i] \in 1..C /\ pick[place[i]] = i
  BY <1>9, <1>11, <1>14
<1>20. ASSUME NEW n \in 1..C, NEW m \in 1..C
       PROVE  n < m <=> Ahead(keys, pick[n], pick[m])
  <2>1. /\ pick[n] \in at /\ place[pick[n]] = n
        /\ pick[m] \in at /\ place[pick[m]] = m
    BY <1>14
  <2>2. Ahead(keys, pick[n], pick[m]) => n < m
    BY <1>10, <2>1
  <2>3. Ahead(keys, pick[m], pick[n]) => m < n
    BY <1>10, <2>1
  <2>4. pick[n] # pick[m] => Ahead(keys, pick[n], pick[m]) \/ Ahead(keys, pick[m], pick[n])
    BY <1>2, <2>1 DEF LinearOn
  <2>5. pick[n] = pick[m] => n = m
    BY <2>1
  <2> QED BY <1>4, <2>2, <2>3, <2>4, <2>5
<1> HIDE DEF Sorted
<1>21. /\ \A n \in DOMAIN s : s[n] = seq[pick[n]]
       /\ \A i \in at : \E n \in DOMAIN s : pick[n] = i
       /\ \A n, m \in DOMAIN s : n < m <=> Ahead(keys, pick[n], pick[m])
       /\ pick \in [DOMAIN s -> at]
  BY <1>16, <1>18, <1>19, <1>20
<1>25. OrderedBy(s, seq, at, keys)
  BY <1>21 DEF OrderedBy
<1> QED BY <1>3, <1>16, <1>17, <1>25

\* Chosen entries of a list.
LEMMA ChosenOK ==
    ASSUME NEW seq, Listing(seq), NEW at \in SUBSET (DOMAIN seq), NEW keys, KeysOK(at, keys),
           NEW s, s = Sorted(seq, at, keys)
    PROVE  /\ Listing(s) /\ ToSet(s) = {seq[i] : i \in at}
           /\ at # {} => Len(s) \in Nat \ {0} /\ s[1] \in ToSet(s) /\ s # << >>
<1>1. DOMAIN seq = 1..Len(seq) /\ Len(seq) \in Nat
  BY ListingIs
<1>2. at \in SUBSET Int /\ IsFiniteSet(at)
  <2>1. IsFiniteSet(1..Len(seq))
    BY <1>1, FS_Interval
  <2> QED BY <1>1, <2>1, FS_Subset
<1>3. Listing(s) /\ Len(s) = Cardinality(at) /\ DOMAIN s = 1..Cardinality(at)
  BY <1>2, SortedOK
<1> HIDE DEF Sorted
<1>10. OrderedBy(s, seq, at, keys)
  BY <1>2, SortedOK
<1>4. PICK pick \in [DOMAIN s -> at] :
          /\ \A n \in DOMAIN s : s[n] = seq[pick[n]]
          /\ \A i \in at : \E n \in DOMAIN s : pick[n] = i
  BY <1>10 DEF OrderedBy
<1>5. ToSet(s) = {s[n] : n \in DOMAIN s}
  BY <1>3, ListingIs
<1>6. ToSet(s) = {seq[i] : i \in at}
  BY <1>4, <1>5
<1>7. Cardinality(at) \in Nat /\ (at # {} => Cardinality(at) # 0)
  BY <1>2, FS_CardinalityType, FS_EmptySet
<1>8. at # {} => 1 \in DOMAIN s
  BY <1>3, <1>7
<1>9. at # {} => s[1] \in ToSet(s) /\ s # << >>
  BY <1>5, <1>8
<1> QED BY <1>3, <1>6, <1>7, <1>9

LEMMA ThoseOK ==
    ASSUME NEW seq, Listing(seq), NEW at \in SUBSET (DOMAIN seq), NEW s, s = Those(seq, at)
    PROVE  /\ Listing(s) /\ ToSet(s) = {seq[i] : i \in at}
           /\ at # {} => Len(s) \in Nat \ {0} /\ s[1] \in ToSet(s) /\ s # << >>
<1>1. PICK keys : keys = [i \in at |-> << >>]
  OBVIOUS
<1>2. KeysOK(at, keys) /\ s = Sorted(seq, at, keys)
  BY <1>1 DEF KeysOK, Those
<1> QED BY <1>2, ChosenOK

\* A list is cut where the next entry does not fit.
LEMMA UpToOK ==
    ASSUME NEW seq, Listing(seq), NEW fitting, NEW s, s = UpTo(seq, fitting)
    PROVE  /\ Listing(s) /\ Len(s) <= Len(seq) /\ ToSet(s) \subseteq ToSet(seq)
           /\ s = SubSeq(seq, 1, Len(s))
           /\ s # << >> => Len(s) \in fitting /\ Len(s) \in Nat \ {0}
<1>1. PICK S : S = {n \in 0..Len(seq) : \A k \in 1..n : k \in fitting}
  OBVIOUS
<1>2. Len(seq) \in Nat /\ 0 \in S /\ S \in SUBSET Nat /\ \A n \in S : n <= Len(seq)
  <2>1. Len(seq) \in Nat
    BY ListingIs
  <2> QED BY <1>1, <2>1
<1>3. PICK m : m = Max(S)
  OBVIOUS
<1>4. m \in S
  BY <1>2, <1>3, MaxIsIn
<1>5. m \in 0..Len(seq) /\ (m # 0 => m \in fitting) /\ m \in Nat
  BY <1>1, <1>2, <1>4
<1>6. s = SubSeq(seq, 1, m)
  BY <1>1, <1>3 DEF UpTo
<1>7. Smaller(m, Len(seq)) = m
  BY <1>2, <1>5 DEF Smaller
<1>8. Listing(s) /\ Len(s) = m /\ ToSet(s) \subseteq ToSet(seq)
  <2>1. s = SubSeq(seq, 1, Smaller(m, Len(seq)))
    BY <1>6, <1>7
  <2> QED BY <1>5, <1>7, <2>1, FirstListing
<1>9. s # << >> => m # 0
  BY <1>8 DEF Listing
<1> QED BY <1>2, <1>5, <1>6, <1>8, <1>9

LEMMA FirstOfOK ==
    ASSUME NEW s, Listing(s), NEW n \in Nat, NEW b, b = FirstOf(s, n)
    PROVE  /\ Listing(b) /\ Len(b) = Smaller(n, Len(s))
           /\ Len(b) <= n /\ Len(b) <= Len(s) /\ (Len(b) < Len(s) => Len(b) = n)
           /\ ToSet(b) \subseteq ToSet(s)
           /\ \A i \in DOMAIN b : i \in DOMAIN s /\ b[i] = s[i]
<1>1. b = SubSeq(s, 1, Smaller(n, Len(s)))
  BY DEF FirstOf
<1> QED BY <1>1, FirstListing

LEMMA MappedListing ==
    ASSUME NEW t, Listing(t), NEW s, DOMAIN s = DOMAIN t, s = [i \in DOMAIN s |-> s[i]]
    PROVE  /\ Listing(s) /\ Len(s) = Len(t) /\ DOMAIN s = 1..Len(s)
           /\ \A x \in ToSet(s) : \E i \in DOMAIN t : x = s[i]
<1>1. Len(t) \in Nat /\ DOMAIN t = 1..Len(t)
  BY ListingIs
<1>2. Listing(s) /\ Len(s) = Len(t)
  BY <1>1, Numbered
<1>3. \A x \in ToSet(s) : \E i \in DOMAIN t : x = s[i]
  BY DEF ToSet
<1> QED BY <1>1, <1>2, <1>3

LEMMA SingleListing == ASSUME NEW x PROVE Listing(<<x>>) /\ ToSet(<<x>>) = {x} /\ Len(<<x>>) = 1
  BY DEF Listing, ToSet

-----------------------------------------------------------------------------
(* Collecting: what the adapters offer.                                     *)

\* An offer of an adapter that looked at the world w.
OfferOK(o, w) ==
    /\ o.adapter \in Remote \cup {"github", "official_docs", "arxiv"}
    /\ o.qualification \in Int /\ o.authority \in Int /\ IdRank[o.source] \in Int
    /\ o.type = "repository" <=> o.adapter = "github"
    /\ o.adapter = "github" => \E r \in ToSet(w.repositories) : r.url.page = o.page

OffersOK(s, w) == Listing(s) /\ \A o \in ToSet(s) : OfferOK(o, w)

LEMMA GithubOffersOK ==
    ASSUME NEW w, WorldOK(w), NEW q, RequestOK(q) PROVE OffersOK(GithubOffers(w, q), w)
<1>1. PICK found : found = FirstOf(w.repositories, q.max_sources)
  OBVIOUS
<1>2. PICK named : named = Those(found, {i \in DOMAIN found : found[i].name # ""})
  OBVIOUS
<1>3. PICK s : s = GithubOffers(w, q)
  OBVIOUS
<1>4. Listing(found) /\ ToSet(found) \subseteq ToSet(w.repositories)
  <2>1. Listing(w.repositories) /\ q.max_sources \in Nat
    BY DEF WorldOK, RequestOK
  <2>2. Listing(found)
    BY <1>1, <2>1, FirstOfOK
  <2>3. ToSet(found) \subseteq ToSet(w.repositories)
    BY <1>1, <2>1, FirstOfOK
  <2> QED BY <2>2, <2>3
<1>5. Listing(named) /\ ToSet(named) = {found[i] : i \in {j \in DOMAIN found : found[j].name # ""}}
  BY <1>2, <1>4, ThoseOK
<1>6. \A i \in DOMAIN named : named[i] \in ToSet(w.repositories)
  <2>1. \A i \in DOMAIN named : named[i] \in ToSet(named)
    BY <1>5, ListingIs
  <2>2. ToSet(named) \subseteq ToSet(found)
    BY <1>5 DEF ToSet
  <2> QED BY <1>4, <2>1, <2>2
<1>7. s = [i \in DOMAIN named |->
             Offer("github", named[i].url.page, named[i].url, "repository", named[i].branch,
                   Authority(named[i]), 50)]
  BY <1>1, <1>2, <1>3 DEF GithubOffers
<1>8. Listing(s) /\ \A x \in ToSet(s) : \E i \in DOMAIN named : x = s[i]
  <2>1. DOMAIN s = DOMAIN named /\ s = [i \in DOMAIN s |-> s[i]]
    BY <1>7
  <2>2. Listing(s)
    BY <1>5, <2>1, MappedListing
  <2>3. \A x \in ToSet(s) : \E i \in DOMAIN named : x = s[i]
    BY <1>5, <2>1, MappedListing
  <2> QED BY <2>2, <2>3
<1>9. \A i \in DOMAIN named : OfferOK(s[i], w)
  <2> TAKE i \in DOMAIN named
  <2>1. named[i].stars \in Nat /\ IdRank[named[i].url.page] \in Nat
    BY <1>6 DEF WorldOK, RepositoryOK
  <2>2. Authority(named[i]) \in Int
    BY <2>1 DEF Authority, Smaller
  <2>3. /\ s[i].adapter = "github" /\ s[i].source = named[i].url.page
        /\ s[i].page = named[i].url.page /\ s[i].type = "repository"
        /\ s[i].qualification = 50
        /\ s[i].authority = Authority(named[i])
    BY <1>7 DEF Offer
  <2> QED BY <1>6, <2>1, <2>2, <2>3 DEF OfferOK
<1> QED BY <1>3, <1>8, <1>9 DEF OffersOK

LEMMA ArxivOffersOK ==
    ASSUME NEW w, WorldOK(w), NEW q, RequestOK(q) PROVE OffersOK(ArxivOffers(w, q), w)
<1>1. PICK found : found = FirstOf(w.papers, q.max_sources)
  OBVIOUS
<1>2. PICK named : named = Those(found, {i \in DOMAIN found : found[i].title # ""})
  OBVIOUS
<1>3. PICK s : s = ArxivOffers(w, q)
  OBVIOUS
<1>4. Listing(found) /\ ToSet(found) \subseteq ToSet(w.papers)
  <2>1. Listing(w.papers) /\ q.max_sources \in Nat
    BY DEF WorldOK, RequestOK
  <2>2. Listing(found)
    BY <1>1, <2>1, FirstOfOK
  <2>3. ToSet(found) \subseteq ToSet(w.papers)
    BY <1>1, <2>1, FirstOfOK
  <2> QED BY <2>2, <2>3
<1>5. Listing(named) /\ ToSet(named) = {found[i] : i \in {j \in DOMAIN found : found[j].title # ""}}
  BY <1>2, <1>4, ThoseOK
<1>6. \A i \in DOMAIN named : named[i] \in ToSet(w.papers)
  <2>1. \A i \in DOMAIN named : named[i] \in ToSet(named)
    BY <1>5, ListingIs
  <2>2. ToSet(named) \subseteq ToSet(found)
    BY <1>5 DEF ToSet
  <2> QED BY <1>4, <2>1, <2>2
<1>7. s = [i \in DOMAIN named |->
             Offer("arxiv", named[i].url.page, named[i].url, "paper", named[i].version, 85, 60)]
  BY <1>1, <1>2, <1>3 DEF ArxivOffers
<1>8. Listing(s) /\ \A x \in ToSet(s) : \E i \in DOMAIN named : x = s[i]
  <2>1. DOMAIN s = DOMAIN named /\ s = [i \in DOMAIN s |-> s[i]]
    BY <1>7
  <2>2. Listing(s)
    BY <1>5, <2>1, MappedListing
  <2>3. \A x \in ToSet(s) : \E i \in DOMAIN named : x = s[i]
    BY <1>5, <2>1, MappedListing
  <2> QED BY <2>2, <2>3
<1>9. \A i \in DOMAIN named : OfferOK(s[i], w)
  <2> TAKE i \in DOMAIN named
  <2>1. IdRank[named[i].url.page] \in Nat
    BY <1>6 DEF WorldOK
  <2>2. /\ s[i].adapter = "arxiv" /\ s[i].source = named[i].url.page /\ s[i].type = "paper"
        /\ s[i].qualification = 60 /\ s[i].authority = 85
    BY <1>7 DEF Offer
  <2> QED BY <2>1, <2>2 DEF OfferOK
<1> QED BY <1>3, <1>8, <1>9 DEF OffersOK

LEMMA DivisionOK == \A a \in Nat, b \in Nat \ {0} : a \div b \in Nat
  OBVIOUS

LEMMA OfficialOffersOK ==
    ASSUME NEW w, WorldOK(w), NEW q, RequestOK(q) PROVE OffersOK(OfficialOffers(w.catalog, q), w)
<1>1. PICK catalog : catalog = w.catalog
  OBVIOUS
<1>2. \A spec : Share(spec, q.terms) \in Nat
  <2> TAKE spec
  <2>1. IsFiniteSet(q.terms) /\ IsFiniteSet(q.terms \cap spec.terms)
    <3>1. IsFiniteSet(q.terms)
      BY DEF RequestOK
    <3>2. q.terms \cap spec.terms \subseteq q.terms
      OBVIOUS
    <3> QED BY <3>1, <3>2, FS_Subset
  <2>2. Cardinality(q.terms) \in Nat /\ Cardinality(q.terms \cap spec.terms) \in Nat
    BY <2>1, FS_CardinalityType
  <2>3. Larger(1, Cardinality(q.terms)) \in Nat \ {0}
    BY <2>2 DEF Larger
  <2>4. 100 * Cardinality(q.terms \cap spec.terms) \in Nat
    BY <2>2
  <2> QED BY <2>3, <2>4, DivisionOK DEF Share
<1> DEFINE fitting == {i \in DOMAIN catalog : Share(catalog[i], q.terms) > 0 \/ q.terms = {}}
           keys == [i \in fitting |-> <<-Share(catalog[i], q.terms), IdRank[catalog[i].url.page]>>]
           sorted == Sorted(catalog, fitting, keys)
           ranked == FirstOf(sorted, q.max_sources)
<1>7. PICK s : s = OfficialOffers(catalog, q)
  OBVIOUS
<1>8. s = [i \in DOMAIN ranked |->
             Offer("official_docs", ranked[i].url.page, ranked[i].url, "official_documentation",
                   ranked[i].version, 100, Larger(50, Share(ranked[i], q.terms)))]
  BY <1>7 DEF OfficialOffers
<1>3. fitting = {i \in DOMAIN catalog : Share(catalog[i], q.terms) > 0 \/ q.terms = {}}
  OBVIOUS
<1>4. keys = [i \in fitting |-> <<-Share(catalog[i], q.terms), IdRank[catalog[i].url.page]>>]
  OBVIOUS
<1>5. sorted = Sorted(catalog, fitting, keys)
  OBVIOUS
<1>6. ranked = FirstOf(sorted, q.max_sources)
  OBVIOUS
<1> HIDE DEF fitting, keys, sorted, ranked
<1>9. Listing(catalog) /\ \A i \in DOMAIN catalog : /\ catalog[i] \in ToSet(catalog)
                                                    /\ IdRank[catalog[i].url.page] \in Nat
  <2>1. Listing(catalog) /\ \A x \in ToSet(catalog) : IdRank[x.url.page] \in Nat
    BY <1>1 DEF WorldOK
  <2> QED BY <2>1, ListingIs
<1>10. KeysOK(fitting, keys)
  <2>1. \A i \in fitting : keys[i] \in Int \X Int
    BY <1>2, <1>3, <1>4, <1>9
  <2> QED BY <2>1 DEF KeysOK
<1>11. Listing(sorted) /\ ToSet(sorted) = {catalog[i] : i \in fitting}
  <2>1. fitting \in SUBSET (DOMAIN catalog)
    BY <1>3
  <2> QED BY <1>5, <1>9, <1>10, <2>1, ChosenOK
<1>12. Listing(ranked) /\ ToSet(ranked) \subseteq ToSet(sorted)
  <2>1. q.max_sources \in Nat
    BY DEF RequestOK
  <2> QED BY <1>6, <1>11, <2>1, FirstOfOK
<1>13. \A i \in DOMAIN ranked : IdRank[ranked[i].url.page] \in Nat
  <2>1. \A i \in DOMAIN ranked : ranked[i] \in ToSet(ranked)
    BY <1>12, ListingIs
  <2> QED BY <1>3, <1>9, <1>11, <1>12, <2>1
<1>14. Listing(s) /\ \A x \in ToSet(s) : \E i \in DOMAIN ranked : x = s[i]
  <2>1. DOMAIN s = DOMAIN ranked /\ s = [i \in DOMAIN s |-> s[i]]
    BY <1>8
  <2> QED BY <1>12, <2>1, MappedListing
<1>15. \A i \in DOMAIN ranked : OfferOK(s[i], w)
  <2> TAKE i \in DOMAIN ranked
  <2>1. Larger(50, Share(ranked[i], q.terms)) \in Int
    BY <1>2 DEF Larger
  <2>2. /\ s[i].adapter = "official_docs" /\ s[i].source = ranked[i].url.page
        /\ s[i].type = "official_documentation"
        /\ s[i].qualification = Larger(50, Share(ranked[i], q.terms)) /\ s[i].authority = 100
    BY <1>8 DEF Offer
  <2> QED BY <1>13, <2>1, <2>2 DEF OfferOK
<1> QED BY <1>1, <1>7, <1>14, <1>15 DEF OffersOK

LEMMA NoOffersOK == ASSUME NEW w PROVE OffersOK(<< >>, w)
  BY EmptyListing DEF OffersOK

LEMMA OneOfferOK == ASSUME NEW w, NEW o, OfferOK(o, w) PROVE OffersOK(<<o>>, w)
  BY SingleListing DEF OffersOK

LEMMA DerivedOffersOK ==
    ASSUME NEW w, NEW q, RequestOK(q)
    PROVE  OffersOK(DeepWikiOffers(q), w) /\ OffersOK(GitMcpOffers(q), w)
<1>1. ASSUME NEW a \in {"deepwiki", "gitmcp"}, NEW type, type # "repository", NEW n \in Nat
      PROVE  OffersOK(DerivedOffers(a, type, n, q), w)
  <2>1. CASE q.repository = Absent
    BY <2>1, NoOffersOK DEF DerivedOffers
  <2>2. CASE q.repository # Absent
    <3>1. PICK page : page = a \o ":" \o q.repository
      OBVIOUS
    <3>2. IdRank[page] \in Nat
      BY <2>2, <3>1 DEF RequestOK
    <3>3. PICK o : o = Offer(a, page, [page |-> page], type, Absent, 65, n)
      OBVIOUS
    <3>4. DerivedOffers(a, type, n, q) = <<o>>
      BY <2>2, <3>1, <3>3 DEF DerivedOffers
    <3>5. OfferOK(o, w)
      BY <1>1, <3>2, <3>3 DEF OfferOK, Offer, Remote
    <3> QED BY <3>4, <3>5, OneOfferOK
  <2> QED BY <2>1, <2>2
<1>2. OffersOK(DerivedOffers("deepwiki", "derived_repository_documentation", 80, q), w)
  BY <1>1
<1>3. OffersOK(DerivedOffers("gitmcp", "derived_repository_retrieval", 75, q), w)
  BY <1>1
<1> QED BY <1>2, <1>3 DEF DeepWikiOffers, GitMcpOffers

LEMMA Context7OffersOK == ASSUME NEW w, NEW q, RequestOK(q) PROVE OffersOK(Context7Offers(q), w)
<1>1. PICK o : o = Offer("context7", "context7:" \o q.library, [page |-> "context7"],
                         "derived_version_documentation", Absent, 65, 70)
  OBVIOUS
<1>2. OfferOK(o, w)
  BY <1>1 DEF OfferOK, Offer, Remote, RequestOK
<1>3. Context7Offers(q) = << >> \/ Context7Offers(q) = <<o>>
  BY <1>1 DEF Context7Offers
<1> QED BY <1>2, <1>3, NoOffersOK, OneOfferOK

LEMMA JoinedOffers ==
    ASSUME NEW w, NEW s, OffersOK(s, w), NEW t, OffersOK(t, w) PROVE OffersOK(s \o t, w)
<1>1. Listing(s) /\ Listing(t)
  BY DEF OffersOK
<1>2. Listing(s \o t) /\ ToSet(s \o t) = ToSet(s) \cup ToSet(t)
  BY <1>1, JoinedListing
<1> QED BY <1>2 DEF OffersOK

LEMMA AllOffersOK ==
    ASSUME WorldOK(Upstream), RequestOK(Asked), NEW failing
    PROVE  OffersOK(AllOffers(failing), Upstream)
<1> DEFINE By(a, offers) == IF a \in failing THEN << >> ELSE offers
           arxiv == By("arxiv", ArxivOffers(Upstream, Asked))
           context7 == By("context7", Configured(Upstream, Context7Offers(Asked)))
           deepwiki == By("deepwiki", Configured(Upstream, DeepWikiOffers(Asked)))
           github == By("github", GithubOffers(Upstream, Asked))
           gitmcp == By("gitmcp", Configured(Upstream, GitMcpOffers(Asked)))
           official == By("official_docs", OfficialOffers(Upstream.catalog, Asked))
           web == By("web", << >>)
<1>1. /\ OffersOK(GithubOffers(Upstream, Asked), Upstream) /\ OffersOK(ArxivOffers(Upstream, Asked), Upstream)
      /\ OffersOK(OfficialOffers(Upstream.catalog, Asked), Upstream)
      /\ OffersOK(DeepWikiOffers(Asked), Upstream) /\ OffersOK(GitMcpOffers(Asked), Upstream)
      /\ OffersOK(Context7Offers(Asked), Upstream) /\ OffersOK(<< >>, Upstream)
  BY GithubOffersOK, ArxivOffersOK, OfficialOffersOK, DerivedOffersOK, Context7OffersOK, NoOffersOK
<1>2. /\ OffersOK(arxiv, Upstream) /\ OffersOK(context7, Upstream) /\ OffersOK(deepwiki, Upstream)
      /\ OffersOK(github, Upstream) /\ OffersOK(gitmcp, Upstream) /\ OffersOK(official, Upstream)
      /\ OffersOK(web, Upstream)
  BY <1>1 DEF Configured
<1>3. AllOffers(failing) = arxiv \o context7 \o deepwiki \o github \o gitmcp \o official \o web
  BY DEF AllOffers
<1> HIDE DEF By, arxiv, context7, deepwiki, github, gitmcp, official, web
<1>4. OffersOK(arxiv \o context7, Upstream)
  BY <1>2, JoinedOffers
<1>5. OffersOK(arxiv \o context7 \o deepwiki, Upstream)
  BY <1>2, <1>4, JoinedOffers
<1>6. OffersOK(arxiv \o context7 \o deepwiki \o github, Upstream)
  BY <1>2, <1>5, JoinedOffers
<1>7. OffersOK(arxiv \o context7 \o deepwiki \o github \o gitmcp,
               Upstream)
  BY <1>2, <1>6, JoinedOffers
<1>8. OffersOK(arxiv \o context7 \o deepwiki \o github \o gitmcp
               \o official, Upstream)
  BY <1>2, <1>7, JoinedOffers
<1>9. OffersOK(arxiv \o context7 \o deepwiki \o github \o gitmcp
               \o official \o web, Upstream)
  BY <1>2, <1>8, JoinedOffers
<1> QED BY <1>3, <1>9

-----------------------------------------------------------------------------
(* Collecting: the best offer of every page.                                *)

PreferenceOf(offers) == [i \in DOMAIN offers |-> Preference(offers[i])]

LEMMA PreferenceIs ==
    ASSUME NEW offers, NEW w, OffersOK(offers, w), NEW keys, keys = PreferenceOf(offers)
    PROVE  /\ DOMAIN offers \in SUBSET Int /\ IsFiniteSet(DOMAIN offers)
           /\ \A i \in DOMAIN offers : /\ keys[i] = Preference(offers[i]) /\ keys[i] \in Int \X Int
                                       /\ offers[i] \in ToSet(offers) /\ OfferOK(offers[i], w)
                                       /\ keys[i][1] = -offers[i].qualification
                                       /\ keys[i][2] = -offers[i].authority
<1>1. Listing(offers) /\ \A o \in ToSet(offers) : OfferOK(o, w)
  BY DEF OffersOK
<1>2. /\ Len(offers) \in Nat /\ DOMAIN offers = 1..Len(offers)
      /\ \A i \in DOMAIN offers : offers[i] \in ToSet(offers)
  BY <1>1, ListingIs
<1>3. IsFiniteSet(DOMAIN offers)
  BY <1>2, FS_Interval
<1>4. \A i \in DOMAIN offers : offers[i].qualification \in Int /\ offers[i].authority \in Int
  BY <1>1, <1>2 DEF OfferOK
<1>5. \A i \in DOMAIN offers :
         /\ keys[i] = <<-offers[i].qualification, -offers[i].authority>>
         /\ keys[i] = Preference(offers[i])
  BY DEF PreferenceOf, Preference
<1>6. \A i \in DOMAIN offers : /\ keys[i] \in Int \X Int
                               /\ keys[i][1] = -offers[i].qualification
                               /\ keys[i][2] = -offers[i].authority
  BY <1>4, <1>5
<1> QED BY <1>1, <1>2, <1>3, <1>5, <1>6

LEMMA BestIs ==
    ASSUME NEW offers
    PROVE  BestPerPage(offers) =
              {i \in DOMAIN offers :
                  ~\E j \in DOMAIN offers : /\ offers[j].page = offers[i].page
                                            /\ Ahead(PreferenceOf(offers), j, i)}
  BY DEF BestPerPage, PreferenceOf

\* Every page has its best offer, and only one.
LEMMA BestOfPage ==
    ASSUME NEW offers, NEW w, OffersOK(offers, w)
    PROVE  /\ \A i, j \in BestPerPage(offers) : offers[i].page = offers[j].page => i = j
           /\ \A x \in DOMAIN offers : \E y \in BestPerPage(offers) :
                 /\ offers[y].page = offers[x].page
                 /\ y = x \/ Ahead(PreferenceOf(offers), y, x)
<1>1. PICK keys : keys = PreferenceOf(offers)
  OBVIOUS
<1>2. PICK best : best = BestPerPage(offers)
  OBVIOUS
<1>3. best = {i \in DOMAIN offers : ~\E j \in DOMAIN offers : /\ offers[j].page = offers[i].page
                                                               /\ Ahead(keys, j, i)}
  BY <1>1, <1>2, BestIs
<1>4. DOMAIN offers \in SUBSET Int /\ IsFiniteSet(DOMAIN offers)
      /\ \A i \in DOMAIN offers : keys[i] \in Int \X Int
  BY <1>1, PreferenceIs
<1>5. ASSUME NEW i \in best, NEW j \in best, offers[i].page = offers[j].page PROVE i = j
  <2>1. PICK R : R = {p \in best \X best : Ahead(keys, p[1], p[2])}
    OBVIOUS
  <2>2. best \in SUBSET Int /\ KeysOK(best, keys)
    BY <1>3, <1>4 DEF KeysOK
  <2>3. LinearOn(R, best) /\ \A x, y \in best : <<x, y>> \in R <=> Ahead(keys, x, y)
    BY <2>1, <2>2, AheadIsLinear
  <2>4. i # j => Ahead(keys, i, j) \/ Ahead(keys, j, i)
    BY <2>3 DEF LinearOn
  <2> QED BY <1>3, <1>5, <2>4
<1>6. ASSUME NEW x \in DOMAIN offers
      PROVE  \E y \in best : offers[y].page = offers[x].page /\ (y = x \/ Ahead(keys, y, x))
  <2>1. PICK P : P = {j \in DOMAIN offers : offers[j].page = offers[x].page}
    OBVIOUS
  <2>2. PICK R : R = {p \in P \X P : Ahead(keys, p[1], p[2])}
    OBVIOUS
  <2>3. P \in SUBSET Int /\ KeysOK(P, keys) /\ x \in P /\ P \subseteq DOMAIN offers
    BY <1>4, <2>1 DEF KeysOK
  <2>4. IsFiniteSet(P)
    BY <1>4, <2>3, FS_Subset
  <2>5. LinearOn(R, P) /\ \A i, j \in P : <<i, j>> \in R <=> Ahead(keys, i, j)
    BY <2>2, <2>3, AheadIsLinear
  <2>6. Cardinality(P) \in Nat \ {0}
    <3>1. Cardinality(P) \in Nat /\ Cardinality(P) # 0
      BY <2>3, <2>4, FS_CardinalityType, FS_EmptySet
    <3> QED BY <3>1
  <2>7. PICK y \in P : Cardinality(Preceding(R, P, y)) = 1 - 1
    <3>1. 1 \in 1..Cardinality(P)
      BY <2>6
    <3> QED BY <2>4, <2>5, <3>1, PlacesTaken
  <2>8. Preceding(R, P, y) = {}
    <3>1. Preceding(R, P, y) \subseteq P
      BY DEF Preceding
    <3>2. IsFiniteSet(Preceding(R, P, y))
      BY <2>4, <3>1, FS_Subset
    <3>3. Cardinality(Preceding(R, P, y)) = 0
      BY <2>7
    <3> QED BY <3>2, <3>3, FS_EmptySet
  <2>9. \A j \in P : ~Ahead(keys, j, y)
    BY <2>5, <2>8 DEF Preceding
  <2>10. y \in best
    BY <1>3, <2>1, <2>9
  <2>11. y = x \/ Ahead(keys, y, x)
    BY <2>3, <2>5, <2>9 DEF LinearOn
  <2> QED BY <2>1, <2>10, <2>11
<1> QED BY <1>1, <1>2, <1>5, <1>6

\* The keys by which the best offers are listed.
RankingOf(offers) ==
    [i \in BestPerPage(offers) |->
        <<-offers[i].qualification, -offers[i].authority, IdRank[offers[i].source]>>]

LEMMA QualifiedOK ==
    ASSUME NEW offers, NEW w, OffersOK(offers, w), NEW most \in Nat, NEW s, s = Qualified(offers, most)
    PROVE  /\ Listing(s) /\ Len(s) <= most /\ ToSet(s) \subseteq ToSet(offers)
           /\ \A i, j \in DOMAIN s : s[i].page = s[j].page => i = j
           /\ \A o \in ToSet(offers) :
                 \/ \E i \in DOMAIN s : /\ s[i].page = o.page
                                        /\ ~TupleLess(Preference(o), Preference(s[i]))
                 \/ /\ Len(s) = most
                    /\ \A i \in DOMAIN s : ~TupleLess(Preference(o), Preference(s[i]))
<1>1. PICK best : best = BestPerPage(offers)
  OBVIOUS
<1>2. PICK keys : keys = PreferenceOf(offers)
  OBVIOUS
<1>3. PICK ranks : ranks = RankingOf(offers)
  OBVIOUS
<1>4. PICK all : all = Sorted(offers, best, ranks)
  OBVIOUS
<1>5. s = FirstOf(all, most)
  BY <1>1, <1>3, <1>4 DEF Qualified, RankingOf
<1>6. best \in SUBSET (DOMAIN offers)
  BY <1>1, BestIs
<1>7. /\ DOMAIN offers \in SUBSET Int /\ IsFiniteSet(DOMAIN offers)
      /\ \A i \in DOMAIN offers : /\ keys[i] = Preference(offers[i]) /\ keys[i] \in Int \X Int
                                  /\ offers[i] \in ToSet(offers) /\ OfferOK(offers[i], w)
                                  /\ keys[i][1] = -offers[i].qualification
                                  /\ keys[i][2] = -offers[i].authority
  BY <1>2, PreferenceIs
<1>8. \A i \in best : /\ ranks[i] \in Int \X Int \X Int
                      /\ ranks[i][1] = keys[i][1] /\ ranks[i][2] = keys[i][2]
  <2> TAKE i \in best
  <2>1. /\ offers[i].qualification \in Int /\ offers[i].authority \in Int
        /\ IdRank[offers[i].source] \in Int
    BY <1>6, <1>7 DEF OfferOK
  <2>2. ranks[i] = <<-offers[i].qualification, -offers[i].authority, IdRank[offers[i].source]>>
    BY <1>1, <1>3 DEF RankingOf
  <2> QED BY <1>6, <1>7, <2>1, <2>2
<1>9. best \in SUBSET Int /\ IsFiniteSet(best) /\ KeysOK(best, ranks)
  <2>1. IsFiniteSet(best)
    BY <1>6, <1>7, FS_Subset
  <2> QED BY <1>6, <1>7, <1>8, <2>1 DEF KeysOK
<1>10. Listing(all)
  BY <1>4, <1>9, SortedOK
<1>11. OrderedBy(all, offers, best, ranks)
  BY <1>4, <1>9, SortedOK
<1>12. PICK pick \in [DOMAIN all -> best] :
          /\ \A n \in DOMAIN all : all[n] = offers[pick[n]]
          /\ \A i \in best : \E n \in DOMAIN all : pick[n] = i
          /\ \A n, m \in DOMAIN all : n < m <=> Ahead(ranks, pick[n], pick[m])
  BY <1>11 DEF OrderedBy
<1>13. Listing(s) /\ Len(s) <= most /\ ToSet(s) \subseteq ToSet(all)
  BY <1>5, <1>10, FirstOfOK
<1>14. \A i \in DOMAIN s : i \in DOMAIN all /\ s[i] = all[i]
  BY <1>5, <1>10, FirstOfOK
<1>15. Len(s) = Smaller(most, Len(all))
  BY <1>5, <1>10, FirstOfOK
<1>16. /\ Len(all) \in Nat /\ DOMAIN all = 1..Len(all)
       /\ Len(s) \in Nat /\ DOMAIN s = 1..Len(s)
       /\ ToSet(s) = {s[i] : i \in DOMAIN s}
  BY <1>10, <1>13, ListingIs
<1>17. \A i \in DOMAIN s : s[i] = offers[pick[i]] /\ pick[i] \in best
  BY <1>12, <1>14
<1>18. ToSet(s) \subseteq ToSet(offers)
  BY <1>6, <1>7, <1>16, <1>17
<1>19. \A n, m \in DOMAIN all : pick[n] = pick[m] => n = m
  <2> TAKE n, m \in DOMAIN all
  <2>1. ~Ahead(ranks, pick[n], pick[n]) /\ ~Ahead(ranks, pick[m], pick[m])
    BY <1>12, <1>16
  <2>2. pick[n] = pick[m] => ~(n < m) /\ ~(m < n)
    BY <1>12, <2>1
  <2> QED BY <1>16, <2>2
<1>20. ASSUME NEW i \in DOMAIN s, NEW j \in DOMAIN s, s[i].page = s[j].page PROVE i = j
  <2>1. offers[pick[i]].page = offers[pick[j]].page /\ pick[i] \in best /\ pick[j] \in best
    BY <1>17, <1>20
  <2>2. pick[i] = pick[j]
    BY <1>1, <2>1, BestOfPage
  <2> QED BY <1>14, <1>19, <2>2
<1>21. ASSUME NEW x \in DOMAIN offers
       PROVE  \/ \E i \in DOMAIN s : /\ s[i].page = offers[x].page
                                     /\ ~TupleLess(keys[x], Preference(s[i]))
              \/ /\ Len(s) = most
                 /\ \A i \in DOMAIN s : ~TupleLess(keys[x], Preference(s[i]))
  <2>1. PICK y \in best : offers[y].page = offers[x].page /\ (y = x \/ Ahead(keys, y, x))
    BY <1>1, <1>2, BestOfPage
  <2>2. PICK n \in DOMAIN all : pick[n] = y
    BY <1>12
  <2>3. /\ keys[x] \in Int \X Int /\ keys[y] \in Int \X Int /\ y \in DOMAIN offers
    BY <1>6, <1>7
  <2>4. y = x \/ TupleLess(keys[y], keys[x]) \/ keys[y] = keys[x]
    BY <2>1 DEF Ahead
  <2>5. /\ keys[x][1] \in Int /\ keys[x][2] \in Int /\ keys[y][1] \in Int /\ keys[y][2] \in Int
        /\ \/ keys[y][1] < keys[x][1]
           \/ keys[y][1] = keys[x][1] /\ keys[y][2] <= keys[x][2]
    <3>1. TupleLess(keys[y], keys[x]) <=>
              (keys[y][1] < keys[x][1] \/ (keys[y][1] = keys[x][1] /\ keys[y][2] < keys[x][2]))
      BY <2>3, PairLess
    <3>2. keys[x][1] \in Int /\ keys[x][2] \in Int /\ keys[y][1] \in Int /\ keys[y][2] \in Int
      BY <2>3
    <3> QED BY <2>4, <3>1, <3>2
  <2>6. CASE n \in DOMAIN s
    <3>1. s[n] = offers[y]
      BY <1>17, <2>2, <2>6
    <3>2. ~TupleLess(keys[x], keys[y])
      BY <2>3, <2>5, PairLess
    <3> QED BY <1>7, <2>1, <2>3, <2>6, <3>1, <3>2
  <2>7. CASE n \notin DOMAIN s
    <3>3. n \in 1..Len(all) /\ n > Len(s)
      BY <1>16, <2>2, <2>7
    <3>4. Len(s) = most
      <4>1. Len(s) < Len(all)
        BY <1>16, <3>3
      <4>2. Len(s) = IF most < Len(all) THEN most ELSE Len(all)
        BY <1>15 DEF Smaller
      <4>3. CASE most < Len(all)
        BY <4>2, <4>3
      <4>4. CASE ~(most < Len(all))
        <5>1. Len(s) = Len(all)
          BY <4>2, <4>4
        <5>2. Len(all) \in Nat
          BY <1>16
        <5> QED BY <4>1, <5>1, <5>2
      <4> QED BY <4>3, <4>4
    <3>5. \A i \in DOMAIN s : i < n
      BY <1>16, <3>3
    <3>1. Len(s) = most /\ \A i \in DOMAIN s : i < n
      BY <3>4, <3>5
    <3>2. ASSUME NEW i \in DOMAIN s PROVE ~TupleLess(keys[x], Preference(s[i]))
      <4>1. PICK z : z = pick[i]
        OBVIOUS
      <4>2. z \in best /\ z \in DOMAIN offers /\ s[i] = offers[z] /\ Ahead(ranks, z, y)
        BY <1>6, <1>12, <1>14, <1>17, <2>2, <3>1, <4>1
      <4>3. /\ ranks[z] \in Int \X Int \X Int /\ ranks[y] \in Int \X Int \X Int
            /\ ranks[z][1] = keys[z][1] /\ ranks[z][2] = keys[z][2]
            /\ ranks[y][1] = keys[y][1] /\ ranks[y][2] = keys[y][2]
        BY <1>8, <4>2
      <4>4. keys[z] \in Int \X Int /\ keys[z] = Preference(s[i])
        BY <1>7, <4>2
      <4>5. TupleLess(ranks[z], ranks[y]) =>
               \/ ranks[z][1] < ranks[y][1]
               \/ ranks[z][1] = ranks[y][1] /\ ranks[z][2] <= ranks[y][2]
        <5>1. TupleLess(ranks[z], ranks[y]) <=>
                 \/ ranks[z][1] < ranks[y][1]
                 \/ ranks[z][1] = ranks[y][1] /\ ranks[z][2] < ranks[y][2]
                 \/ /\ ranks[z][1] = ranks[y][1] /\ ranks[z][2] = ranks[y][2]
                    /\ ranks[z][3] < ranks[y][3]
          BY <4>3, TripleLess
        <5>2. ranks[z][2] \in Int /\ ranks[y][2] \in Int
          BY <4>3
        <5> QED BY <5>1, <5>2
      <4>6. /\ keys[z][1] \in Int /\ keys[z][2] \in Int
            /\ \/ keys[z][1] < keys[y][1]
               \/ keys[z][1] = keys[y][1] /\ keys[z][2] <= keys[y][2]
        <5>1. keys[z][1] \in Int /\ keys[z][2] \in Int
          BY <4>4
        <5>2. TupleLess(ranks[z], ranks[y]) \/ ranks[z] = ranks[y]
          BY <4>2 DEF Ahead
        <5> QED BY <2>5, <4>3, <4>5, <5>1, <5>2
      <4>7. TupleLess(keys[x], keys[z]) <=>
               \/ keys[x][1] < keys[z][1]
               \/ keys[x][1] = keys[z][1] /\ keys[x][2] < keys[z][2]
        BY <2>3, <4>4, PairLess
      <4>8. ~TupleLess(keys[x], keys[z])
        BY <2>5, <4>6, <4>7
      <4> QED BY <4>4, <4>8
    <3> QED BY <3>1, <3>2
  <2> QED BY <2>6, <2>7
<1>22. ASSUME NEW o \in ToSet(offers)
       PROVE  \/ \E i \in DOMAIN s : /\ s[i].page = o.page
                                     /\ ~TupleLess(Preference(o), Preference(s[i]))
              \/ /\ Len(s) = most
                 /\ \A i \in DOMAIN s : ~TupleLess(Preference(o), Preference(s[i]))
  <2>1. PICK x \in DOMAIN offers : o = offers[x]
    BY DEF ToSet
  <2>2. keys[x] = Preference(o)
    BY <1>7, <2>1
  <2> QED BY <1>21, <2>1, <2>2
<1> QED BY <1>13, <1>18, <1>20, <1>22

-----------------------------------------------------------------------------
(* Collecting: the inductive invariant.                                     *)

RunFields == {"phase", "request", "world", "discovered", "qualified", "queue", "documents", "bytes",
              "tokens", "sources", "warnings", "session", "pin", "batch", "wiki", "units"}
ShelfFields == {"latest", "snapshots", "documents", "evidence", "components", "pages", "cards",
                "units", "relations", "claims"}
EvidenceFields == {"document", "snapshot", "path", "rev", "from", "to"}

\* Documents of the snapshot id; those of a repository are at known paths.
DocumentsOK(docs, id, known) ==
    Listing(docs) /\ \A d \in ToSet(docs) : d.snapshot = id /\ (known => d.path \in Paths)

\* Evidence names a document of the snapshot id.
EvidenceOK(e, id, documents) ==
    /\ DOMAIN e = EvidenceFields /\ e.snapshot = id /\ e.path \in Paths
    /\ \E d \in documents : d.id = e.document /\ d.rev = e.rev

\* A wiki of the snapshot id cites the documents of the wiki, and only those.
WikiOK(w, id) ==
    /\ Listing(w.order) /\ w.order # << >> /\ w.evidence = ToSet(w.order)
    /\ \A d \in w.documents : d.snapshot = id
    /\ \A e \in ToSet(w.order) : EvidenceOK(e, id, w.documents)
    /\ \A p \in w.pages : p.snapshot = id /\ p.evidence # {} /\ p.evidence \subseteq ToSet(w.order)
    /\ \A c \in w.components : /\ c.snapshot = id
                               /\ \E e \in ToSet(w.order) : e.path[1] = c.root
    /\ w.card.snapshot = id /\ w.card.cites \subseteq ToSet(w.order)

SessionOK(session) ==
    /\ DOMAIN session = {"calls", "next_id", "informed", "got", "fails"}
    /\ \A k \in DOMAIN session.got : session.got[k].asked = session.got[k].answered

IdsOf(tables) == {s.id : s \in tables.snapshots}
SnapshotIds == IdsOf(shelf)
AfterSnapshot == {"documents", "wiki", "units", "claims"}
WithPin == {"fetch", "source", "snapshot"} \cup AfterSnapshot
WithOffer == {"session"} \cup WithPin

RunShape ==
    /\ DOMAIN collecting = RunFields
    /\ collecting.phase # "idle" => /\ collecting.request \in DOMAIN CollectRequests
                                    /\ collecting.world \in DOMAIN Worlds
CountsOK ==
    /\ collecting.documents \in Nat /\ Listing(collecting.sources)
    /\ Len(collecting.sources) <= collecting.documents
    /\ collecting.phase # "idle" =>
          /\ Len(collecting.qualified) <= Asked.max_sources
          /\ collecting.documents <= MaxTotalDocuments /\ collecting.bytes <= MaxTotalBytes
          /\ collecting.tokens <= Asked.token_budget
\* There is room for the batch under way.
RoomOK ==
    collecting.phase \in {"source", "snapshot"} =>
        /\ Len(collecting.batch) \in Nat \ {0}
        /\ collecting.documents + Len(collecting.batch) <= MaxTotalDocuments
        /\ collecting.bytes + BytesOf(collecting.batch) <= MaxTotalBytes
        /\ collecting.tokens + TokensIn(collecting.batch) <= Asked.token_budget
\* The offers that wait, the first of which is under way.
OffersWait ==
    /\ collecting.phase # "idle" => OffersOK(collecting.queue, Upstream)
    /\ collecting.phase \in WithOffer => collecting.queue # << >>
    /\ collecting.phase \in WithPin => collecting.pin.source = Current.source
    /\ collecting.phase = "wiki" => Current.type = "repository"
SessionsAnswer ==
    /\ collecting.session = Absent \/ SessionOK(collecting.session)
    /\ collecting.phase = "session" => SessionOK(collecting.session)
\* What the run has in hand is of its snapshot, and what it has written is stored.
InHand ==
    /\ collecting.phase = "snapshot" => Current.source \in DOMAIN shelf.latest
    /\ collecting.phase \in AfterSnapshot => collecting.pin.id \in SnapshotIds
    /\ collecting.phase \in {"source", "snapshot"} =>
          DocumentsOK(collecting.batch, collecting.pin.id, Current.type = "repository")
    /\ collecting.phase = "documents" => DocumentsOK(collecting.batch, collecting.pin.id, FALSE)
    /\ collecting.phase = "wiki" => DocumentsOK(collecting.batch, collecting.pin.id, TRUE)
    /\ collecting.phase \in {"units", "claims"} =>
          /\ WikiOK(collecting.wiki, collecting.pin.id)
          /\ collecting.wiki.documents \subseteq shelf.documents
          /\ collecting.wiki.evidence \subseteq shelf.evidence
          /\ collecting.wiki.pages \subseteq shelf.pages
          /\ collecting.wiki.card \in shelf.cards
    /\ collecting.phase = "claims" =>
          \A u \in collecting.units : u.evidence \subseteq ToSet(collecting.wiki.order)
ClaimsAreRows == \A c \in shelf.claims : "evidence" \in DOMAIN c

RunInv == RunShape /\ CountsOK /\ RoomOK /\ OffersWait /\ SessionsAnswer /\ BestOfEveryPage
ShelfInv == DOMAIN shelf = ShelfFields /\ PinnedToStored /\ ClaimsAreRows
CollectionInv == RunInv /\ InHand /\ ShelfInv

LEMMA TailListing ==
    ASSUME NEW s, Listing(s), s # << >>
    PROVE  Listing(Tail(s)) /\ ToSet(Tail(s)) \subseteq ToSet(s) /\ Head(s) \in ToSet(s)
<1>1. PICK T : T = ToSet(s)
  OBVIOUS
<1>2. s \in Seq(T)
  BY <1>1 DEF Listing
<1>3. PICK t : t = Tail(s)
  OBVIOUS
<1>4. t \in Seq(T) /\ Head(s) \in T
  BY <1>2, <1>3
<1>5. Len(t) \in Nat /\ DOMAIN t = 1..Len(t) /\ \A i \in DOMAIN t : t[i] \in T
  BY <1>4
<1>6. t = [i \in 1..Len(t) |-> t[i]]
  BY <1>4, <1>5
<1>7. Listing(t)
  BY <1>5, <1>6, Numbered
<1>8. ToSet(t) \subseteq T
  BY <1>5 DEF ToSet
<1> QED BY <1>1, <1>3, <1>4, <1>7, <1>8

LEMMA AppendListing ==
    ASSUME NEW s, Listing(s), NEW x
    PROVE  Listing(Append(s, x)) /\ Len(Append(s, x)) = Len(s) + 1
<1>1. PICK T : T = ToSet(s) \cup {x}
  OBVIOUS
<1>2. s \in Seq(T)
  BY <1>1 DEF Listing
<1>3. PICK t : t = Append(s, x)
  OBVIOUS
<1>4. t \in Seq(T) /\ Len(t) = Len(s) + 1 /\ Len(s) \in Nat
  BY <1>1, <1>2, <1>3
<1>5. Len(t) \in Nat /\ DOMAIN t = 1..Len(t)
  BY <1>4
<1>6. t = [i \in 1..Len(t) |-> t[i]]
  BY <1>4, <1>5
<1>7. Listing(t)
  BY <1>5, <1>6, Numbered
<1> QED BY <1>3, <1>4, <1>7

-----------------------------------------------------------------------------
(* Collecting: the documents of a snapshot.                                 *)

\* A document for every entry of a list.
LEMMA EachDocumentOK ==
    ASSUME NEW t, Listing(t), NEW id, NEW known, NEW s, DOMAIN s = DOMAIN t,
           s = [i \in DOMAIN s |-> s[i]],
           \A i \in DOMAIN t : s[i].snapshot = id /\ (known => s[i].path \in Paths)
    PROVE  DocumentsOK(s, id, known)
<1>1. Listing(s)
  BY MappedListing
<1>2. \A d \in ToSet(s) : \E i \in DOMAIN t : d = s[i]
  BY MappedListing
<1> QED BY <1>1, <1>2 DEF DocumentsOK

LEMMA OneDocumentOK ==
    ASSUME NEW d, NEW id, NEW known, d.snapshot = id, known => d.path \in Paths
    PROVE  DocumentsOK(<<d>>, id, known)
  BY SingleListing DEF DocumentsOK

LEMMA JoinedDocuments ==
    ASSUME NEW id, NEW known, NEW s, DocumentsOK(s, id, known), NEW t, DocumentsOK(t, id, known)
    PROVE  DocumentsOK(s \o t, id, known)
<1>1. Listing(s) /\ Listing(t)
  BY DEF DocumentsOK
<1>2. Listing(s \o t) /\ ToSet(s \o t) = ToSet(s) \cup ToSet(t)
  BY <1>1, JoinedListing
<1> QED BY <1>2 DEF DocumentsOK

LEMMA DocumentIs ==
    ASSUME NEW id, NEW path, NEW type, NEW file
    PROVE  Document(id, path, type, file).snapshot = id /\ Document(id, path, type, file).path = path
  BY DEF Document

LEMMA SmallerOK ==
    ASSUME NEW m \in Nat, NEW n \in Nat
    PROVE  Smaller(m, n) \in Nat /\ Smaller(m, n) <= m /\ Smaller(m, n) <= n
  BY DEF Smaller

\* The order in which the files of a tree are read.
Priority(p) == IF InName(p, InterestingNames) THEN 0 ELSE IF Under(p, InterestingRoots) THEN 1 ELSE 2

LEMMA SelectedPathsOK ==
    ASSUME NEW tree, Listing(tree), {e.path : e \in ToSet(tree)} \subseteq Paths
    PROVE  Listing(SelectedPaths(tree)) /\ ToSet(SelectedPaths(tree)) \subseteq Paths
<1> DEFINE kept == {i \in DOMAIN tree :
                      /\ tree[i].blob /\ SafePath(tree[i].path) /\ ~ProbablyBinary(tree[i].path, FALSE)
                      /\ tree[i].size <= MaxDocumentBytes
                      /\ Priority(tree[i].path) < 2 \/ LanguageOf[Last(tree[i].path)] \in ReadSuffixes}
           keys == [i \in kept |->
                      <<Priority(tree[i].path), Len(tree[i].path), PathRank[tree[i].path]>>]
           ranked == Sorted(tree, kept, keys)
<1>1. PICK s : s = SelectedPaths(tree)
  OBVIOUS
<1>2. s = [i \in 1..Smaller(MaxDocuments, Len(ranked)) |-> ranked[i].path]
  BY <1>1 DEF SelectedPaths, Priority
<1>3. kept \in SUBSET (DOMAIN tree)
  OBVIOUS
<1>4. keys = [i \in kept |-> <<Priority(tree[i].path), Len(tree[i].path), PathRank[tree[i].path]>>]
  OBVIOUS
<1>5. ranked = Sorted(tree, kept, keys)
  OBVIOUS
<1> HIDE DEF kept, keys, ranked
<1>6. \A i \in DOMAIN tree : tree[i] \in ToSet(tree) /\ tree[i].path \in Paths
  BY ListingIs
<1>7. KeysOK(kept, keys)
  <2>1. ASSUME NEW i \in kept PROVE keys[i] \in Int \X Int \X Int
    <3>1. tree[i].path \in Paths
      BY <1>3, <1>6
    <3>2. Listing(tree[i].path) /\ PathRank[tree[i].path] \in Nat
      BY <3>1, WikiAssumption
    <3>3. Len(tree[i].path) \in Nat
      BY <3>2, ListingIs
    <3>4. Priority(tree[i].path) \in Int
      BY DEF Priority
    <3> QED BY <1>4, <3>2, <3>3, <3>4
  <2> QED BY <2>1 DEF KeysOK
<1>8. Listing(ranked) /\ ToSet(ranked) = {tree[i] : i \in kept}
  BY <1>3, <1>5, <1>7, ChosenOK
<1>9. /\ Len(ranked) \in Nat /\ DOMAIN ranked = 1..Len(ranked)
      /\ \A i \in DOMAIN ranked : ranked[i] \in ToSet(ranked)
  BY <1>8, ListingIs
<1>10. \A i \in DOMAIN ranked : ranked[i].path \in Paths
  BY <1>3, <1>6, <1>8, <1>9
<1>11. PICK m : m = Smaller(MaxDocuments, Len(ranked))
  OBVIOUS
<1>12. m \in Nat /\ m <= Len(ranked)
  <2>1. MaxDocuments \in Nat
    BY AdapterAssumption
  <2> QED BY <1>9, <1>11, <2>1, SmallerOK
<1>13. s = [i \in 1..m |-> ranked[i].path]
  BY <1>2, <1>11
<1>14. s = [i \in 1..m |-> s[i]] /\ DOMAIN s = 1..m /\ \A i \in 1..m : s[i] = ranked[i].path
  BY <1>13
<1>15. Listing(s)
  BY <1>12, <1>14, Numbered
<1>16. \A i \in 1..m : i \in DOMAIN ranked
  BY <1>9, <1>12
<1>17. ToSet(s) \subseteq Paths
  BY <1>10, <1>14, <1>16 DEF ToSet
<1> QED BY <1>1, <1>15, <1>17

LEMMA FilesReadOK ==
    ASSUME NEW r, RepositoryOK(r)
    PROVE  Listing(FilesRead(r)) /\ ToSet(FilesRead(r)) \subseteq Paths
<1> DEFINE paths == SelectedPaths(r.tree)
           File(i) == r.files[paths[i]]
           at == {i \in DOMAIN paths :
                    /\ Got(File(i), 2 * MaxDocumentBytes) = "ok" /\ File(i).base64
                    /\ File(i).bytes <= MaxDocumentBytes
                    /\ ~ProbablyBinary(paths[i], File(i).nul)}
           readable == Those(paths, at)
           files == [i \in DOMAIN readable |-> r.files[readable[i]]]
           fitting == {n \in DOMAIN readable :
                         r.metadata.bytes + BytesOf(SubSeq(files, 1, n)) <= MaxRepositoryBytes}
<1>1. FilesRead(r) = UpTo(readable, fitting)
  BY DEF FilesRead
<1>2. at \in SUBSET (DOMAIN paths)
  OBVIOUS
<1>3. readable = Those(paths, at)
  OBVIOUS
<1>4. Listing(paths) /\ ToSet(paths) \subseteq Paths
  <2>1. Listing(r.tree)
    BY DEF RepositoryOK
  <2>2. {e.path : e \in ToSet(r.tree)} \subseteq Paths
    BY DEF RepositoryOK
  <2>3. Listing(paths)
    BY <2>1, <2>2, SelectedPathsOK
  <2>4. ToSet(paths) \subseteq Paths
    BY <2>1, <2>2, SelectedPathsOK
  <2> QED BY <2>3, <2>4
<1> HIDE DEF paths, File, at, readable, files, fitting
<1>5. Listing(readable) /\ ToSet(readable) = {paths[i] : i \in at}
  BY <1>2, <1>3, <1>4, ThoseOK
<1>6. ToSet(readable) \subseteq Paths
  <2>1. \A i \in DOMAIN paths : paths[i] \in ToSet(paths)
    BY <1>4, ListingIs
  <2> QED BY <1>2, <1>4, <1>5, <2>1
<1>7. Listing(FilesRead(r))
  BY <1>1, <1>5, UpToOK
<1>8. ToSet(FilesRead(r)) \subseteq ToSet(readable)
  BY <1>1, <1>5, UpToOK
<1> QED BY <1>6, <1>7, <1>8

LEMMA RepositoryOfOK ==
    ASSUME NEW w, WorldOK(w), NEW o, OfferOK(o, w), o.adapter = "github"
    PROVE  RepositoryOK(RepositoryOf(w, o))
<1>1. \E r \in ToSet(w.repositories) : r.url.page = o.page
  BY DEF OfferOK
<1>2. RepositoryOf(w, o) \in ToSet(w.repositories)
  BY <1>1 DEF RepositoryOf
<1> QED BY <1>2 DEF WorldOK

LEMMA GithubDocumentsOK ==
    ASSUME NEW w, WorldOK(w), NEW o, OfferOK(o, w), o.adapter = "github", NEW id,
           GithubDocuments(w, o, id) # Absent
    PROVE  DocumentsOK(GithubDocuments(w, o, id), id, TRUE)
<1> DEFINE repository == RepositoryOf(w, o)
           endpoints == repository.endpoints
           read == FilesRead(repository)
           Reached(e) == Got(repository.answers[e], MaxResponseBytes)
           at == {i \in DOMAIN endpoints : Reached(endpoints[i]) = "ok"}
           up == Those(endpoints, at)
           first == Document(id, MetadataPath, "repository_metadata", repository.metadata)
           TypeOf(path) == IF LanguageOf[Last(path)] \in {"python", "cpp", "c"}
                           THEN "source_code" ELSE "documentation"
           FileAt(path) == Document(id, path, TypeOf(path), Normalized(repository.files[path]))
           AnswerAt(path) ==
               Document(id, path, EndpointType(path), Normalized(repository.answers[path]))
           files == [i \in DOMAIN read |-> FileAt(read[i])]
           others == [i \in DOMAIN up |-> AnswerAt(up[i])]
<1>1. RepositoryOK(repository)
  BY RepositoryOfOK
<1>2. GithubDocuments(w, o, id) = <<first>> \o files \o others
  BY DEF GithubDocuments
<1>3. Listing(read) /\ ToSet(read) \subseteq Paths
  <2> HIDE DEF repository
  <2>1. Listing(read)
    BY <1>1, FilesReadOK
  <2>2. ToSet(read) \subseteq Paths
    BY <1>1, FilesReadOK
  <2> QED BY <2>1, <2>2
<1>4. Listing(endpoints) /\ ToSet(endpoints) \subseteq Paths
  <2> HIDE DEF repository
  <2> QED BY <1>1 DEF RepositoryOK
<1>5. at \in SUBSET (DOMAIN endpoints) /\ up = Those(endpoints, at)
  OBVIOUS
<1>6. DOMAIN files = DOMAIN read /\ files = [i \in DOMAIN files |-> files[i]]
      /\ \A i \in DOMAIN read : files[i].snapshot = id /\ files[i].path = read[i]
  <2> HIDE DEF repository, read
  <2>1. DOMAIN files = DOMAIN read /\ files = [i \in DOMAIN files |-> files[i]]
    OBVIOUS
  <2>2. \A i \in DOMAIN read : files[i].snapshot = id /\ files[i].path = read[i]
    BY DocumentIs
  <2> QED BY <2>1, <2>2
<1>7. DOMAIN others = DOMAIN up /\ others = [i \in DOMAIN others |-> others[i]]
      /\ \A i \in DOMAIN up : others[i].snapshot = id /\ others[i].path = up[i]
  <2> HIDE DEF repository, up
  <2>1. DOMAIN others = DOMAIN up /\ others = [i \in DOMAIN others |-> others[i]]
    OBVIOUS
  <2>2. \A i \in DOMAIN up : others[i].snapshot = id /\ others[i].path = up[i]
    BY DocumentIs
  <2> QED BY <2>1, <2>2
<1>8. first.snapshot = id /\ first.path = <<"repository_metadata.json">>
  BY DocumentIs DEF MetadataPath
<1> HIDE DEF repository, endpoints, read, Reached, at, up, first, files, others, FileAt, AnswerAt, TypeOf
<1>9. Listing(up) /\ ToSet(up) = {endpoints[i] : i \in at}
  BY <1>4, <1>5, ThoseOK
<1>10. ToSet(up) \subseteq Paths
  <2>1. \A i \in DOMAIN endpoints : endpoints[i] \in ToSet(endpoints)
    BY <1>4, ListingIs
  <2> QED BY <1>4, <1>5, <1>9, <2>1
<1>11. DocumentsOK(<<first>>, id, TRUE)
  BY <1>8, WikiAssumption, OneDocumentOK
<1>12. DocumentsOK(files, id, TRUE)
  <2>1. \A i \in DOMAIN read : read[i] \in Paths
    BY <1>3, ListingIs
  <2> QED BY <1>3, <1>6, <2>1, EachDocumentOK
<1>13. DocumentsOK(others, id, TRUE)
  <2>1. \A i \in DOMAIN up : up[i] \in Paths
    BY <1>9, <1>10, ListingIs
  <2> QED BY <1>7, <1>9, <2>1, EachDocumentOK
<1>14. DocumentsOK(<<first>> \o files, id, TRUE)
  BY <1>11, <1>12, JoinedDocuments
<1> QED BY <1>2, <1>13, <1>14, JoinedDocuments

LEMMA RemoteDocumentsOK ==
    ASSUME NEW o, o.adapter \in Remote, NEW id, NEW got
    PROVE  DocumentsOK(RemoteDocuments(o, id, got), id, FALSE)
<1> DEFINE all == RemoteKeys[o.adapter]
           at == {i \in DOMAIN all : all[i] \in DOMAIN got}
           keys == Those(all, at)
           s == [i \in DOMAIN keys |->
                   Document(id, <<".rosclaw", o.adapter, keys[i]>>, "derived_documentation",
                     [rev |-> <<keys[i], got[keys[i]].kind, got[keys[i]].asked, got[keys[i]].answered>>,
                      bytes |-> ToolBytes, lines |-> <<{"answer"}>>])]
<1>1. RemoteDocuments(o, id, got) = s
  BY DEF RemoteDocuments
<1>2. Listing(all)
  <2>1. \A x, y, z : Listing(<<x, y, z>>)
    BY DEF Listing, ToSet
  <2>2. \A x, y : Listing(<<x, y>>)
    BY DEF Listing, ToSet
  <2> QED BY <2>1, <2>2 DEF RemoteKeys, Remote
<1>3. at \in SUBSET (DOMAIN all) /\ keys = Those(all, at)
  OBVIOUS
<1>4. DOMAIN s = DOMAIN keys /\ s = [i \in DOMAIN s |-> s[i]]
      /\ \A i \in DOMAIN keys : s[i].snapshot = id
  BY DocumentIs
<1> HIDE DEF all, at, keys, s
<1>5. Listing(keys)
  BY <1>2, <1>3, ThoseOK
<1>6. DocumentsOK(s, id, FALSE)
  BY <1>4, <1>5, EachDocumentOK
<1> QED BY <1>1, <1>6

LEMMA SingleDocumentsOK ==
    ASSUME NEW w, NEW o, NEW id
    PROVE  /\ DocumentsOK(ArxivDocuments(w, o, id), id, FALSE)
           /\ DocumentsOK(OfficialDocuments(w, o, id), id, FALSE)
<1>1. \A d : d.snapshot = id => DocumentsOK(<<d>>, id, FALSE)
  BY OneDocumentOK
<1>2. DocumentsOK(ArxivDocuments(w, o, id), id, FALSE)
  <2> DEFINE paper == CHOOSE p \in ToSet(w.papers) : p.url.page = o.page
             d == Document(id, <<"abstract.md">>, "paper_abstract",
                    [rev |-> <<paper.title, paper.abstract>>, bytes |-> paper.bytes,
                     lines |-> <<{"title"}, {"abstract"}>>])
  <2>1. ArxivDocuments(w, o, id) = <<d>>
    BY DEF ArxivDocuments
  <2>2. d.snapshot = id
    BY DocumentIs
  <2> HIDE DEF d
  <2> QED BY <1>1, <2>1, <2>2
<1>3. DocumentsOK(OfficialDocuments(w, o, id), id, FALSE)
  <2> DEFINE spec == CHOOSE s \in ToSet(w.catalog) : s.url.page = o.page
             d == Document(id, <<"official-document">>, "official_documentation",
                           Normalized(spec.file))
  <2>1. OfficialDocuments(w, o, id) = <<d>>
    BY DEF OfficialDocuments
  <2>2. d.snapshot = id
    BY DocumentIs
  <2> HIDE DEF d
  <2> QED BY <1>1, <2>1, <2>2
<1> QED BY <1>2, <1>3

\* The snapshot of an offer is of its source.
LEMMA PinIsOfOffer ==
    ASSUME NEW w, NEW o, NEW got
    PROVE  /\ ~GithubSnapshot(w, o).fails => GithubSnapshot(w, o).source = o.source
           /\ ArxivSnapshot(o).source = o.source
           /\ ~OfficialSnapshot(w, o).fails => OfficialSnapshot(w, o).source = o.source
           /\ RemoteSnapshot(o, got).source = o.source
<1>1. \A id, kind, value : Pin(id, o, kind, value).source = o.source
  BY DEF Pin
<1>2. Fails.fails
  BY DEF Fails
<1>3. ~GithubSnapshot(w, o).fails => GithubSnapshot(w, o).source = o.source
  BY <1>1, <1>2 DEF GithubSnapshot
<1>4. ~OfficialSnapshot(w, o).fails => OfficialSnapshot(w, o).source = o.source
  BY <1>1, <1>2 DEF OfficialSnapshot
<1>5. ArxivSnapshot(o).source = o.source /\ RemoteSnapshot(o, got).source = o.source
  BY <1>1 DEF ArxivSnapshot, RemoteSnapshot
<1> QED BY <1>3, <1>4, <1>5

-----------------------------------------------------------------------------
(* Collecting: the wiki of a repository.                                    *)

LEMMA EvidenceIs ==
    ASSUME NEW d
    PROVE  /\ DOMAIN EvidenceFor(d) = EvidenceFields
           /\ EvidenceFor(d).document = d.id /\ EvidenceFor(d).snapshot = d.snapshot
           /\ EvidenceFor(d).path = d.path /\ EvidenceFor(d).rev = d.rev
  BY DEF EvidenceFor, EvidenceFields

LEMMA SteeredOK ==
    ASSUME NEW docs, NEW id, DocumentsOK(docs, id, TRUE), NEW steer
    PROVE  DocumentsOK(Steered(docs, steer), id, TRUE)
<1> DEFINE kept == {i \in DOMAIN docs : docs[i].path \notin steer.exclude}
           keys == [i \in kept |-> <<IF docs[i].path \in steer.priority THEN 0 ELSE 1,
                                    PathRank[docs[i].path]>>]
           s == Sorted(docs, kept, keys)
<1>1. Steered(docs, steer) = s
  BY DEF Steered
<1>2. kept \in SUBSET (DOMAIN docs)
  OBVIOUS
<1>3. keys = [i \in kept |-> <<IF docs[i].path \in steer.priority THEN 0 ELSE 1,
                              PathRank[docs[i].path]>>]
  OBVIOUS
<1>4. s = Sorted(docs, kept, keys)
  OBVIOUS
<1> HIDE DEF kept, keys, s
<1>5. /\ Listing(docs) /\ \A d \in ToSet(docs) : d.snapshot = id /\ d.path \in Paths
      /\ \A i \in DOMAIN docs : docs[i] \in ToSet(docs)
  BY ListingIs DEF DocumentsOK
<1>6. KeysOK(kept, keys)
  <2>1. ASSUME NEW i \in kept PROVE keys[i] \in Int \X Int
    <3>1. PathRank[docs[i].path] \in Int
      BY <1>2, <1>5, WikiAssumption
    <3> QED BY <1>3, <3>1
  <2> QED BY <2>1 DEF KeysOK
<1>7. Listing(s) /\ ToSet(s) = {docs[i] : i \in kept}
  BY <1>2, <1>4, <1>5, <1>6, ChosenOK
<1>8. ToSet(s) \subseteq ToSet(docs)
  BY <1>2, <1>5, <1>7
<1> QED BY <1>1, <1>5, <1>7, <1>8 DEF DocumentsOK

LEMMA PagesOfOK ==
    ASSUME NEW project, NEW id, NEW docs, Listing(docs), docs # << >>, NEW inventory,
           NEW p \in PagesOf(project, id, docs, inventory)
    PROVE  /\ p.snapshot = id /\ p.evidence # {}
           /\ p.evidence \subseteq {EvidenceFor(d) : d \in ToSet(docs)}
<1>1. PICK k \in DOMAIN PageTypes : p = PageOf(project, id, docs, inventory, k)
  BY DEF PagesOf
<1>2. PICK type : type = PageTypes[k]
  OBVIOUS
<1>3. PICK matched : matched = MatchedBy(type, docs)
  OBVIOUS
<1>4. Listing(matched) /\ ToSet(matched) \subseteq ToSet(docs)
  <2>1. PICK at : at = {i \in DOMAIN docs : OnPage(type, docs[i])}
    OBVIOUS
  <2>2. at \in SUBSET (DOMAIN docs) /\ matched = Those(docs, at)
    BY <1>3, <2>1 DEF MatchedBy
  <2>3. Listing(matched) /\ ToSet(matched) = {docs[i] : i \in at}
    BY <2>2, ThoseOK
  <2>4. \A i \in DOMAIN docs : docs[i] \in ToSet(docs)
    BY ListingIs
  <2> QED BY <2>2, <2>3, <2>4
<1>5. PICK shown : shown = ShownOn(type, docs)
  OBVIOUS
<1>6. Listing(shown) /\ ToSet(shown) \subseteq ToSet(docs) /\ shown # << >>
  <2>1. CASE matched = << >>
    <3>1. shown = <<docs[1]>>
      BY <1>3, <1>5, <2>1 DEF ShownOn
    <3>2. \A x : Listing(<<x>>) /\ ToSet(<<x>>) = {x}
      BY SingleListing
    <3>3. docs[1] \in ToSet(docs)
      <4>1. 1 \in DOMAIN docs
        BY DEF Listing
      <4> QED BY <4>1, ListingIs
    <3> QED BY <3>1, <3>2, <3>3
  <2>2. CASE matched # << >>
    BY <1>3, <1>4, <1>5, <2>2 DEF ShownOn
  <2> QED BY <2>1, <2>2
<1>7. PICK cited : cited = CitedOn(type, docs)
  OBVIOUS
<1>8. cited = SubSeq(shown, 1, Smaller(PageEvidence, Len(shown)))
  BY <1>5, <1>7 DEF CitedOn
<1>9. p.snapshot = id /\ p.evidence = {EvidenceFor(cited[i]) : i \in DOMAIN cited}
  BY <1>1, <1>2, <1>7 DEF PageOf
<1>10. PageEvidence \in Nat
  BY DEF PageEvidence
<1>11. Listing(cited)
  BY <1>6, <1>8, <1>10, FirstListing
<1>16. Len(cited) = Smaller(PageEvidence, Len(shown))
  BY <1>6, <1>8, <1>10, FirstListing
<1>17. ToSet(cited) \subseteq ToSet(shown)
  BY <1>6, <1>8, <1>10, FirstListing
<1>12. /\ DOMAIN cited = 1..Len(cited) /\ \A i \in DOMAIN cited : cited[i] \in ToSet(cited)
  BY <1>11, ListingIs
<1>13. 1 \in DOMAIN cited
  <2>1. Len(shown) \in Nat /\ Len(shown) # 0
    BY <1>6 DEF Listing
  <2>2. Len(cited) \in Nat /\ Len(cited) # 0
    BY <1>16, <2>1 DEF Smaller, PageEvidence
  <2> QED BY <1>12, <2>2
<1>14. p.evidence # {}
  BY <1>9, <1>13
<1>15. p.evidence \subseteq {EvidenceFor(d) : d \in ToSet(docs)}
  BY <1>6, <1>9, <1>12, <1>17
<1> QED BY <1>9, <1>14, <1>15

LEMMA ComponentsOK ==
    ASSUME NEW project, NEW id, NEW docs, Listing(docs), NEW c \in Components(project, id, docs)
    PROVE  c.snapshot = id /\ \E d \in ToSet(docs) : d.path[1] = c.root
<1>1. PICK i \in CodeIn(docs) : c = ComponentOf(project, id, docs, docs[i].path[1])
  BY DEF Components
<1>2. c.snapshot = id /\ c.root = docs[i].path[1]
  BY <1>1 DEF ComponentOf
<1>3. docs[i] \in ToSet(docs)
  <2>1. i \in DOMAIN docs
    BY <1>1 DEF CodeIn
  <2> QED BY <2>1, ListingIs
<1> QED BY <1>2, <1>3

\* What is compiled cites the documents it stores.
LEMMA CompiledOK ==
    ASSUME NEW source, NEW id, NEW docs, DocumentsOK(docs, id, TRUE), NEW previous,
           ~Compiled(source, id, docs, previous).raises
    PROVE  WikiOK(Compiled(source, id, docs, previous), id)
<1> DEFINE steer == Steering(docs)
           kept == Steered(docs, steer)
           project == source.page
           inventory == Inventory(kept)
           components == Components(project, id, kept)
           facts == FactsDocument(id, inventory, components, kept)
           pages == PagesOf(project, id, kept, inventory)
           cited == [i \in DOMAIN kept |-> EvidenceFor(kept[i])]
           all == <<EvidenceFor(facts)>> \o cited
           w == Compiled(source, id, docs, previous)
<1>1. docs # << >> /\ kept # << >> /\ \A i \in DOMAIN docs : docs[i].snapshot = id
  BY DEF Compiled
<1>2. /\ w.documents = ToSet(kept) \cup {facts} /\ w.components = components /\ w.pages = pages
      /\ w.evidence = ToSet(all) /\ w.order = all
      /\ w.card.snapshot = id
      /\ w.card.cites = {all[i] : i \in 1..Smaller(CardEvidence, Len(all))}
  BY <1>1 DEF Compiled
<1>3. facts.snapshot = id /\ facts.path = <<".rosclaw", "repo_facts.json">>
  BY DEF FactsDocument, FactsPath
<1>4. DocumentsOK(kept, id, TRUE)
  BY SteeredOK
<1>5. DOMAIN cited = DOMAIN kept /\ cited = [i \in DOMAIN cited |-> cited[i]]
      /\ \A i \in DOMAIN kept : cited[i] = EvidenceFor(kept[i])
  OBVIOUS
<1>6. all = <<EvidenceFor(facts)>> \o cited
  OBVIOUS
<1>7. \A p \in pages : p \in PagesOf(project, id, kept, inventory)
  OBVIOUS
<1>8. \A c \in components : c \in Components(project, id, kept)
  OBVIOUS
<1> HIDE DEF steer, kept, project, inventory, components, facts, pages, cited, all, w
<1>9. Listing(kept) /\ \A d \in ToSet(kept) : d.snapshot = id /\ d.path \in Paths
  BY <1>4 DEF DocumentsOK
<1>10. ToSet(kept) = {kept[i] : i \in DOMAIN kept}
  BY <1>9, ListingIs
<1>11. Listing(cited) /\ \A e \in ToSet(cited) : \E i \in DOMAIN kept : e = cited[i]
  <2>1. Listing(cited)
    BY <1>5, <1>9, MappedListing
  <2>2. \A e \in ToSet(cited) : \E i \in DOMAIN kept : e = cited[i]
    BY <1>5, <1>9, MappedListing
  <2> QED BY <2>1, <2>2
<1>12. ToSet(cited) = {EvidenceFor(d) : d \in ToSet(kept)}
  <2>1. \A e \in ToSet(cited) : \E d \in ToSet(kept) : e = EvidenceFor(d)
    BY <1>5, <1>10, <1>11
  <2>2. \A i \in DOMAIN kept : EvidenceFor(kept[i]) \in ToSet(cited)
    <3>1. \A i \in DOMAIN cited : cited[i] \in ToSet(cited)
      BY <1>11, ListingIs
    <3> QED BY <1>5, <3>1
  <2> QED BY <1>10, <2>1, <2>2
<1>13. Listing(all) /\ ToSet(all) = {EvidenceFor(facts)} \cup ToSet(cited) /\ all # << >>
  <2>1. PICK one : one = <<EvidenceFor(facts)>>
    OBVIOUS
  <2>2. Listing(one) /\ ToSet(one) = {EvidenceFor(facts)} /\ Len(one) = 1
    BY <2>1, SingleListing
  <2>3. all = one \o cited
    BY <1>6, <2>1
  <2>4. Listing(all) /\ Len(all) = Len(one) + Len(cited) /\ ToSet(all) = ToSet(one) \cup ToSet(cited)
    BY <1>11, <2>2, <2>3, JoinedListing
  <2>5. EvidenceFor(facts) \in ToSet(all)
    BY <2>2, <2>4
  <2>6. all # << >>
    BY <2>5, EmptyListing
  <2> QED BY <2>2, <2>4, <2>6
<1>14. ToSet(all) = {EvidenceFor(d) : d \in w.documents}
  BY <1>2, <1>12, <1>13
<1>15. \A d \in w.documents : d.snapshot = id /\ d.path \in Paths
  BY <1>2, <1>3, <1>9, WikiAssumption
<1>16. \A e \in ToSet(w.order) : EvidenceOK(e, id, w.documents)
  BY <1>2, <1>14, <1>15, EvidenceIs DEF EvidenceOK
<1>17. ASSUME NEW p \in w.pages
       PROVE  p.snapshot = id /\ p.evidence # {} /\ p.evidence \subseteq ToSet(w.order)
  <2>1. p \in PagesOf(project, id, kept, inventory)
    BY <1>2, <1>7
  <2>2. \A q \in PagesOf(project, id, kept, inventory) :
            /\ q.snapshot = id /\ q.evidence # {}
            /\ q.evidence \subseteq {EvidenceFor(d) : d \in ToSet(kept)}
    BY <1>1, <1>9, PagesOfOK
  <2>3. p.snapshot = id /\ p.evidence # {}
    BY <2>1, <2>2
  <2>4. p.evidence \subseteq {EvidenceFor(d) : d \in ToSet(kept)}
    BY <2>1, <2>2
  <2> QED BY <1>2, <1>12, <1>13, <2>3, <2>4
<1>18. ASSUME NEW c \in w.components
       PROVE  c.snapshot = id /\ \E e \in ToSet(w.order) : e.path[1] = c.root
  <2>1. c \in Components(project, id, kept)
    BY <1>2, <1>8
  <2>2. c.snapshot = id
    BY <1>9, <2>1, ComponentsOK
  <2>3. PICK d \in ToSet(kept) : d.path[1] = c.root
    BY <1>9, <2>1, ComponentsOK
  <2>4. EvidenceFor(d) \in ToSet(w.order) /\ EvidenceFor(d).path = d.path
    BY <1>2, <1>12, <1>13, EvidenceIs
  <2> QED BY <2>2, <2>3, <2>4
<1>19. w.card.cites \subseteq ToSet(w.order)
  <2>1. Len(all) \in Nat /\ DOMAIN all = 1..Len(all) /\ \A i \in DOMAIN all : all[i] \in ToSet(all)
    BY <1>13, ListingIs
  <2>2. CardEvidence \in Nat
    BY DEF CardEvidence
  <2>3. Smaller(CardEvidence, Len(all)) \in Nat /\ Smaller(CardEvidence, Len(all)) <= Len(all)
    BY <2>1, <2>2, SmallerOK
  <2>4. \A i \in 1..Smaller(CardEvidence, Len(all)) : i \in DOMAIN all
    BY <2>1, <2>3
  <2> QED BY <1>2, <2>1, <2>4
<1>20. WikiOK(w, id)
  BY <1>2, <1>13, <1>15, <1>16, <1>17, <1>18, <1>19 DEF WikiOK
<1> QED BY <1>20 DEF w

LEMMA UnitsOfOK ==
    ASSUME NEW w, NEW id, WikiOK(w, id), NEW u \in UnitsOf(w)
    PROVE  /\ u.project = w.card.project /\ u.evidence \subseteq ToSet(w.order)
           /\ \E p \in w.pages : u.evidence = p.evidence /\ u.snapshot = p.snapshot
<1>1. PICK p \in w.pages : /\ u.project = w.card.project /\ u.snapshot = w.card.snapshot
                           /\ u.evidence = p.evidence
  BY DEF UnitsOf
<1> QED BY <1>1 DEF WikiOK

\* Evidence that cites what an entry of the order cites.
CitesAsIn(e, w) ==
    \E x \in ToSet(w.order) :
        e.document = x.document /\ e.snapshot = x.snapshot /\ e.rev = x.rev

LEMMA FocusedEvidenceOK ==
    ASSUME NEW w, NEW id, WikiOK(w, id), NEW stored, NEW terms, NEW fitting
    PROVE  CitesAsIn(FocusedEvidence(w, stored, terms, fitting), w)
<1> DEFINE order == w.order
           Lines(e) == {n \in 1..Len(stored[e.document].lines) :
                          terms = {} \/ stored[e.document].lines[n] \cap terms # {}}
           KeysAt(at) == [i \in at |-> <<IF order[i].path \in fitting THEN 0 ELSE 1,
                                       PathRank[order[i].path]>>]
           Leading(at) == Sorted(order, at, KeysAt(at))[1]
           hits == {i \in DOMAIN order : order[i].document \in DOMAIN stored /\ Lines(order[i]) # {}}
<1>1. FocusedEvidence(w, stored, terms, fitting) =
         IF hits = {} THEN Leading(DOMAIN order)
         ELSE [Leading(hits) EXCEPT !.from = Min(Lines(Leading(hits))), !.to = Min(Lines(Leading(hits)))]
  BY DEF FocusedEvidence
<1>2. hits \in SUBSET (DOMAIN order)
  OBVIOUS
<1>3. /\ Listing(order) /\ order # << >>
      /\ \A i \in DOMAIN order : /\ order[i] \in ToSet(order) /\ order[i].path \in Paths
                                 /\ DOMAIN order[i] = EvidenceFields
  BY ListingIs DEF WikiOK, EvidenceOK
<1>4. ASSUME NEW at \in SUBSET (DOMAIN order), at # {} PROVE Leading(at) \in ToSet(order)
  <2>1. PICK keys : keys = KeysAt(at)
    OBVIOUS
  <2>2. KeysOK(at, keys)
    <3>1. ASSUME NEW i \in at PROVE keys[i] \in Int \X Int
      <4>1. PathRank[order[i].path] \in Int
        BY <1>3, WikiAssumption
      <4> QED BY <2>1, <4>1
    <3> QED BY <3>1 DEF KeysOK
  <2>3. PICK s : s = Sorted(order, at, keys)
    OBVIOUS
  <2>4. Listing(s) /\ ToSet(s) = {order[i] : i \in at} /\ s[1] \in ToSet(s)
    BY <1>3, <1>4, <2>2, <2>3, ChosenOK
  <2>5. Leading(at) = s[1]
    BY <2>1, <2>3
  <2> HIDE DEF Leading, order
  <2> QED BY <1>3, <2>4, <2>5
<1>5. DOMAIN order # {}
  BY <1>3 DEF Listing
<1> HIDE DEF Lines, Leading, hits
<1>6. \A x \in ToSet(order) : DOMAIN x = EvidenceFields
  BY <1>3 DEF WikiOK, EvidenceOK
<1>7. CASE hits = {}
  BY <1>1, <1>4, <1>5, <1>7 DEF CitesAsIn
<1>8. CASE hits # {}
  <2>1. PICK x \in ToSet(order) : x = Leading(hits)
    BY <1>2, <1>4, <1>8
  <2>2. PICK n : n = Min(Lines(Leading(hits)))
    OBVIOUS
  <2>3. FocusedEvidence(w, stored, terms, fitting) = [x EXCEPT !.from = n, !.to = n]
    BY <1>1, <1>8, <2>1, <2>2
  <2>4. PICK e : e = [x EXCEPT !.from = n, !.to = n]
    OBVIOUS
  <2>5. e.document = x.document /\ e.snapshot = x.snapshot /\ e.rev = x.rev
    BY <1>6, <2>1, <2>4 DEF EvidenceFields
  <2> QED BY <2>1, <2>3, <2>4, <2>5 DEF CitesAsIn
<1> QED BY <1>7, <1>8

\* The evidence of a claim is the evidence of the wiki, or a line of it.
LEMMA ClaimsOfOK ==
    ASSUME NEW w, NEW id, WikiOK(w, id), NEW units, \A u \in units : u.evidence \subseteq ToSet(w.order),
           NEW stored, NEW c \in ClaimsOf(w, units, stored)
    PROVE  "evidence" \in DOMAIN c /\ \A e \in c.evidence : CitesAsIn(e, w)
<1> DEFINE UnitFor(type) == IF \E u \in units : u.page = type
                            THEN (CHOOSE u \in units : u.page = type).id
                            ELSE (CHOOSE u \in units : u.page = "overview").id
           Claim(type, predicate, about, object, evidence, inferred) ==
             [active |-> TRUE, unit |-> UnitFor(type), subject |-> <<w.card.project, about>>,
              snapshot |-> w.card.snapshot,
              predicate |-> predicate, object |-> object, evidence |-> evidence, inferred |-> inferred]
           paths == {w.order[i].path : i \in DOMAIN w.order}
           InComponent(d) == Those(w.order, {i \in DOMAIN w.order : w.order[i].path[1] = d.root})[1]
           inventory == w.inventory
           markers == inventory.robots \cup inventory.simulators \cup inventory.distros
                        \cup inventory.frameworks
           facts == {w.order[1]}
           build == {FocusedEvidence(w, stored, inventory.build, {p \in paths : InName(p, BuildFiles)})}
           row == Head(inventory.rows \o inventory.pulls \o <<{}>>) \ {"row"}
           title == Head(inventory.rows \o <<{}>>) \ {"row"}
           issue == {FocusedEvidence(w, stored, title,
                                     {p \in paths : InName(p, {"issues", "releases", "pulls"})})}
           compatible == {FocusedEvidence(w, stored, markers,
                                          {p \in paths : InPath(p, {"readme", "docs"})})}
           SymbolEvidence(d) == {FocusedEvidence(w, stored, {CHOOSE s \in d.symbols : TRUE},
                                                 {p \in paths : p[1] = d.root})}
<1>1. ClaimsOf(w, units, stored) =
        {Claim("architecture", "contains_component", d.root, {d.root}, {InComponent(d)}, FALSE)
            : d \in w.components} \cup
        {Claim("architecture", "defines_symbols", d.root, d.symbols, SymbolEvidence(d), FALSE)
            : d \in {x \in w.components : x.symbols # {}}} \cup
        {Claim("overview", "indexed_component_paths", "", w.card.components, facts, FALSE),
         Claim("overview", "build_and_package_systems", "", inventory.build, build, FALSE),
         Claim("overview", "indexed_scope_limitation", "", w.card.limits, facts, TRUE),
         Claim("overview", "issue_release_or_pr", "", row, issue, inventory.rows \o inventory.pulls = << >>),
         Claim("overview", "compatibility_markers", "", markers, compatible, markers = {})} \cup
        {Claim(u.page, "documents", u.page, {u.page}, u.evidence, TRUE) : u \in units}
  BY DEF ClaimsOf
<1>3. \A terms, fitting : CitesAsIn(FocusedEvidence(w, stored, terms, fitting), w)
  BY FocusedEvidenceOK
<1>4. \A e \in build \cup issue \cup compatible : CitesAsIn(e, w)
  BY <1>3
<1>5. \A d : \A e \in SymbolEvidence(d) : CitesAsIn(e, w)
  BY <1>3
<1>6. \A e \in ToSet(w.order) : CitesAsIn(e, w)
  BY DEF CitesAsIn
<1>7. ASSUME NEW d \in w.components PROVE CitesAsIn(InComponent(d), w)
  <2>1. PICK at : at = {i \in DOMAIN w.order : w.order[i].path[1] = d.root}
    OBVIOUS
  <2>2. Listing(w.order) /\ \E e \in ToSet(w.order) : e.path[1] = d.root
    BY DEF WikiOK
  <2>3. ToSet(w.order) = {w.order[i] : i \in DOMAIN w.order}
    BY <2>2, ListingIs
  <2>4. at # {} /\ at \in SUBSET (DOMAIN w.order)
    BY <2>1, <2>2, <2>3
  <2>5. PICK s : s = Those(w.order, at)
    OBVIOUS
  <2>6. s[1] \in ToSet(s) /\ ToSet(s) = {w.order[i] : i \in at}
    BY <2>2, <2>4, <2>5, ThoseOK
  <2>7. InComponent(d) = s[1]
    BY <2>1, <2>5
  <2> HIDE DEF InComponent
  <2> QED BY <1>6, <2>3, <2>4, <2>6, <2>7
<1>8. \A e \in facts : CitesAsIn(e, w)
  <2>1. Listing(w.order) /\ w.order # << >>
    BY DEF WikiOK
  <2>2. 1 \in DOMAIN w.order
    BY <2>1 DEF Listing
  <2>3. w.order[1] \in ToSet(w.order)
    BY <2>1, <2>2, ListingIs
  <2> QED BY <1>6, <2>3
<1> HIDE DEF UnitFor, paths, InComponent, inventory, markers, facts, build, row, title, issue,
             compatible, SymbolEvidence
<1>9. CASE c \in {Claim("architecture", "contains_component", d.root, {d.root}, {InComponent(d)}, FALSE)
                    : d \in w.components}
  BY <1>7, <1>9
<1>10. CASE c \in {Claim("architecture", "defines_symbols", d.root, d.symbols, SymbolEvidence(d), FALSE)
                     : d \in {x \in w.components : x.symbols # {}}}
  BY <1>5, <1>10
<1>11. CASE c \in {Claim("overview", "indexed_component_paths", "", w.card.components, facts, FALSE),
         Claim("overview", "build_and_package_systems", "", inventory.build, build, FALSE),
         Claim("overview", "indexed_scope_limitation", "", w.card.limits, facts, TRUE),
         Claim("overview", "issue_release_or_pr", "", row, issue, inventory.rows \o inventory.pulls = << >>),
         Claim("overview", "compatibility_markers", "", markers, compatible, markers = {})}
  <2>1. CASE c = Claim("overview", "indexed_component_paths", "", w.card.components, facts, FALSE)
    BY <1>8, <2>1
  <2>2. CASE c = Claim("overview", "build_and_package_systems", "", inventory.build, build, FALSE)
    BY <1>4, <2>2
  <2>3. CASE c = Claim("overview", "indexed_scope_limitation", "", w.card.limits, facts, TRUE)
    BY <1>8, <2>3
  <2>4. CASE c = Claim("overview", "issue_release_or_pr", "", row, issue,
                       inventory.rows \o inventory.pulls = << >>)
    BY <1>4, <2>4
  <2>5. CASE c = Claim("overview", "compatibility_markers", "", markers, compatible, markers = {})
    BY <1>4, <2>5
  <2> HIDE DEF Claim
  <2> QED BY <1>11, <2>1, <2>2, <2>3, <2>4, <2>5
<1>12. CASE c \in {Claim(u.page, "documents", u.page, {u.page}, u.evidence, TRUE) : u \in units}
  BY <1>6, <1>12
<1> QED BY <1>1, <1>9, <1>10, <1>11, <1>12

-----------------------------------------------------------------------------
(* Collecting: what a step of a run leaves as it was.                       *)

\* What the audit finds nothing wrong with.
LEMMA AuditIs ==
    ASSUME NEW claims, NEW documents, NEW evidence, NEW ids
    PROVE  AuditFailures(claims, documents, evidence, ids) = {} <=>
              \A c \in claims : \A e \in c.evidence :
                  /\ e.snapshot \in ids /\ e \in evidence
                  /\ \E d \in documents : d.id = e.document /\ d.rev = e.rev
<1> DEFINE Unsound(e) == \/ e.snapshot \notin ids
                         \/ ~\E d \in documents : d.id = e.document /\ d.rev = e.rev
                         \/ e \notin evidence
           failures == AuditFailures(claims, documents, evidence, ids)
<1>1. failures = UNION {{<<c, e>> : e \in {x \in c.evidence : Unsound(x)}} : c \in claims}
  BY DEF AuditFailures
<1>2. \A e : ~Unsound(e) <=> /\ e.snapshot \in ids /\ e \in evidence
                             /\ \E d \in documents : d.id = e.document /\ d.rev = e.rev
  OBVIOUS
<1> HIDE DEF Unsound, failures
<1>3. failures = {} <=> \A c \in claims : \A e \in c.evidence : ~Unsound(e)
  <2>1. ASSUME failures = {}, NEW c \in claims, NEW e \in c.evidence PROVE ~Unsound(e)
    <3>1. SUFFICES ASSUME Unsound(e) PROVE <<c, e>> \in failures
      BY <2>1
    <3>2. <<c, e>> \in {<<c, x>> : x \in {y \in c.evidence : Unsound(y)}}
      BY <3>1
    <3> QED BY <1>1, <3>2
  <2>2. ASSUME \A c \in claims : \A e \in c.evidence : ~Unsound(e) PROVE failures = {}
    BY <1>1, <2>2
  <2> QED BY <2>1, <2>2
<1> QED BY <1>2, <1>3 DEF failures

BackedIn(e, tables) == \E d \in tables.documents : d.id = e.document /\ d.rev = e.rev
\* PinnedToStored of any tables.
PinnedOf(tables) ==
    /\ \A s \in tables.snapshots : s.source \in DOMAIN tables.latest
    /\ \A d \in tables.documents : d.snapshot \in IdsOf(tables)
    /\ \A e \in tables.evidence : BackedIn(e, tables)
    /\ \A r \in tables.pages \cup tables.components : r.snapshot \in IdsOf(tables)
    /\ \A p \in tables.pages : p.evidence # {} /\ p.evidence \subseteq tables.evidence
    /\ \A c \in tables.cards : c.snapshot \in IdsOf(tables) /\ c.cites \subseteq tables.evidence
    /\ \A u \in tables.units : \E p \in tables.pages : u.evidence = p.evidence /\ u.snapshot = p.snapshot
    /\ \A r \in tables.relations : \E c \in tables.cards : c.project = r[3]
    /\ \A c \in tables.claims : \A e \in c.evidence :
          e.snapshot \in IdsOf(tables) /\ e \in tables.evidence /\ BackedIn(e, tables)

LEMMA PinnedIs ==
    PinnedToStored = PinnedOf(shelf) /\ PinnedToStored' = PinnedOf(shelf')
<1>1. PinnedToStored <=> PinnedOf(shelf)
  <2>1. AuditFailures(shelf.claims, shelf.documents, shelf.evidence, IdsOf(shelf)) = {} <=>
           \A c \in shelf.claims : \A e \in c.evidence :
               e.snapshot \in IdsOf(shelf) /\ e \in shelf.evidence /\ BackedIn(e, shelf)
    BY AuditIs DEF BackedIn
  <2>3. PinnedToStored <=>
           /\ \A s \in shelf.snapshots : s.source \in DOMAIN shelf.latest
           /\ \A d \in shelf.documents : d.snapshot \in IdsOf(shelf)
           /\ \A e \in shelf.evidence : BackedIn(e, shelf)
           /\ \A r \in shelf.pages \cup shelf.components : r.snapshot \in IdsOf(shelf)
           /\ \A p \in shelf.pages : p.evidence # {} /\ p.evidence \subseteq shelf.evidence
           /\ \A c \in shelf.cards :
                 c.snapshot \in IdsOf(shelf) /\ c.cites \subseteq shelf.evidence
           /\ \A u \in shelf.units :
                 \E p \in shelf.pages : u.evidence = p.evidence /\ u.snapshot = p.snapshot
           /\ \A r \in shelf.relations : \E c \in shelf.cards : c.project = r[3]
           /\ AuditFailures(shelf.claims, shelf.documents, shelf.evidence, IdsOf(shelf)) = {}
    BY Zenon DEF PinnedToStored, BackedIn, IdsOf
  <2> QED BY <2>1, <2>3, Zenon DEF PinnedOf
<1>2. PinnedToStored' <=> PinnedOf(shelf')
  <2>1. AuditFailures(shelf'.claims, shelf'.documents, shelf'.evidence, IdsOf(shelf')) = {} <=>
           \A c \in shelf'.claims : \A e \in c.evidence :
               e.snapshot \in IdsOf(shelf') /\ e \in shelf'.evidence /\ BackedIn(e, shelf')
    BY AuditIs DEF BackedIn
  <2>3. PinnedToStored' <=>
           /\ \A s \in shelf'.snapshots : s.source \in DOMAIN shelf'.latest
           /\ \A d \in shelf'.documents : d.snapshot \in IdsOf(shelf')
           /\ \A e \in shelf'.evidence : BackedIn(e, shelf')
           /\ \A r \in shelf'.pages \cup shelf'.components : r.snapshot \in IdsOf(shelf')
           /\ \A p \in shelf'.pages : p.evidence # {} /\ p.evidence \subseteq shelf'.evidence
           /\ \A c \in shelf'.cards :
                 c.snapshot \in IdsOf(shelf') /\ c.cites \subseteq shelf'.evidence
           /\ \A u \in shelf'.units :
                 \E p \in shelf'.pages : u.evidence = p.evidence /\ u.snapshot = p.snapshot
           /\ \A r \in shelf'.relations : \E c \in shelf'.cards : c.project = r[3]
           /\ AuditFailures(shelf'.claims, shelf'.documents, shelf'.evidence, IdsOf(shelf')) = {}
    BY Zenon DEF PinnedToStored, BackedIn, IdsOf
  <2> QED BY <2>1, <2>3, Zenon DEF PinnedOf
<1> QED BY <1>1, <1>2 DEF PinnedToStored, PinnedOf

LEMMA ShelfStays == ASSUME ShelfInv, UNCHANGED shelf PROVE ShelfInv'
<1>1. PinnedToStored'
  BY PinnedIs DEF ShelfInv
<1>2. ClaimsAreRows' /\ DOMAIN shelf' = ShelfFields
  BY DEF ShelfInv, ClaimsAreRows
<1> QED BY <1>1, <1>2 DEF ShelfInv

\* The requests and the worlds are as assumed.
LEMMA AskedOK ==
    ASSUME RunShape, collecting.phase # "idle" PROVE RequestOK(Asked) /\ WorldOK(Upstream)
  BY CollectionAssumption DEF RunShape, Asked, Upstream

LEMMA LimitsOK == MaxTotalDocuments \in Nat /\ MaxTotalBytes \in Nat
  BY CollectionAssumption

SameRun(s, t) ==
    /\ s.request = t.request /\ s.world = t.world
    /\ s.discovered = t.discovered /\ s.qualified = t.qualified
    /\ s.documents = t.documents /\ s.bytes = t.bytes /\ s.tokens = t.tokens
    /\ s.sources = t.sources

LEMMA WarnedIs ==
    ASSUME NEW run, DOMAIN run = RunFields, NEW warning
    PROVE  LET w == Warned(run, warning) IN
           /\ DOMAIN w = RunFields /\ SameRun(w, run) /\ w.queue = run.queue /\ w.phase = run.phase
           /\ w.session = run.session /\ w.pin = run.pin /\ w.batch = run.batch
  BY DEF Warned, SameRun, RunFields

LEMMA NextOfferIs ==
    ASSUME NEW run, DOMAIN run = RunFields
    PROVE  LET n == NextOffer(run) IN
           /\ DOMAIN n = RunFields /\ SameRun(n, run) /\ n.queue = Tail(run.queue)
           /\ n.phase = "next" /\ n.session = Absent
  BY DEF NextOffer, SameRun, RunFields

\* A step that touches neither the offers nor the counters.
LEMMA SameRunKeeps ==
    ASSUME RunInv, collecting.phase # "idle", DOMAIN collecting' = RunFields,
           SameRun(collecting', collecting)
    PROVE  /\ RunShape' /\ CountsOK' /\ BestOfEveryPage'
           /\ Asked' = Asked /\ Upstream' = Upstream
<1>1. Asked' = Asked /\ Upstream' = Upstream
  BY DEF SameRun, Asked, Upstream
<1>2. RunShape'
  BY DEF RunInv, RunShape, SameRun
<1>3. CountsOK'
  BY <1>1 DEF RunInv, CountsOK, SameRun
<1>4. BestOfEveryPage'
  BY <1>1 DEF RunInv, BestOfEveryPage, SameRun
<1> QED BY <1>1, <1>2, <1>3, <1>4

LEMMA OfferUnderWay ==
    ASSUME RunInv, collecting.phase \in WithOffer
    PROVE  collecting.phase # "idle" /\ collecting.queue # << >>
  BY DEF RunInv, OffersWait, WithOffer, WithPin, AfterSnapshot

\* The loop goes on, whatever became of the offer under way.
LEMMA LoopGoesOn ==
    ASSUME RunInv, collecting.phase # "idle", collecting.queue # << >>,
           NEW run, DOMAIN run = RunFields, SameRun(run, collecting), run.queue = collecting.queue,
           collecting' = NextOffer(run)
    PROVE  RunInv' /\ InHand'
<1>1. /\ DOMAIN collecting' = RunFields /\ SameRun(collecting', run)
      /\ collecting'.queue = Tail(collecting.queue)
      /\ collecting'.phase = "next" /\ collecting'.session = Absent
  BY NextOfferIs
<1>2. SameRun(collecting', collecting)
  BY <1>1 DEF SameRun
<1>3. RunShape' /\ CountsOK' /\ BestOfEveryPage' /\ Upstream' = Upstream
  BY <1>1, <1>2, SameRunKeeps
<1>4. OffersOK(Tail(collecting.queue), Upstream)
  <2>1. OffersOK(collecting.queue, Upstream)
    BY DEF RunInv, OffersWait
  <2>2. Listing(collecting.queue)
    BY <2>1 DEF OffersOK
  <2>3. Listing(Tail(collecting.queue)) /\ ToSet(Tail(collecting.queue)) \subseteq ToSet(collecting.queue)
    BY <2>1, <2>2, TailListing
  <2> QED BY <2>1, <2>3 DEF OffersOK
<1>5. OffersWait'
  BY <1>1, <1>3, <1>4 DEF OffersWait, WithOffer, WithPin, AfterSnapshot
<1>6. RoomOK' /\ SessionsAnswer' /\ InHand'
  BY <1>1 DEF RoomOK, SessionsAnswer, InHand, AfterSnapshot
<1> QED BY <1>3, <1>5, <1>6 DEF RunInv

LEMMA SkipGoesOn ==
    ASSUME RunInv, collecting.phase # "idle", collecting.queue # << >>, NEW warning, Skip(warning)
    PROVE  RunInv' /\ InHand'
<1>1. PICK run : run = Warned(collecting, warning)
  OBVIOUS
<1>2. DOMAIN collecting = RunFields
  BY DEF RunInv, RunShape
<1>3. DOMAIN run = RunFields /\ SameRun(run, collecting) /\ run.queue = collecting.queue
  BY <1>1, <1>2, WarnedIs
<1>4. collecting' = NextOffer(run)
  BY <1>1 DEF Skip
<1> QED BY <1>3, <1>4, LoopGoesOn

\* Nothing is under way.
LEMMA AtRestIs ==
    /\ DOMAIN AtRestCollecting = RunFields /\ AtRestCollecting.phase = "idle"
    /\ AtRestCollecting.documents = 0 /\ AtRestCollecting.sources = << >>
    /\ AtRestCollecting.bytes = 0 /\ AtRestCollecting.tokens = 0
    /\ AtRestCollecting.queue = << >> /\ AtRestCollecting.session = Absent
    /\ AtRestCollecting.qualified = << >> /\ AtRestCollecting.discovered = {}
  BY DEF AtRestCollecting, RunFields

LEMMA RunRests == ASSUME collecting' = AtRestCollecting PROVE RunInv' /\ InHand'
<1>1. RunShape'
  BY AtRestIs DEF RunShape
<1>2. CountsOK'
  <2>1. Listing(collecting'.sources) /\ Len(collecting'.sources) <= collecting'.documents
    BY AtRestIs, EmptyListing
  <2>2. collecting'.documents \in Nat
    BY AtRestIs
  <2> QED BY AtRestIs, <2>1, <2>2 DEF CountsOK
<1>3. BestOfEveryPage'
  BY AtRestIs DEF BestOfEveryPage
<1>4. RoomOK' /\ OffersWait' /\ SessionsAnswer' /\ InHand'
  BY AtRestIs DEF RoomOK, OffersWait, SessionsAnswer, InHand, WithOffer, WithPin, AfterSnapshot
<1> QED BY <1>1, <1>2, <1>3, <1>4 DEF RunInv

-----------------------------------------------------------------------------
(* Collecting: the steps of a run.                                          *)

LEMMA PerspectivesFit ==
    ASSUME NEW q, RequestOK(q) PROVE Len(ResearchPlan(q).perspectives) <= MaxPerspectives
<1> DEFINE asked == IF q.perspectives = << >> THEN DefaultPerspectives ELSE q.perspectives
           at == {i \in DOMAIN asked : \A j \in 1..(i - 1) : asked[j] # asked[i]}
           distinct == Those(asked, at)
           kept == FirstOf(distinct, MaxPerspectives)
<1>1. ResearchPlan(q).perspectives = kept
  BY DEF ResearchPlan
<1>2. Listing(asked)
  <2>1. Listing(DefaultPerspectives)
    BY DEF Listing, DefaultPerspectives, ToSet
  <2> QED BY <2>1 DEF RequestOK
<1>3. at \in SUBSET (DOMAIN asked) /\ distinct = Those(asked, at)
  OBVIOUS
<1>4. kept = FirstOf(distinct, MaxPerspectives)
  OBVIOUS
<1> HIDE DEF asked, at, distinct, kept
<1>5. Listing(distinct)
  BY <1>2, <1>3, ThoseOK
<1>6. MaxPerspectives \in Nat
  BY DEF MaxPerspectives
<1>7. Len(kept) <= MaxPerspectives
  BY <1>4, <1>5, <1>6, FirstOfOK
<1> QED BY <1>1, <1>7

LEMMA StartOK ==
    ASSUME CollectionInv, NEW request \in DOMAIN CollectRequests, NEW world \in DOMAIN Worlds,
           StartCollecting(request, world)
    PROVE  CollectionInv'
<1>1. /\ DOMAIN collecting' = RunFields /\ collecting'.phase = "discover"
      /\ collecting'.request = request /\ collecting'.world = world
      /\ collecting'.documents = 0 /\ collecting'.sources = << >>
      /\ collecting'.bytes = 0 /\ collecting'.tokens = 0
      /\ collecting'.queue = << >> /\ collecting'.session = Absent
      /\ collecting'.qualified = << >> /\ collecting'.discovered = {}
  BY AtRestIs DEF StartCollecting, RunFields
<1>2. RunShape'
  BY <1>1 DEF RunShape
<1>3. RequestOK(Asked)' /\ WorldOK(Upstream)'
  BY <1>1, CollectionAssumption DEF Asked, Upstream
<1>4. CountsOK'
  <2>1. Asked'.max_sources \in Nat /\ Asked'.token_budget \in Nat
    BY <1>3 DEF RequestOK
  <2>2. Listing(collecting'.sources) /\ Len(collecting'.sources) = 0 /\ Len(collecting'.qualified) = 0
    BY <1>1, EmptyListing
  <2> QED BY <1>1, <2>1, <2>2, LimitsOK DEF CountsOK
<1>5. BestOfEveryPage'
  BY <1>1 DEF BestOfEveryPage
<1>6. OffersWait'
  <2>1. OffersOK(<< >>, Upstream')
    BY NoOffersOK
  <2> QED BY <1>1, <2>1 DEF OffersWait, WithOffer, WithPin, AfterSnapshot
<1>7. RoomOK' /\ SessionsAnswer' /\ InHand'
  BY <1>1 DEF RoomOK, SessionsAnswer, InHand, AfterSnapshot
<1>8. ShelfInv'
  BY ShelfStays DEF CollectionInv, StartCollecting
<1> QED BY <1>2, <1>4, <1>5, <1>6, <1>7, <1>8 DEF CollectionInv, RunInv

LEMMA DiscoverOK == ASSUME CollectionInv, NEW failing, Discover(failing) PROVE CollectionInv'
<1>1. PICK offers : offers = AllOffers(failing)
  OBVIOUS
<1>2. PICK best : best = Qualified(offers, Asked.max_sources)
  OBVIOUS
<1>3. RunInv /\ collecting.phase = "discover" /\ DOMAIN collecting = RunFields
  BY DEF CollectionInv, RunInv, RunShape, Discover
<1>4. RequestOK(Asked) /\ WorldOK(Upstream)
  <2>1. RunShape
    BY <1>3 DEF RunInv
  <2> QED BY <1>3, <2>1, AskedOK
<1>5. OffersOK(offers, Upstream)
  BY <1>1, <1>4, AllOffersOK
<1>6. Asked.max_sources \in Nat
  BY <1>4 DEF RequestOK
<1>7. Listing(best) /\ Len(best) <= Asked.max_sources /\ ToSet(best) \subseteq ToSet(offers)
  BY <1>2, <1>5, <1>6, QualifiedOK
<1>18. \A i, j \in DOMAIN best : best[i].page = best[j].page => i = j
  BY <1>2, <1>5, <1>6, QualifiedOK
<1>19. \A o \in ToSet(offers) :
          \/ \E i \in DOMAIN best : /\ best[i].page = o.page
                                    /\ ~TupleLess(Preference(o), Preference(best[i]))
          \/ /\ Len(best) = Asked.max_sources
             /\ \A i \in DOMAIN best : ~TupleLess(Preference(o), Preference(best[i]))
  <2>1. PICK most : most = Asked.max_sources
    OBVIOUS
  <2>2. most \in Nat /\ best = Qualified(offers, most)
    BY <1>2, <1>6, <2>1
  <2>3. \A o \in ToSet(offers) :
          \/ \E i \in DOMAIN best : /\ best[i].page = o.page
                                    /\ ~TupleLess(Preference(o), Preference(best[i]))
          \/ /\ Len(best) = most
             /\ \A i \in DOMAIN best : ~TupleLess(Preference(o), Preference(best[i]))
    BY <1>5, <2>2, QualifiedOK
  <2> QED BY <2>1, <2>3
<1>9. /\ DOMAIN collecting' = RunFields /\ collecting'.phase = "next"
      /\ collecting'.request = collecting.request /\ collecting'.world = collecting.world
      /\ collecting'.documents = collecting.documents /\ collecting'.sources = collecting.sources
      /\ collecting'.bytes = collecting.bytes /\ collecting'.tokens = collecting.tokens
      /\ collecting'.session = collecting.session
      /\ collecting'.discovered = ToSet(offers) /\ collecting'.qualified = best
      /\ collecting'.queue = best
  BY <1>1, <1>2, <1>3 DEF Discover, RunFields
<1>10. Asked' = Asked /\ Upstream' = Upstream
  BY <1>9 DEF Asked, Upstream
<1>11. RunShape'
  BY <1>3, <1>9 DEF RunInv, RunShape
<1>12. CountsOK'
  BY <1>3, <1>7, <1>9, <1>10 DEF RunInv, CountsOK
<1>13. BestOfEveryPage'
  BY <1>9, <1>10, <1>18, <1>19 DEF BestOfEveryPage
<1>14. OffersOK(best, Upstream)
  BY <1>5, <1>7 DEF OffersOK
<1>15. OffersWait'
  BY <1>9, <1>10, <1>14 DEF OffersWait, WithOffer, WithPin, AfterSnapshot
<1>16. RoomOK' /\ SessionsAnswer' /\ InHand'
  BY <1>3, <1>9 DEF RunInv, RoomOK, SessionsAnswer, InHand, AfterSnapshot
<1>17. ShelfInv'
  BY ShelfStays DEF CollectionInv, Discover
<1> QED BY <1>11, <1>12, <1>13, <1>15, <1>16, <1>17 DEF CollectionInv, RunInv

LEMMA DeadlineOK == ASSUME CollectionInv, DeadlinePasses PROVE CollectionInv'
<1>1. RunInv /\ collecting.phase = "next" /\ DOMAIN collecting = RunFields
  BY DEF CollectionInv, RunInv, RunShape, DeadlinePasses
<1>2. PICK run : run = Warned(collecting, <<"deadline", "">>)
  OBVIOUS
<1>3. DOMAIN run = RunFields /\ SameRun(run, collecting) /\ run.session = collecting.session
  BY <1>1, <1>2, WarnedIs
<1>4. collecting' = [run EXCEPT !.phase = "done", !.queue = << >>]
  BY <1>2 DEF DeadlinePasses
<1>5. /\ DOMAIN collecting' = RunFields /\ SameRun(collecting', collecting)
      /\ collecting'.phase = "done" /\ collecting'.queue = << >>
      /\ collecting'.session = collecting.session
  BY <1>3, <1>4 DEF SameRun, RunFields
<1>6. RunShape' /\ CountsOK' /\ BestOfEveryPage'
  BY <1>1, <1>5, SameRunKeeps
<1>7. OffersWait'
  <2>1. OffersOK(<< >>, Upstream')
    BY NoOffersOK
  <2> QED BY <1>5, <2>1 DEF OffersWait, WithOffer, WithPin, AfterSnapshot
<1>8. RoomOK' /\ SessionsAnswer' /\ InHand'
  BY <1>1, <1>5 DEF RunInv, RoomOK, SessionsAnswer, InHand, AfterSnapshot
<1>9. ShelfInv'
  BY ShelfStays DEF CollectionInv, DeadlinePasses
<1> QED BY <1>6, <1>7, <1>8, <1>9 DEF CollectionInv, RunInv

LEMMA TakeSnapshotOK == ASSUME CollectionInv, TakeSnapshot PROVE CollectionInv'
<1>1. /\ RunInv /\ collecting.phase = "next" /\ collecting.queue # << >>
      /\ DOMAIN collecting = RunFields
  BY DEF CollectionInv, RunInv, RunShape, TakeSnapshot
<1>2. ShelfInv'
  BY ShelfStays DEF CollectionInv, TakeSnapshot
<1>3. CASE Current.adapter \in Remote
  <2>1. collecting' = [collecting EXCEPT !.phase = "session", !.session = NewSession(Current.adapter)]
    BY <1>3 DEF TakeSnapshot
  <2>2. /\ DOMAIN collecting' = RunFields /\ SameRun(collecting', collecting)
        /\ collecting'.phase = "session" /\ collecting'.queue = collecting.queue
        /\ collecting'.session = NewSession(Current.adapter)
    BY <1>1, <2>1 DEF SameRun, RunFields
  <2>3. RunShape' /\ CountsOK' /\ BestOfEveryPage' /\ Upstream' = Upstream
    BY <1>1, <2>2, SameRunKeeps
  <2>4. OffersWait'
    BY <1>1, <2>2, <2>3 DEF RunInv, OffersWait, WithOffer, WithPin, AfterSnapshot
  <2>5. SessionOK(collecting'.session)
    BY <2>2 DEF SessionOK, NewSession
  <2>6. RoomOK' /\ SessionsAnswer' /\ InHand'
    BY <2>2, <2>5 DEF RoomOK, SessionsAnswer, InHand, AfterSnapshot
  <2> QED BY <1>2, <2>3, <2>4, <2>6 DEF CollectionInv, RunInv
<1>4. CASE Current.adapter \notin Remote
  <2>1. PICK pin : pin = CASE Current.adapter = "github" -> GithubSnapshot(Upstream, Current)
                           [] Current.adapter = "arxiv" -> ArxivSnapshot(Current)
                           [] OTHER -> OfficialSnapshot(Upstream, Current)
    OBVIOUS
  <2>2. IF pin.fails THEN IngestFailed
        ELSE collecting' = [collecting EXCEPT !.phase = "fetch", !.pin = pin]
    BY <1>4, <2>1 DEF TakeSnapshot
  <2>3. CASE pin.fails
    <3>1. collecting.queue # << >> /\ IngestFailed
      BY <1>1, <2>2, <2>3
    <3>2. PICK run : run = Warned(collecting, <<"ingest_failed", Current.source>>)
      OBVIOUS
    <3>3. DOMAIN run = RunFields /\ SameRun(run, collecting) /\ run.queue = collecting.queue
      BY <1>1, <3>2, WarnedIs
    <3>4. collecting' = NextOffer(run)
      BY <3>1, <3>2 DEF IngestFailed, Skip
    <3>5. RunInv' /\ InHand'
      <4>1. collecting.phase # "idle"
        BY <1>1
      <4> QED BY <1>1, <3>3, <3>4, <4>1, LoopGoesOn
    <3> QED BY <1>2, <3>5 DEF CollectionInv
  <2>4. CASE ~pin.fails
    <3>1. collecting' = [collecting EXCEPT !.phase = "fetch", !.pin = pin]
      BY <2>2, <2>4
    <3>2. /\ DOMAIN collecting' = RunFields /\ SameRun(collecting', collecting)
          /\ collecting'.phase = "fetch" /\ collecting'.queue = collecting.queue
          /\ collecting'.session = collecting.session /\ collecting'.pin = pin
      BY <1>1, <3>1 DEF SameRun, RunFields
    <3>3. RunShape' /\ CountsOK' /\ BestOfEveryPage' /\ Upstream' = Upstream
      BY <1>1, <3>2, SameRunKeeps
    <3>4. pin.source = Current.source
      BY <2>1, <2>4, PinIsOfOffer
    <3>5. Current' = Current
      BY <3>2 DEF Current
    <3>6. OffersWait'
      BY <1>1, <3>2, <3>3, <3>4, <3>5 DEF RunInv, OffersWait, WithOffer, WithPin, AfterSnapshot
    <3>7. RoomOK' /\ SessionsAnswer' /\ InHand'
      BY <1>1, <3>2 DEF RunInv, RoomOK, SessionsAnswer, InHand, AfterSnapshot
    <3> QED BY <1>2, <3>3, <3>6, <3>7 DEF CollectionInv, RunInv
  <2> QED BY <2>3, <2>4
<1> QED BY <1>3, <1>4

\* A session stays with the answers to its own calls.
LEMMA PreparedOK == ASSUME NEW s, SessionOK(s) PROVE SessionOK(Prepared(s)) /\ Prepared(s).got = s.got
  BY DEF SessionOK, Prepared

LEMMA RepliedOK ==
    ASSUME NEW s, SessionOK(s), NEW kind, NEW id, NEW tools
    PROVE  SessionOK(Replied(s, [kind |-> kind, id |-> id], tools))
<1> DEFINE reply == [kind |-> kind, id |-> id]
           call == Head(s.calls)
           request == s.next_id
           after == [s EXCEPT !.calls = Tail(@),
                              !.next_id = IF call.method = "notify" THEN @ ELSE @ + 1]
           selected == IF reply.kind = "bare" THEN << >> ELSE SelectedTools(tools)
           Fields == {"calls", "next_id", "informed", "got", "fails"}
<1>1. CASE RefusesReply(call, request, reply)
  <2>1. Replied(s, reply, tools) = [s EXCEPT !.calls = << >>, !.fails = TRUE]
    BY <1>1 DEF Replied
  <2> QED BY <2>1 DEF SessionOK
<1>2. CASE ~RefusesReply(call, request, reply)
  <2>1. SessionOK(after)
    BY DEF SessionOK
  <2>2. CASE call.method = "notify"
    <3>1. Replied(s, reply, tools) = after
      BY <1>2, <2>2 DEF Replied
    <3> QED BY <2>1, <3>1
  <2>3. CASE call.method = "initialize"
    <3>1. Replied(s, reply, tools) = [after EXCEPT !.informed = (reply.kind # "bare")]
      BY <1>2, <2>3 DEF Replied
    <3> QED BY <2>1, <3>1 DEF SessionOK
  <2>4. CASE call.method = "list"
    <3>1. Replied(s, reply, tools) =
            [after EXCEPT !.calls = ToolCalls(selected),
                          !.fails = selected = << >> \/ \E i \in DOMAIN selected : ~selected[i].fits]
      BY <1>2, <2>4 DEF Replied
    <3> HIDE DEF after, selected
    <3> QED BY <2>1, <3>1 DEF SessionOK
  <2>5. CASE call.method \notin {"notify", "initialize", "list"}
    <3>1. id = request
      BY <1>2, <2>5 DEF RefusesReply
    <3> DEFINE got == [k \in DOMAIN after.got \cup {call.key} |->
                         IF k # call.key THEN after.got[k]
                         ELSE [asked |-> request, answered |-> reply.id, kind |-> reply.kind]]
    <3>2. Replied(s, reply, tools) =
            [after EXCEPT !.got = got, !.fails = call.key = "resolution" /\ reply.kind = "bare"]
      BY <1>2, <2>5 DEF Replied
    <3>3. \A k \in DOMAIN got : got[k].asked = got[k].answered
      BY <2>1, <3>1 DEF SessionOK
    <3> HIDE DEF after, got
    <3>4. PICK fails : fails = (call.key = "resolution" /\ reply.kind = "bare")
      OBVIOUS
    <3>5. PICK t : t = [after EXCEPT !.got = got, !.fails = fails]
      OBVIOUS
    <3>6. DOMAIN t = Fields /\ t.got = got
      BY <2>1, <3>5 DEF SessionOK
    <3> QED BY <3>2, <3>3, <3>4, <3>5, <3>6 DEF SessionOK
  <2> QED BY <2>2, <2>3, <2>4, <2>5
<1> QED BY <1>1, <1>2

LEMMA ExchangeOK == ASSUME CollectionInv, NEW kind, Exchange(kind) PROVE CollectionInv'
<1>1. /\ RunInv /\ collecting.phase = "session" /\ DOMAIN collecting = RunFields
      /\ SessionOK(collecting.session)
  BY DEF CollectionInv, RunInv, RunShape, SessionsAnswer, Exchange
<1>2. PICK s : s = Prepared(collecting.session)
  OBVIOUS
<1>3. PICK id : id = IF kind = "other_id" THEN s.next_id + 1 ELSE s.next_id
  OBVIOUS
<1>4. PICK next : next = IF Head(collecting.session.calls).method = "fresh" THEN s
                         ELSE Replied(s, [kind |-> kind, id |-> id], Upstream.tools)
  OBVIOUS
<1>5. collecting' = [collecting EXCEPT !.session = next]
  BY <1>2, <1>3, <1>4 DEF Exchange
<1>6. SessionOK(next)
  <2>1. SessionOK(s)
    BY <1>1, <1>2, PreparedOK
  <2>2. SessionOK(Replied(s, [kind |-> kind, id |-> id], Upstream.tools))
    BY <2>1, RepliedOK
  <2> QED BY <1>4, <2>1, <2>2
<1>7. /\ DOMAIN collecting' = RunFields /\ SameRun(collecting', collecting)
      /\ collecting'.phase = "session" /\ collecting'.queue = collecting.queue
      /\ collecting'.session = next
  BY <1>1, <1>5 DEF SameRun, RunFields
<1>8. RunShape' /\ CountsOK' /\ BestOfEveryPage' /\ Upstream' = Upstream
  BY <1>1, <1>7, SameRunKeeps
<1>9. OffersWait'
  BY <1>1, <1>7, <1>8 DEF RunInv, OffersWait, WithOffer, WithPin, AfterSnapshot
<1>10. RoomOK' /\ SessionsAnswer' /\ InHand'
  BY <1>6, <1>7 DEF RoomOK, SessionsAnswer, InHand, AfterSnapshot
<1>11. ShelfInv'
  BY ShelfStays DEF CollectionInv, Exchange
<1> QED BY <1>8, <1>9, <1>10, <1>11 DEF CollectionInv, RunInv

LEMMA SessionEndsOK == ASSUME CollectionInv, SessionEnds PROVE CollectionInv'
<1>1. RunInv /\ collecting.phase = "session" /\ DOMAIN collecting = RunFields
  BY DEF CollectionInv, RunInv, RunShape, SessionEnds
<1>2. ShelfInv'
  BY ShelfStays DEF CollectionInv, SessionEnds
<1>3. CASE collecting.session.fails
  <2>1. IngestFailed
    BY <1>3 DEF SessionEnds
  <2>2. collecting.phase # "idle" /\ collecting.queue # << >>
    BY <1>1, OfferUnderWay DEF WithOffer
  <2>3. RunInv' /\ InHand'
    BY <1>1, <2>1, <2>2, SkipGoesOn DEF IngestFailed
  <2> QED BY <1>2, <2>3 DEF CollectionInv
<1>4. CASE ~collecting.session.fails
  <2>1. PICK pin : pin = RemoteSnapshot(Current, collecting.session.got)
    OBVIOUS
  <2>2. collecting' = [collecting EXCEPT !.phase = "fetch", !.pin = pin]
    BY <1>4, <2>1 DEF SessionEnds
  <2>3. /\ DOMAIN collecting' = RunFields /\ SameRun(collecting', collecting)
        /\ collecting'.phase = "fetch" /\ collecting'.queue = collecting.queue
        /\ collecting'.session = collecting.session /\ collecting'.pin = pin
    BY <1>1, <2>2 DEF SameRun, RunFields
  <2>4. RunShape' /\ CountsOK' /\ BestOfEveryPage' /\ Upstream' = Upstream
    BY <1>1, <2>3, SameRunKeeps
  <2>5. pin.source = Current.source
    BY <2>1, PinIsOfOffer
  <2>6. Current' = Current
    BY <2>3 DEF Current
  <2>7. OffersWait'
    BY <1>1, <2>3, <2>4, <2>5, <2>6 DEF RunInv, OffersWait, WithOffer, WithPin, AfterSnapshot
  <2>8. RoomOK' /\ SessionsAnswer' /\ InHand'
    BY <1>1, <2>3 DEF RunInv, RoomOK, SessionsAnswer, InHand, AfterSnapshot
  <2> QED BY <1>2, <2>4, <2>7, <2>8 DEF CollectionInv, RunInv
<1> QED BY <1>3, <1>4

LEMMA TimeoutOK == ASSUME CollectionInv, IngestTimesOut PROVE CollectionInv'
<1>1. RunInv /\ collecting.phase \in WithOffer /\ IngestFailed
  BY DEF CollectionInv, IngestTimesOut, WithOffer, WithPin
<1>4. collecting.phase # "idle" /\ collecting.queue # << >>
  BY <1>1, OfferUnderWay
<1>2. RunInv' /\ InHand'
  BY <1>1, <1>4, SkipGoesOn DEF IngestFailed
<1>3. ShelfInv'
  BY ShelfStays DEF CollectionInv, IngestTimesOut
<1> QED BY <1>2, <1>3 DEF CollectionInv

LEMMA CurrentOK ==
    ASSUME RunInv, collecting.phase \in WithOffer
    PROVE  OfferOK(Current, Upstream) /\ WorldOK(Upstream)
<1>1. collecting.phase # "idle" /\ collecting.queue # << >>
  BY OfferUnderWay
<1>2. OffersOK(collecting.queue, Upstream)
  BY <1>1 DEF RunInv, OffersWait
<1>3. Head(collecting.queue) \in ToSet(collecting.queue)
  BY <1>1, <1>2, TailListing DEF OffersOK
<1>4. RunShape
  BY DEF RunInv
<1> QED BY <1>1, <1>2, <1>3, <1>4, AskedOK DEF OffersOK, Current

LEMMA FetchedOK ==
    ASSUME RunInv, collecting.phase \in WithOffer, DocumentsFetched # Absent
    PROVE  /\ DocumentsOK(DocumentsFetched, collecting.pin.id, FALSE)
           /\ Current.type = "repository" => DocumentsOK(DocumentsFetched, collecting.pin.id, TRUE)
<1>1. OfferOK(Current, Upstream) /\ WorldOK(Upstream)
  BY CurrentOK
<1>2. CASE Current.adapter = "github"
  <2>1. DocumentsFetched = GithubDocuments(Upstream, Current, collecting.pin.id)
    BY <1>2 DEF DocumentsFetched
  <2>2. DocumentsOK(DocumentsFetched, collecting.pin.id, TRUE)
    BY <1>1, <1>2, <2>1, GithubDocumentsOK
  <2> QED BY <2>2 DEF DocumentsOK
<1>3. CASE Current.adapter # "github"
  <2>1. Current.type # "repository"
    BY <1>1, <1>3 DEF OfferOK
  <2>2. CASE Current.adapter = "arxiv"
    BY <2>1, <2>2, SingleDocumentsOK DEF DocumentsFetched
  <2>3. CASE Current.adapter = "official_docs"
    BY <2>1, <2>3, SingleDocumentsOK DEF DocumentsFetched
  <2>4. CASE Current.adapter \in Remote
    <3>1. DocumentsFetched = RemoteDocuments(Current, collecting.pin.id, collecting.session.got)
      BY <2>4 DEF DocumentsFetched, Remote
    <3>2. DocumentsOK(DocumentsFetched, collecting.pin.id, FALSE)
      BY <2>4, <3>1, RemoteDocumentsOK
    <3> QED BY <2>1, <3>2
  <2> QED BY <1>1, <1>3, <2>2, <2>3, <2>4 DEF OfferOK
<1> QED BY <1>2, <1>3

LEMMA WithinLimitsOK ==
    ASSUME NEW docs, Listing(docs), NEW kept, kept = WithinLimits(collecting, docs)
    PROVE  /\ Listing(kept) /\ ToSet(kept) \subseteq ToSet(docs)
           /\ kept # << >> =>
                /\ Len(kept) \in Nat \ {0}
                /\ collecting.documents + Len(kept) <= MaxTotalDocuments
                /\ collecting.bytes + BytesOf(kept) <= MaxTotalBytes
                /\ collecting.tokens + TokensIn(kept) <= Asked.token_budget
<1> DEFINE fitting == {n \in DOMAIN docs :
                         /\ collecting.documents + n <= MaxTotalDocuments
                         /\ collecting.bytes + BytesOf(SubSeq(docs, 1, n)) <= MaxTotalBytes
                         /\ collecting.tokens + TokensIn(SubSeq(docs, 1, n)) <= Asked.token_budget}
<1>1. kept = UpTo(docs, fitting)
  BY DEF WithinLimits
<1>2. \A n \in fitting : /\ collecting.documents + n <= MaxTotalDocuments
                         /\ collecting.bytes + BytesOf(SubSeq(docs, 1, n)) <= MaxTotalBytes
                         /\ collecting.tokens + TokensIn(SubSeq(docs, 1, n)) <= Asked.token_budget
  OBVIOUS
<1> HIDE DEF fitting
<1>3. Listing(kept)
  BY <1>1, UpToOK
<1>4. ToSet(kept) \subseteq ToSet(docs)
  BY <1>1, UpToOK
<1>5. kept = SubSeq(docs, 1, Len(kept))
  BY <1>1, UpToOK
<1>6. kept # << >> => Len(kept) \in fitting /\ Len(kept) \in Nat \ {0}
  BY <1>1, UpToOK
<1>7. ASSUME kept # << >>
      PROVE  /\ collecting.documents + Len(kept) <= MaxTotalDocuments
             /\ collecting.bytes + BytesOf(kept) <= MaxTotalBytes
             /\ collecting.tokens + TokensIn(kept) <= Asked.token_budget
  <2>1. PICK n : n = Len(kept)
    OBVIOUS
  <2>2. n \in fitting /\ kept = SubSeq(docs, 1, n)
    BY <1>5, <1>6, <1>7, <2>1
  <2>3. /\ collecting.documents + n <= MaxTotalDocuments
        /\ collecting.bytes + BytesOf(kept) <= MaxTotalBytes
        /\ collecting.tokens + TokensIn(kept) <= Asked.token_budget
    BY <1>2, <2>2
  <2> QED BY <2>1, <2>3
<1> QED BY <1>3, <1>4, <1>6, <1>7

LEMMA FetchOK == ASSUME CollectionInv, Fetch PROVE CollectionInv'
<1>1. /\ RunInv /\ collecting.phase = "fetch" /\ DOMAIN collecting = RunFields
      /\ collecting.phase # "idle" /\ collecting.queue # << >>
  BY OfferUnderWay DEF CollectionInv, RunInv, RunShape, Fetch, WithOffer, WithPin
<1>2. ShelfInv'
  BY ShelfStays DEF CollectionInv, Fetch
<1>3. PICK docs : docs = DocumentsFetched
  OBVIOUS
<1>4. PICK kept : kept = WithinLimits(collecting, docs)
  OBVIOUS
<1>5. PICK run : run = IF Len(kept) < Len(docs) THEN Warned(collecting, <<"exhausted", "">>)
                       ELSE collecting
  OBVIOUS
<1>6. IF docs = Absent THEN IngestFailed
      ELSE IF kept = << >> THEN collecting' = NextOffer(Warned(run, <<"empty", Current.source>>))
      ELSE collecting' = [run EXCEPT !.phase = "source", !.batch = kept]
  BY <1>3, <1>4, <1>5 DEF Fetch, TakeDocuments
<1>7. /\ DOMAIN run = RunFields /\ SameRun(run, collecting) /\ run.queue = collecting.queue
      /\ run.session = collecting.session /\ run.pin = collecting.pin
  <2>1. PICK w : w = Warned(collecting, <<"exhausted", "">>)
    OBVIOUS
  <2>2. /\ DOMAIN w = RunFields /\ SameRun(w, collecting) /\ w.queue = collecting.queue
        /\ w.session = collecting.session /\ w.pin = collecting.pin
    BY <1>1, <2>1, WarnedIs
  <2>3. SameRun(collecting, collecting)
    BY DEF SameRun
  <2>4. run = w \/ run = collecting
    BY <1>5, <2>1
  <2> QED BY <1>1, <2>2, <2>3, <2>4
<1>8. CASE docs = Absent
  <2>1. RunInv' /\ InHand'
    BY <1>1, <1>6, <1>8, SkipGoesOn DEF IngestFailed
  <2> QED BY <1>2, <2>1 DEF CollectionInv
<1>9. CASE docs # Absent /\ kept = << >>
  <2>1. PICK next : next = Warned(run, <<"empty", Current.source>>)
    OBVIOUS
  <2>2. DOMAIN next = RunFields /\ SameRun(next, run) /\ next.queue = run.queue
    BY <1>7, <2>1, WarnedIs
  <2>3. SameRun(next, collecting) /\ next.queue = collecting.queue
    BY <1>7, <2>2 DEF SameRun
  <2>4. collecting' = NextOffer(next)
    BY <1>6, <1>9, <2>1
  <2>5. RunInv' /\ InHand'
    BY <1>1, <2>2, <2>3, <2>4, LoopGoesOn
  <2> QED BY <1>2, <2>5 DEF CollectionInv
<1>10. CASE docs # Absent /\ kept # << >>
  <2>1. collecting' = [run EXCEPT !.phase = "source", !.batch = kept]
    BY <1>6, <1>10
  <2>2. /\ DOMAIN collecting' = RunFields /\ SameRun(collecting', collecting)
        /\ collecting'.phase = "source" /\ collecting'.queue = collecting.queue
        /\ collecting'.session = collecting.session /\ collecting'.pin = collecting.pin
        /\ collecting'.batch = kept
    BY <1>7, <2>1 DEF SameRun, RunFields
  <2>3. RunShape' /\ CountsOK' /\ BestOfEveryPage' /\ Asked' = Asked /\ Upstream' = Upstream
    BY <1>1, <2>2, SameRunKeeps
  <2>4. Current' = Current
    BY <2>2 DEF Current
  <2>5. OffersWait'
    BY <1>1, <2>2, <2>3, <2>4 DEF RunInv, OffersWait, WithOffer, WithPin, AfterSnapshot
  <2>6. collecting.phase \in WithOffer
    BY <1>1 DEF WithOffer, WithPin
  <2>7. DocumentsOK(docs, collecting.pin.id, FALSE)
    BY <1>1, <1>3, <1>10, <2>6, FetchedOK
  <2>8. Current.type = "repository" => DocumentsOK(docs, collecting.pin.id, TRUE)
    BY <1>1, <1>3, <1>10, <2>6, FetchedOK
  <2>9. Listing(docs)
    BY <2>7 DEF DocumentsOK
  <2>10. Listing(kept) /\ ToSet(kept) \subseteq ToSet(docs)
    BY <1>4, <2>9, WithinLimitsOK
  <2>11. /\ Len(kept) \in Nat \ {0}
         /\ collecting.documents + Len(kept) <= MaxTotalDocuments
         /\ collecting.bytes + BytesOf(kept) <= MaxTotalBytes
         /\ collecting.tokens + TokensIn(kept) <= Asked.token_budget
    <3>1. kept # << >> =>
             /\ Len(kept) \in Nat \ {0}
             /\ collecting.documents + Len(kept) <= MaxTotalDocuments
             /\ collecting.bytes + BytesOf(kept) <= MaxTotalBytes
             /\ collecting.tokens + TokensIn(kept) <= Asked.token_budget
      BY <1>4, <2>9, WithinLimitsOK
    <3> QED BY <1>10, <3>1
  <2>12. RoomOK'
    BY <2>2, <2>3, <2>11 DEF RoomOK, SameRun
  <2>13. DocumentsOK(kept, collecting.pin.id, Current.type = "repository")
    BY <2>7, <2>8, <2>10 DEF DocumentsOK
  <2>14. InHand'
    BY <2>2, <2>4, <2>13 DEF InHand, AfterSnapshot
  <2>15. SessionsAnswer'
    BY <1>1, <2>2 DEF RunInv, SessionsAnswer
  <2> QED BY <1>2, <2>3, <2>5, <2>12, <2>14, <2>15 DEF CollectionInv, RunInv
<1> QED BY <1>8, <1>9, <1>10

\* A step of the run that leaves all but its phase and what it has in hand.
LEMMA PhaseGoesOn ==
    ASSUME RunInv, collecting.phase # "idle", DOMAIN collecting' = RunFields,
           SameRun(collecting', collecting), collecting'.queue = collecting.queue,
           collecting'.session = collecting.session, collecting'.pin = collecting.pin,
           collecting'.phase \notin {"idle", "session", "source", "snapshot"},
           collecting'.phase \in WithOffer => collecting.phase \in WithPin,
           collecting'.phase = "wiki" => Current.type = "repository"
    PROVE  RunInv' /\ Current' = Current
<1>1. RunShape' /\ CountsOK' /\ BestOfEveryPage' /\ Upstream' = Upstream
  BY SameRunKeeps
<1>2. Current' = Current
  BY DEF Current
<1>3. OffersWait'
  BY <1>1, <1>2 DEF RunInv, OffersWait, WithOffer, WithPin, AfterSnapshot
<1>4. RoomOK' /\ SessionsAnswer'
  BY DEF RunInv, RoomOK, SessionsAnswer
<1> QED BY <1>1, <1>2, <1>3, <1>4 DEF RunInv

LEMMA WriteSourceOK == ASSUME CollectionInv, WriteSource PROVE CollectionInv'
<1>1. /\ RunInv /\ InHand /\ ShelfInv /\ collecting.phase = "source" /\ DOMAIN collecting = RunFields
      /\ DOMAIN shelf = ShelfFields
  BY DEF CollectionInv, RunInv, RunShape, ShelfInv, WriteSource
<1>2. /\ DOMAIN collecting' = RunFields /\ SameRun(collecting', collecting)
      /\ collecting'.phase = "snapshot" /\ collecting'.queue = collecting.queue
      /\ collecting'.session = collecting.session /\ collecting'.pin = collecting.pin
      /\ collecting'.batch = collecting.batch
  BY <1>1 DEF WriteSource, To, SameRun, RunFields
<1>3. RunShape' /\ CountsOK' /\ BestOfEveryPage' /\ Asked' = Asked /\ Upstream' = Upstream
  BY <1>1, <1>2, SameRunKeeps
<1>4. Current' = Current
  BY <1>2 DEF Current
<1>5. OffersWait'
  BY <1>1, <1>2, <1>3, <1>4 DEF RunInv, OffersWait, WithOffer, WithPin, AfterSnapshot
<1>6. RoomOK' /\ SessionsAnswer'
  BY <1>1, <1>2, <1>3 DEF RunInv, RoomOK, SessionsAnswer, SameRun
<1>7. PICK latest : latest = [s \in DOMAIN shelf.latest \cup {Current.source} |->
                                IF s = Current.source THEN collecting.pin.id ELSE shelf.latest[s]]
  OBVIOUS
<1>8. shelf' = [shelf EXCEPT !.latest = latest]
  BY <1>7 DEF WriteSource
<1>9. /\ DOMAIN shelf' = ShelfFields /\ shelf'.latest = latest
      /\ shelf'.snapshots = shelf.snapshots /\ shelf'.documents = shelf.documents
      /\ shelf'.evidence = shelf.evidence /\ shelf'.components = shelf.components
      /\ shelf'.pages = shelf.pages /\ shelf'.cards = shelf.cards /\ shelf'.units = shelf.units
      /\ shelf'.relations = shelf.relations /\ shelf'.claims = shelf.claims
  BY <1>1, <1>8 DEF ShelfFields
<1>10. DOMAIN latest = DOMAIN shelf.latest \cup {Current.source}
  BY <1>7
<1>11. PinnedOf(shelf')
  <2>1. PinnedOf(shelf)
    BY <1>1, PinnedIs DEF ShelfInv
  <2>2. IdsOf(shelf') = IdsOf(shelf) /\ \A e : BackedIn(e, shelf') <=> BackedIn(e, shelf)
    BY <1>9 DEF IdsOf, BackedIn
  <2> QED BY <1>9, <1>10, <2>1, <2>2 DEF PinnedOf
<1>12. ShelfInv'
  BY <1>1, <1>9, <1>11, PinnedIs DEF ShelfInv, ClaimsAreRows
<1>13. InHand'
  BY <1>1, <1>2, <1>4, <1>9, <1>10 DEF InHand, AfterSnapshot
<1> QED BY <1>3, <1>5, <1>6, <1>12, <1>13 DEF CollectionInv, RunInv

LEMMA WriteSnapshotOK == ASSUME CollectionInv, WriteSnapshot PROVE CollectionInv'
<1>1. /\ RunInv /\ InHand /\ ShelfInv /\ collecting.phase = "snapshot" /\ DOMAIN collecting = RunFields
      /\ DOMAIN shelf = ShelfFields
  BY DEF CollectionInv, RunInv, RunShape, ShelfInv, WriteSnapshot
<1>2. PICK pin : pin = collecting.pin
  OBVIOUS
<1>3. CASE Refused(pin)
  <2>1. collecting' = [collecting EXCEPT !.phase = "failed"] /\ UNCHANGED shelf
    BY <1>2, <1>3 DEF WriteSnapshot, To
  <2>2. /\ DOMAIN collecting' = RunFields /\ SameRun(collecting', collecting)
        /\ collecting'.phase = "failed" /\ collecting'.queue = collecting.queue
        /\ collecting'.session = collecting.session /\ collecting'.pin = collecting.pin
    BY <1>1, <2>1 DEF SameRun, RunFields
  <2>3. RunInv'
    BY <1>1, <2>2, PhaseGoesOn DEF WithOffer, WithPin, AfterSnapshot
  <2>4. InHand'
    BY <2>2 DEF InHand, AfterSnapshot
  <2>5. ShelfInv'
    BY <1>1, <2>1, ShelfStays
  <2> QED BY <2>3, <2>4, <2>5 DEF CollectionInv
<1>4. CASE ~Refused(pin)
  <2>1. PICK row : row = [id |-> pin.id, source |-> pin.source, version |-> pin.version,
                          fetched |-> runs_made]
    OBVIOUS
  <2>2. shelf' = [shelf EXCEPT !.snapshots = @ \cup {row}]
    BY <1>2, <1>4, <2>1 DEF WriteSnapshot
  <2>3. PICK next : next = IF Current.type = "repository" THEN "wiki" ELSE "documents"
    OBVIOUS
  <2>4. collecting' = [collecting EXCEPT !.phase = next,
                         !.sources = Append(@, Current.source),
                         !.documents = @ + Len(collecting.batch),
                         !.bytes = @ + BytesOf(collecting.batch),
                         !.tokens = @ + TokensIn(collecting.batch)]
    BY <1>2, <1>4, <2>3 DEF WriteSnapshot
  <2>5. /\ DOMAIN collecting' = RunFields /\ collecting'.phase = next
        /\ collecting'.queue = collecting.queue /\ collecting'.session = collecting.session
        /\ collecting'.pin = collecting.pin /\ collecting'.batch = collecting.batch
        /\ collecting'.request = collecting.request /\ collecting'.world = collecting.world
        /\ collecting'.discovered = collecting.discovered
        /\ collecting'.qualified = collecting.qualified
        /\ collecting'.sources = Append(collecting.sources, Current.source)
        /\ collecting'.documents = collecting.documents + Len(collecting.batch)
        /\ collecting'.bytes = collecting.bytes + BytesOf(collecting.batch)
        /\ collecting'.tokens = collecting.tokens + TokensIn(collecting.batch)
    BY <1>1, <2>4 DEF RunFields
  <2>6. Asked' = Asked /\ Upstream' = Upstream /\ Current' = Current
    BY <2>5 DEF Asked, Upstream, Current
  <2>7. next \in {"wiki", "documents"} /\ (next = "wiki" <=> Current.type = "repository")
    BY <2>3
  <2>8. RunShape'
    BY <1>1, <2>5 DEF RunInv, RunShape
  <2>9. CountsOK'
    <3>1. /\ Len(collecting.batch) \in Nat \ {0}
          /\ collecting.documents + Len(collecting.batch) <= MaxTotalDocuments
          /\ collecting.bytes + BytesOf(collecting.batch) <= MaxTotalBytes
          /\ collecting.tokens + TokensIn(collecting.batch) <= Asked.token_budget
      BY <1>1 DEF RunInv, RoomOK
    <3>2. /\ collecting.documents \in Nat /\ Listing(collecting.sources)
          /\ Len(collecting.sources) <= collecting.documents
          /\ Len(collecting.qualified) <= Asked.max_sources
      BY <1>1 DEF RunInv, CountsOK
    <3>3. Len(collecting.sources) \in Nat
      BY <3>2, ListingIs
    <3>4. /\ Listing(Append(collecting.sources, Current.source))
          /\ Len(Append(collecting.sources, Current.source)) = Len(collecting.sources) + 1
      BY <3>2, AppendListing
    <3>5. /\ collecting'.documents \in Nat
          /\ Len(collecting.sources) + 1 <= collecting.documents + Len(collecting.batch)
      BY <2>5, <3>1, <3>2, <3>3
    <3> QED BY <2>5, <2>6, <3>1, <3>2, <3>4, <3>5 DEF CountsOK
  <2>10. BestOfEveryPage'
    BY <1>1, <2>5, <2>6 DEF RunInv, BestOfEveryPage
  <2>11. RoomOK' /\ SessionsAnswer'
    BY <1>1, <2>5, <2>7 DEF RunInv, RoomOK, SessionsAnswer
  <2>12. OffersWait'
    BY <1>1, <2>5, <2>6, <2>7 DEF RunInv, OffersWait, WithOffer, WithPin, AfterSnapshot
  <2>13. /\ DOMAIN shelf' = ShelfFields /\ shelf'.snapshots = shelf.snapshots \cup {row}
         /\ shelf'.latest = shelf.latest /\ shelf'.documents = shelf.documents
         /\ shelf'.evidence = shelf.evidence /\ shelf'.components = shelf.components
         /\ shelf'.pages = shelf.pages /\ shelf'.cards = shelf.cards /\ shelf'.units = shelf.units
         /\ shelf'.relations = shelf.relations /\ shelf'.claims = shelf.claims
    BY <1>1, <2>2 DEF ShelfFields
  <2>14. row.id = pin.id /\ row.source = pin.source
    BY <2>1
  <2>15. IdsOf(shelf') = IdsOf(shelf) \cup {pin.id} /\ \A e : BackedIn(e, shelf') <=> BackedIn(e, shelf)
    BY <2>13, <2>14 DEF IdsOf, BackedIn
  <2>16. row.source \in DOMAIN shelf.latest
    <3>1. pin.source = Current.source
      BY <1>1, <1>2 DEF RunInv, OffersWait, WithPin
    <3>2. Current.source \in DOMAIN shelf.latest
      BY <1>1 DEF InHand
    <3> QED BY <2>14, <3>1, <3>2
  <2>17. PinnedOf(shelf')
    <3>1. PinnedOf(shelf)
      BY <1>1, PinnedIs DEF ShelfInv
    <3> QED BY <2>13, <2>15, <2>16, <3>1 DEF PinnedOf
  <2>18. ShelfInv'
    BY <1>1, <2>13, <2>17, PinnedIs DEF ShelfInv, ClaimsAreRows
  <2>19. collecting'.pin.id \in SnapshotIds'
    BY <1>2, <2>5, <2>15 DEF SnapshotIds
  <2>20. DocumentsOK(collecting.batch, collecting.pin.id, Current.type = "repository")
    BY <1>1 DEF InHand
  <2>21. /\ Current.type = "repository" => DocumentsOK(collecting.batch, collecting.pin.id, TRUE)
         /\ DocumentsOK(collecting.batch, collecting.pin.id, FALSE)
    BY <2>20 DEF DocumentsOK
  <2>22. InHand'
    BY <2>5, <2>7, <2>19, <2>21 DEF InHand, AfterSnapshot
  <2> QED BY <2>8, <2>9, <2>10, <2>11, <2>12, <2>18, <2>22 DEF CollectionInv, RunInv
<1> QED BY <1>3, <1>4

LEMMA WriteDocumentOK == ASSUME CollectionInv, WriteDocument PROVE CollectionInv'
<1>1. /\ RunInv /\ InHand /\ ShelfInv /\ collecting.phase = "documents"
      /\ DOMAIN collecting = RunFields /\ DOMAIN shelf = ShelfFields
      /\ collecting.phase # "idle" /\ collecting.queue # << >>
  BY OfferUnderWay DEF CollectionInv, RunInv, RunShape, ShelfInv, WriteDocument, WithOffer, WithPin,
                       AfterSnapshot
<1>2. CASE collecting.batch = << >>
  <2>1. collecting' = NextOffer(collecting) /\ UNCHANGED shelf
    BY <1>2 DEF WriteDocument
  <2>2. SameRun(collecting, collecting)
    BY DEF SameRun
  <2>3. RunInv' /\ InHand'
    BY <1>1, <2>1, <2>2, LoopGoesOn
  <2>4. ShelfInv'
    BY <1>1, <2>1, ShelfStays
  <2> QED BY <2>3, <2>4 DEF CollectionInv
<1>3. CASE collecting.batch # << >>
  <2>1. PICK doc : doc = Head(collecting.batch)
    OBVIOUS
  <2>2. /\ shelf' = [shelf EXCEPT !.documents = @ \cup {doc}]
        /\ collecting' = [collecting EXCEPT !.batch = Tail(@)]
    BY <1>3, <2>1 DEF WriteDocument
  <2>3. /\ DOMAIN collecting' = RunFields /\ SameRun(collecting', collecting)
        /\ collecting'.phase = "documents" /\ collecting'.queue = collecting.queue
        /\ collecting'.session = collecting.session /\ collecting'.pin = collecting.pin
        /\ collecting'.batch = Tail(collecting.batch)
    BY <1>1, <2>2 DEF SameRun, RunFields
  <2>4. RunInv'
    BY <1>1, <2>3, PhaseGoesOn DEF WithPin, AfterSnapshot
  <2>5. /\ DOMAIN shelf' = ShelfFields /\ shelf'.documents = shelf.documents \cup {doc}
        /\ shelf'.latest = shelf.latest /\ shelf'.snapshots = shelf.snapshots
        /\ shelf'.evidence = shelf.evidence /\ shelf'.components = shelf.components
        /\ shelf'.pages = shelf.pages /\ shelf'.cards = shelf.cards /\ shelf'.units = shelf.units
        /\ shelf'.relations = shelf.relations /\ shelf'.claims = shelf.claims
    BY <1>1, <2>2 DEF ShelfFields
  <2>6. /\ DocumentsOK(collecting.batch, collecting.pin.id, FALSE)
        /\ collecting.pin.id \in IdsOf(shelf)
    BY <1>1 DEF InHand, AfterSnapshot, SnapshotIds
  <2>7. Listing(collecting.batch) /\ \A d \in ToSet(collecting.batch) : d.snapshot = collecting.pin.id
    BY <2>6 DEF DocumentsOK
  <2>8. /\ Listing(Tail(collecting.batch)) /\ ToSet(Tail(collecting.batch)) \subseteq ToSet(collecting.batch)
        /\ doc \in ToSet(collecting.batch)
    BY <1>3, <2>1, <2>7, TailListing
  <2>9. IdsOf(shelf') = IdsOf(shelf) /\ \A e : BackedIn(e, shelf) => BackedIn(e, shelf')
    BY <2>5 DEF IdsOf, BackedIn
  <2>10. PinnedOf(shelf')
    <3>1. PinnedOf(shelf)
      BY <1>1, PinnedIs DEF ShelfInv
    <3>2. doc.snapshot \in IdsOf(shelf)
      BY <2>6, <2>7, <2>8
    <3> QED BY <2>5, <2>9, <3>1, <3>2 DEF PinnedOf
  <2>11. ShelfInv'
    BY <1>1, <2>5, <2>10, PinnedIs DEF ShelfInv, ClaimsAreRows
  <2>12. DocumentsOK(Tail(collecting.batch), collecting.pin.id, FALSE)
    BY <2>7, <2>8 DEF DocumentsOK
  <2>13. InHand'
    BY <2>3, <2>6, <2>9, <2>12 DEF InHand, AfterSnapshot, SnapshotIds
  <2> QED BY <2>4, <2>11, <2>13 DEF CollectionInv
<1> QED BY <1>2, <1>3

LEMMA WriteWikiOK == ASSUME CollectionInv, WriteWiki PROVE CollectionInv'
<1>1. /\ RunInv /\ InHand /\ ShelfInv /\ collecting.phase = "wiki"
      /\ DOMAIN collecting = RunFields /\ DOMAIN shelf = ShelfFields
  BY DEF CollectionInv, RunInv, RunShape, ShelfInv, WriteWiki
<1>2. PICK source : source = [page |-> Current.page]
  OBVIOUS
<1>3. PICK wiki : wiki = Compiled(source, collecting.pin.id, collecting.batch, << >>)
  OBVIOUS
<1>4. PICK id : id = collecting.pin.id
  OBVIOUS
<1>5. IF wiki.raises THEN To("failed") /\ UNCHANGED shelf
      ELSE /\ shelf' = [shelf EXCEPT !.documents = @ \cup wiki.documents, !.evidence = @ \cup wiki.evidence,
                          !.components = @ \cup wiki.components, !.pages = @ \cup wiki.pages,
                          !.cards = {c \in @ : c.project # wiki.card.project} \cup {wiki.card}]
           /\ collecting' = [collecting EXCEPT !.phase = "units", !.wiki = wiki]
  BY <1>2, <1>3 DEF WriteWiki, StoreWiki
<1>6. CASE wiki.raises
  <2>1. collecting' = [collecting EXCEPT !.phase = "failed"] /\ UNCHANGED shelf
    BY <1>5, <1>6 DEF To
  <2>2. /\ DOMAIN collecting' = RunFields /\ SameRun(collecting', collecting)
        /\ collecting'.phase = "failed" /\ collecting'.queue = collecting.queue
        /\ collecting'.session = collecting.session /\ collecting'.pin = collecting.pin
    BY <1>1, <2>1 DEF SameRun, RunFields
  <2>3. RunInv'
    BY <1>1, <2>2, PhaseGoesOn DEF WithOffer, WithPin, AfterSnapshot
  <2>4. InHand'
    BY <2>2 DEF InHand, AfterSnapshot
  <2>5. ShelfInv'
    BY <1>1, <2>1, ShelfStays
  <2> QED BY <2>3, <2>4, <2>5 DEF CollectionInv
<1>7. CASE ~wiki.raises
  <2>1. /\ shelf' = [shelf EXCEPT !.documents = @ \cup wiki.documents, !.evidence = @ \cup wiki.evidence,
                       !.components = @ \cup wiki.components, !.pages = @ \cup wiki.pages,
                       !.cards = {c \in @ : c.project # wiki.card.project} \cup {wiki.card}]
        /\ collecting' = [collecting EXCEPT !.phase = "units", !.wiki = wiki]
    BY <1>5, <1>7
  <2>2. /\ DOMAIN collecting' = RunFields /\ SameRun(collecting', collecting)
        /\ collecting'.phase = "units" /\ collecting'.queue = collecting.queue
        /\ collecting'.session = collecting.session /\ collecting'.pin = collecting.pin
        /\ collecting'.wiki = wiki
    BY <1>1, <2>1 DEF SameRun, RunFields
  <2>3. RunInv'
    BY <1>1, <2>2, PhaseGoesOn DEF WithPin, AfterSnapshot
  <2>4. WikiOK(wiki, id)
    <3>1. DocumentsOK(collecting.batch, id, TRUE)
      BY <1>1, <1>4 DEF InHand
    <3> QED BY <1>3, <1>4, <1>7, <3>1, CompiledOK
  <2>5. /\ DOMAIN shelf' = ShelfFields
        /\ shelf'.latest = shelf.latest /\ shelf'.snapshots = shelf.snapshots
        /\ shelf'.documents = shelf.documents \cup wiki.documents
        /\ shelf'.evidence = shelf.evidence \cup wiki.evidence
        /\ shelf'.components = shelf.components \cup wiki.components
        /\ shelf'.pages = shelf.pages \cup wiki.pages
        /\ shelf'.cards = {c \in shelf.cards : c.project # wiki.card.project} \cup {wiki.card}
        /\ shelf'.units = shelf.units /\ shelf'.relations = shelf.relations
        /\ shelf'.claims = shelf.claims
    BY <1>1, <2>1 DEF ShelfFields
  <2>6. id \in IdsOf(shelf)
    BY <1>1, <1>4 DEF InHand, AfterSnapshot, SnapshotIds
  <2>7. IdsOf(shelf') = IdsOf(shelf) /\ \A e : BackedIn(e, shelf) => BackedIn(e, shelf')
    BY <2>5 DEF IdsOf, BackedIn
  <2>8. PinnedOf(shelf')
    <3>1. PinnedOf(shelf)
      BY <1>1, PinnedIs DEF ShelfInv
    <3>2. \A e \in wiki.evidence : BackedIn(e, shelf')
      BY <2>4, <2>5 DEF WikiOK, EvidenceOK, BackedIn
    <3>3. \A s \in shelf'.snapshots : s.source \in DOMAIN shelf'.latest
      BY <2>5, <3>1 DEF PinnedOf
    <3>4. \A d \in shelf'.documents : d.snapshot \in IdsOf(shelf')
      BY <2>4, <2>5, <2>6, <2>7, <3>1 DEF PinnedOf, WikiOK
    <3>5. \A e \in shelf'.evidence : BackedIn(e, shelf')
      BY <2>5, <2>7, <3>1, <3>2 DEF PinnedOf
    <3>6. \A r \in shelf'.pages \cup shelf'.components : r.snapshot \in IdsOf(shelf')
      BY <2>4, <2>5, <2>6, <2>7, <3>1 DEF PinnedOf, WikiOK
    <3>7. \A p \in shelf'.pages : p.evidence # {} /\ p.evidence \subseteq shelf'.evidence
      BY <2>4, <2>5, <3>1 DEF PinnedOf, WikiOK
    <3>8. \A c \in shelf'.cards : c.snapshot \in IdsOf(shelf') /\ c.cites \subseteq shelf'.evidence
      BY <2>4, <2>5, <2>6, <2>7, <3>1 DEF PinnedOf, WikiOK
    <3>9. \A u \in shelf'.units : \E p \in shelf'.pages : u.evidence = p.evidence /\ u.snapshot = p.snapshot
      BY <2>5, <3>1 DEF PinnedOf
    <3>10. \A r \in shelf'.relations : \E c \in shelf'.cards : c.project = r[3]
      <4> TAKE r \in shelf'.relations
      <4>1. PICK c \in shelf.cards : c.project = r[3]
        BY <2>5, <3>1 DEF PinnedOf
      <4>2. CASE c.project = wiki.card.project
        BY <2>5, <4>1, <4>2
      <4>3. CASE c.project # wiki.card.project
        BY <2>5, <4>1, <4>3
      <4> QED BY <4>2, <4>3
    <3>11. \A c \in shelf'.claims : \A e \in c.evidence :
              e.snapshot \in IdsOf(shelf') /\ e \in shelf'.evidence /\ BackedIn(e, shelf')
      BY <2>5, <2>7, <3>1 DEF PinnedOf
    <3> QED BY <3>3, <3>4, <3>5, <3>6, <3>7, <3>8, <3>9, <3>10, <3>11 DEF PinnedOf
  <2>9. ShelfInv'
    BY <1>1, <2>5, <2>8, PinnedIs DEF ShelfInv, ClaimsAreRows
  <2>10. InHand'
    BY <1>4, <2>2, <2>4, <2>5, <2>6, <2>7 DEF InHand, AfterSnapshot, SnapshotIds
  <2> QED BY <2>3, <2>9, <2>10 DEF CollectionInv
<1> QED BY <1>6, <1>7

LEMMA WriteUnitsOK == ASSUME CollectionInv, WriteUnits PROVE CollectionInv'
<1>1. /\ RunInv /\ InHand /\ ShelfInv /\ collecting.phase = "units"
      /\ DOMAIN collecting = RunFields /\ DOMAIN shelf = ShelfFields
  BY DEF CollectionInv, RunInv, RunShape, ShelfInv, WriteUnits
<1>2. PICK wiki : wiki = collecting.wiki
  OBVIOUS
<1>3. PICK units : units = UnitsOf(wiki)
  OBVIOUS
<1>4. PICK edges : edges = {<<u.id, "DOCUMENTS", u.project>> : u \in units}
  OBVIOUS
<1>5. /\ shelf' = [shelf EXCEPT !.units = @ \cup units, !.relations = @ \cup edges]
      /\ collecting' = [collecting EXCEPT !.phase = "claims", !.units = units]
  BY <1>2, <1>3, <1>4 DEF WriteUnits
<1>6. /\ DOMAIN collecting' = RunFields /\ SameRun(collecting', collecting)
      /\ collecting'.phase = "claims" /\ collecting'.queue = collecting.queue
      /\ collecting'.session = collecting.session /\ collecting'.pin = collecting.pin
      /\ collecting'.wiki = wiki /\ collecting'.units = units
  BY <1>1, <1>2, <1>5 DEF SameRun, RunFields
<1>7. RunInv'
  BY <1>1, <1>6, PhaseGoesOn DEF WithPin, AfterSnapshot
<1>8. /\ DOMAIN shelf' = ShelfFields
      /\ shelf'.latest = shelf.latest /\ shelf'.snapshots = shelf.snapshots
      /\ shelf'.documents = shelf.documents /\ shelf'.evidence = shelf.evidence
      /\ shelf'.components = shelf.components /\ shelf'.pages = shelf.pages
      /\ shelf'.cards = shelf.cards /\ shelf'.claims = shelf.claims
      /\ shelf'.units = shelf.units \cup units
      /\ shelf'.relations = shelf.relations \cup edges
  BY <1>1, <1>5 DEF ShelfFields
<1>9. /\ WikiOK(wiki, collecting.pin.id) /\ wiki.pages \subseteq shelf.pages /\ wiki.card \in shelf.cards
      /\ wiki.documents \subseteq shelf.documents /\ wiki.evidence \subseteq shelf.evidence
      /\ collecting.pin.id \in IdsOf(shelf)
  BY <1>1, <1>2 DEF InHand, AfterSnapshot, SnapshotIds
<1>10. \A u \in units : /\ u.project = wiki.card.project /\ u.evidence \subseteq ToSet(wiki.order)
                        /\ \E p \in wiki.pages : u.evidence = p.evidence /\ u.snapshot = p.snapshot
  BY <1>3, <1>9, UnitsOfOK
<1>11. IdsOf(shelf') = IdsOf(shelf) /\ \A e : BackedIn(e, shelf') <=> BackedIn(e, shelf)
  BY <1>8 DEF IdsOf, BackedIn
<1>12. \A r \in edges : r[3] = wiki.card.project
  BY <1>4, <1>10
<1>13. PinnedOf(shelf')
  <2>1. PinnedOf(shelf)
    BY <1>1, PinnedIs DEF ShelfInv
  <2>2. \A u \in shelf'.units : \E p \in shelf'.pages : u.evidence = p.evidence /\ u.snapshot = p.snapshot
    BY <1>8, <1>9, <1>10, <2>1 DEF PinnedOf
  <2>3. \A r \in shelf'.relations : \E c \in shelf'.cards : c.project = r[3]
    BY <1>8, <1>9, <1>12, <2>1 DEF PinnedOf
  <2> QED BY <1>8, <1>11, <2>1, <2>2, <2>3 DEF PinnedOf
<1>14. ShelfInv'
  BY <1>1, <1>8, <1>13, PinnedIs DEF ShelfInv, ClaimsAreRows
<1>15. InHand'
  BY <1>6, <1>8, <1>9, <1>10, <1>11 DEF InHand, AfterSnapshot, SnapshotIds
<1> QED BY <1>7, <1>14, <1>15 DEF CollectionInv

LEMMA WriteClaimsOK == ASSUME CollectionInv, WriteClaims PROVE CollectionInv'
<1>1. /\ RunInv /\ InHand /\ ShelfInv /\ collecting.phase = "claims"
      /\ DOMAIN collecting = RunFields /\ DOMAIN shelf = ShelfFields
      /\ collecting.phase # "idle" /\ collecting.queue # << >>
  BY OfferUnderWay DEF CollectionInv, RunInv, RunShape, ShelfInv, WriteClaims, WithOffer, WithPin,
                       AfterSnapshot
<1>2. PICK wiki : wiki = collecting.wiki
  OBVIOUS
<1>3. PICK stored : stored = [id \in {d.id : d \in shelf.documents} |->
                                CHOOSE d \in shelf.documents : d.id = id]
  OBVIOUS
<1>4. PICK claims : claims = ClaimsOf(wiki, collecting.units, stored)
  OBVIOUS
<1>5. PICK evidence : evidence = shelf.evidence \cup UNION {c.evidence : c \in claims}
  OBVIOUS
<1>6. PICK run : run = IF AuditFailures(claims, shelf.documents, evidence,
                                        {s.id : s \in shelf.snapshots}) = {} THEN collecting
                       ELSE Warned(collecting, <<"citation_verifier_failed", Current.source>>)
  OBVIOUS
<1>7. /\ shelf' = [shelf EXCEPT !.claims = Superseding(@, claims), !.evidence = evidence]
      /\ collecting' = NextOffer(run)
  BY <1>2, <1>3, <1>4, <1>5, <1>6 DEF WriteClaims
<1>8. DOMAIN run = RunFields /\ SameRun(run, collecting) /\ run.queue = collecting.queue
  <2>1. PICK w : w = Warned(collecting, <<"citation_verifier_failed", Current.source>>)
    OBVIOUS
  <2>2. DOMAIN w = RunFields /\ SameRun(w, collecting) /\ w.queue = collecting.queue
    BY <1>1, <2>1, WarnedIs
  <2>3. SameRun(collecting, collecting)
    BY DEF SameRun
  <2>4. run = w \/ run = collecting
    BY <1>6, <2>1
  <2> QED BY <1>1, <2>2, <2>3, <2>4
<1>9. RunInv' /\ InHand'
  BY <1>1, <1>7, <1>8, LoopGoesOn
<1>10. /\ DOMAIN shelf' = ShelfFields
       /\ shelf'.latest = shelf.latest /\ shelf'.snapshots = shelf.snapshots
       /\ shelf'.documents = shelf.documents /\ shelf'.components = shelf.components
       /\ shelf'.pages = shelf.pages /\ shelf'.cards = shelf.cards
       /\ shelf'.units = shelf.units /\ shelf'.relations = shelf.relations
       /\ shelf'.evidence = evidence /\ shelf'.claims = Superseding(shelf.claims, claims)
  BY <1>1, <1>7 DEF ShelfFields
<1>11. /\ WikiOK(wiki, collecting.pin.id) /\ wiki.evidence \subseteq shelf.evidence
       /\ collecting.pin.id \in IdsOf(shelf)
       /\ \A u \in collecting.units : u.evidence \subseteq ToSet(wiki.order)
  BY <1>1, <1>2 DEF InHand, AfterSnapshot, SnapshotIds
<1>12. \A c \in claims : "evidence" \in DOMAIN c /\ \A e \in c.evidence : CitesAsIn(e, wiki)
  BY <1>4, <1>11, ClaimsOfOK
<1>13. PinnedOf(shelf)
  BY <1>1, PinnedIs DEF ShelfInv
<1>14. IdsOf(shelf') = IdsOf(shelf) /\ \A e : BackedIn(e, shelf') <=> BackedIn(e, shelf)
  BY <1>10 DEF IdsOf, BackedIn
<1>15. \A e : CitesAsIn(e, wiki) => e.snapshot \in IdsOf(shelf) /\ BackedIn(e, shelf)
  <2> TAKE e
  <2>1. HAVE CitesAsIn(e, wiki)
  <2>2. PICK x \in ToSet(wiki.order) :
            e.document = x.document /\ e.snapshot = x.snapshot /\ e.rev = x.rev
    BY <2>1 DEF CitesAsIn
  <2>3. x \in shelf.evidence /\ x.snapshot = collecting.pin.id
    BY <1>11 DEF WikiOK, EvidenceOK
  <2>4. BackedIn(x, shelf)
    BY <1>13, <2>3 DEF PinnedOf
  <2> QED BY <1>11, <2>2, <2>3, <2>4 DEF BackedIn
<1>16. \A c \in claims : \A e \in c.evidence : e \in evidence
  BY <1>5
<1>17. ASSUME NEW c \in shelf'.claims
       PROVE  /\ "evidence" \in DOMAIN c
              /\ c \in claims \/ \E b \in shelf.claims : c.evidence = b.evidence
  <2>1. CASE c \in claims
    BY <1>12, <2>1
  <2>2. CASE c \notin claims
    <3>1. PICK b \in shelf.claims : c = b \/ c = [b EXCEPT !.active = FALSE]
      BY <1>10, <2>2 DEF Superseding
    <3>2. "evidence" \in DOMAIN b
      BY <1>1 DEF ShelfInv, ClaimsAreRows
    <3> QED BY <3>1, <3>2
  <2> QED BY <2>1, <2>2
<1>18. PinnedOf(shelf')
  <2>1. shelf.evidence \subseteq evidence
    BY <1>5
  <2>2. \A s \in shelf'.snapshots : s.source \in DOMAIN shelf'.latest
    BY <1>10, <1>13 DEF PinnedOf
  <2>3. \A d \in shelf'.documents : d.snapshot \in IdsOf(shelf')
    BY <1>10, <1>13, <1>14 DEF PinnedOf
  <2>4. \A e \in shelf'.evidence : BackedIn(e, shelf')
    <3>1. \A e \in shelf.evidence : BackedIn(e, shelf)
      BY <1>13 DEF PinnedOf
    <3>2. \A c \in claims : \A e \in c.evidence : BackedIn(e, shelf)
      BY <1>12, <1>15
    <3> QED BY <1>5, <1>10, <1>14, <3>1, <3>2
  <2>5. \A r \in shelf'.pages \cup shelf'.components : r.snapshot \in IdsOf(shelf')
    BY <1>10, <1>13, <1>14 DEF PinnedOf
  <2>6. \A p \in shelf'.pages : p.evidence # {} /\ p.evidence \subseteq shelf'.evidence
    BY <1>10, <1>13, <2>1 DEF PinnedOf
  <2>7. \A c \in shelf'.cards : c.snapshot \in IdsOf(shelf') /\ c.cites \subseteq shelf'.evidence
    BY <1>10, <1>13, <1>14, <2>1 DEF PinnedOf
  <2>8. \A u \in shelf'.units : \E p \in shelf'.pages : u.evidence = p.evidence /\ u.snapshot = p.snapshot
    BY <1>10, <1>13 DEF PinnedOf
  <2>9. \A r \in shelf'.relations : \E c \in shelf'.cards : c.project = r[3]
    BY <1>10, <1>13 DEF PinnedOf
  <2>10. ASSUME NEW c \in shelf'.claims, NEW e \in c.evidence
         PROVE  e.snapshot \in IdsOf(shelf') /\ e \in shelf'.evidence /\ BackedIn(e, shelf')
    <3>1. CASE c \in claims
      BY <1>10, <1>12, <1>14, <1>15, <1>16, <2>10, <3>1
    <3>2. CASE c \notin claims
      <4>1. PICK b \in shelf.claims : c.evidence = b.evidence
        BY <1>17, <3>2
      <4>2. e.snapshot \in IdsOf(shelf) /\ e \in shelf.evidence /\ BackedIn(e, shelf)
        BY <1>13, <2>10, <4>1 DEF PinnedOf
      <4> QED BY <1>10, <1>14, <2>1, <4>2
    <3> QED BY <3>1, <3>2
  <2> QED BY <2>2, <2>3, <2>4, <2>5, <2>6, <2>7, <2>8, <2>9, <2>10 DEF PinnedOf
<1>19. ClaimsAreRows'
  BY <1>17 DEF ClaimsAreRows
<1>20. ShelfInv'
  BY <1>10, <1>18, <1>19, PinnedIs DEF ShelfInv
<1> QED BY <1>9, <1>20 DEF CollectionInv

LEMMA LoopEndsOK == ASSUME CollectionInv, LoopEnds PROVE CollectionInv'
<1>1. RunInv /\ collecting.phase = "next" /\ DOMAIN collecting = RunFields
  BY DEF CollectionInv, RunInv, RunShape, LoopEnds
<1>2. /\ DOMAIN collecting' = RunFields /\ SameRun(collecting', collecting)
      /\ collecting'.phase = "done" /\ collecting'.queue = collecting.queue
      /\ collecting'.session = collecting.session /\ collecting'.pin = collecting.pin
  BY <1>1 DEF LoopEnds, To, SameRun, RunFields
<1>3. RunInv'
  BY <1>1, <1>2, PhaseGoesOn DEF WithOffer, WithPin, AfterSnapshot
<1>4. InHand'
  BY <1>2 DEF InHand, AfterSnapshot
<1>5. ShelfInv'
  BY ShelfStays DEF CollectionInv, LoopEnds
<1> QED BY <1>3, <1>4, <1>5 DEF CollectionInv

LEMMA RestOK ==
    ASSUME CollectionInv, collecting' = AtRestCollecting, UNCHANGED shelf PROVE CollectionInv'
  BY RunRests, ShelfStays DEF CollectionInv

LEMMA CollectionInitOK == CollectionInit => CollectionInv
<1> SUFFICES ASSUME CollectionInit PROVE CollectionInv
  OBVIOUS
<1>1. RunShape
  BY AtRestIs DEF CollectionInit, RunShape
<1>2. CountsOK
  <2>1. Listing(collecting.sources) /\ Len(collecting.sources) <= collecting.documents
    BY AtRestIs, EmptyListing DEF CollectionInit
  <2>2. collecting.documents \in Nat
    BY AtRestIs DEF CollectionInit
  <2> QED BY AtRestIs, <2>1, <2>2 DEF CollectionInit, CountsOK
<1>3. BestOfEveryPage
  BY AtRestIs DEF CollectionInit, BestOfEveryPage
<1>4. RoomOK /\ OffersWait /\ SessionsAnswer /\ InHand
  BY AtRestIs DEF CollectionInit, RoomOK, OffersWait, SessionsAnswer, InHand, WithOffer, WithPin,
                  AfterSnapshot
<1>5. PinnedOf(shelf)
  BY DEF CollectionInit, EmptyShelf, PinnedOf
<1>6. ShelfInv
  BY <1>5, PinnedIs DEF CollectionInit, EmptyShelf, ShelfFields, ShelfInv, ClaimsAreRows
<1> QED BY <1>1, <1>2, <1>3, <1>4, <1>6 DEF CollectionInv, RunInv

LEMMA CollectionStepOK ==
    CollectionInv /\ [CollectionNext]_collection_vars => CollectionInv'
<1> SUFFICES ASSUME CollectionInv, [CollectionNext]_collection_vars PROVE CollectionInv'
  OBVIOUS
<1>1. ASSUME NEW request \in DOMAIN CollectRequests, NEW world \in DOMAIN Worlds,
             StartCollecting(request, world)
      PROVE  CollectionInv'
  BY <1>1, StartOK
<1>2. ASSUME NEW failing \in SUBSET Adapters, Discover(failing) PROVE CollectionInv'
  BY <1>2, DiscoverOK
<1>3. ASSUME NEW kind \in ReplyKinds, Exchange(kind) PROVE CollectionInv'
  BY <1>3, ExchangeOK
<1>4. CASE DeadlinePasses
  BY <1>4, DeadlineOK
<1>5. CASE TakeSnapshot
  BY <1>5, TakeSnapshotOK
<1>6. CASE SessionEnds
  BY <1>6, SessionEndsOK
<1>7. CASE IngestTimesOut
  BY <1>7, TimeoutOK
<1>8. CASE Fetch
  BY <1>8, FetchOK
<1>9. CASE WriteSource
  BY <1>9, WriteSourceOK
<1>10. CASE WriteSnapshot
  BY <1>10, WriteSnapshotOK
<1>11. CASE WriteDocument
  BY <1>11, WriteDocumentOK
<1>12. CASE WriteWiki
  BY <1>12, WriteWikiOK
<1>13. CASE WriteUnits
  BY <1>13, WriteUnitsOK
<1>14. CASE WriteClaims
  BY <1>14, WriteClaimsOK
<1>15. CASE LoopEnds
  BY <1>15, LoopEndsOK
<1>16. CASE RunReturns
  BY <1>16, RestOK DEF RunReturns
<1>17. CASE CollectorKilled
  BY <1>17, RestOK DEF CollectorKilled
<1>18. CASE UNCHANGED collection_vars
  <2>1. collecting' = collecting /\ shelf' = shelf
    BY <1>18 DEF collection_vars
  <2>2. RunInv'
    BY <2>1 DEF CollectionInv, RunInv, RunShape, CountsOK, RoomOK, OffersWait, SessionsAnswer,
                BestOfEveryPage, Asked, Upstream, Current
  <2>3. InHand'
    BY <2>1 DEF CollectionInv, InHand, SnapshotIds, Current
  <2>4. ShelfInv'
    BY <2>1, ShelfStays DEF CollectionInv
  <2> QED BY <2>2, <2>3, <2>4 DEF CollectionInv
<1> QED BY <1>1, <1>2, <1>3, <1>4, <1>5, <1>6, <1>7, <1>8, <1>9, <1>10, <1>11, <1>12, <1>13, <1>14,
           <1>15, <1>16, <1>17, <1>18 DEF CollectionNext

LEMMA CollectionInvImplies == CollectionInv => CollectionIsBoundedAndPinned
<1> SUFFICES ASSUME CollectionInv PROVE CollectionIsBoundedAndPinned
  OBVIOUS
<1>1. WithinBudgets
  <2>1. ASSUME collecting.phase # "idle" PROVE Len(ResearchPlan(Asked).perspectives) <= MaxPerspectives
    <3>1. RequestOK(Asked)
      BY <2>1, AskedOK DEF CollectionInv, RunInv
    <3> QED BY <3>1, PerspectivesFit
  <2>2. ASSUME collecting.phase # "idle" PROVE collecting.documents >= Len(collecting.sources)
    <3>1. Listing(collecting.sources) /\ Len(collecting.sources) <= collecting.documents
          /\ collecting.documents \in Nat
      BY DEF CollectionInv, RunInv, CountsOK
    <3>2. Len(collecting.sources) \in Nat
      BY <3>1, ListingIs
    <3> QED BY <3>1, <3>2
  <2> QED BY <2>1, <2>2 DEF CollectionInv, RunInv, CountsOK, WithinBudgets
<1>2. AnswersOfTheirCalls
  BY DEF CollectionInv, RunInv, SessionsAnswer, SessionOK, AnswersOfTheirCalls
<1> QED BY <1>1, <1>2 DEF CollectionInv, RunInv, ShelfInv, CollectionIsBoundedAndPinned

\* Whatever the adapters answer, and wherever a run is given up or killed, its
\* budgets hold over all its offers, it keeps the best offer of every page, an
\* answer of a remote tool is the answer to its call, and every stored row
\* refers to stored rows.  ResearchOrchestrator.run, and what it calls.
THEOREM BoundedAndPinned == CollectionSpec => []CollectionIsBoundedAndPinned
<1>1. CollectionInit => CollectionInv
  BY CollectionInitOK
<1>2. CollectionInv /\ [CollectionNext]_collection_vars => CollectionInv'
  BY CollectionStepOK
<1>3. CollectionInv => CollectionIsBoundedAndPinned
  BY CollectionInvImplies
<1> QED BY <1>1, <1>2, <1>3, PTL DEF CollectionSpec

-----------------------------------------------------------------------------
(* Collecting: the types.                                                   *)

Phases == {"idle", "discover", "next", "session", "fetch", "source", "snapshot", "documents",
           "wiki", "units", "claims", "done", "failed"}

LEMMA PhaseOf ==
    ASSUME NEW run, DOMAIN run = RunFields, NEW p
    PROVE  [run EXCEPT !.phase = p].phase = p
  BY DEF RunFields

\* A run goes from one phase of the code to another.
LEMMA PhaseStep ==
    ASSUME CollectionInv, collecting.phase \in Phases, [CollectionNext]_collection_vars
    PROVE  collecting'.phase \in Phases
<1>1. DOMAIN collecting = RunFields
  BY DEF CollectionInv, RunInv, RunShape
<1>2. \A run, w : DOMAIN run = RunFields =>
          /\ DOMAIN Warned(run, w) = RunFields
          /\ NextOffer(run).phase = "next" /\ NextOffer(Warned(run, w)).phase = "next"
  BY DEF Warned, NextOffer, RunFields
<1>3. \A p : To(p) => collecting'.phase = p
  BY <1>1 DEF To, RunFields
<1>4. \A w : Skip(w) => collecting'.phase = "next"
  BY <1>1, <1>2 DEF Skip
<1>5. AtRestCollecting.phase = "idle" /\ DOMAIN AtRestCollecting = RunFields
  BY AtRestIs
<1>6. ASSUME NEW request \in DOMAIN CollectRequests, NEW world \in DOMAIN Worlds,
             StartCollecting(request, world)
      PROVE  collecting'.phase = "discover"
  BY <1>5, <1>6 DEF StartCollecting, RunFields
<1>7. ASSUME NEW failing \in SUBSET Adapters, Discover(failing) PROVE collecting'.phase = "next"
  BY <1>1, <1>7 DEF Discover, RunFields
<1>8. ASSUME NEW kind \in ReplyKinds, Exchange(kind) PROVE collecting'.phase = collecting.phase
  BY <1>1, <1>8 DEF Exchange, RunFields
<1>9. CASE DeadlinePasses
  <2>1. collecting'.phase = "done"
    BY <1>1, <1>2, <1>9 DEF DeadlinePasses, RunFields
  <2> QED BY <2>1 DEF Phases
<1>10. CASE TakeSnapshot
  <2>1. collecting'.phase \in {"session", "fetch"} \/ IngestFailed
    BY <1>1, <1>10 DEF TakeSnapshot, RunFields
  <2> QED BY <1>4, <2>1 DEF IngestFailed, Phases
<1>11. CASE SessionEnds
  <2>1. collecting'.phase = "fetch" \/ IngestFailed
    BY <1>1, <1>11 DEF SessionEnds, RunFields
  <2> QED BY <1>4, <2>1 DEF IngestFailed, Phases
<1>12. CASE IngestTimesOut
  BY <1>4, <1>12 DEF IngestTimesOut, IngestFailed, Phases
<1>13. CASE Fetch
  <2> DEFINE run(kept, docs) == IF Len(kept) < Len(docs)
                                THEN Warned(collecting, <<"exhausted", "">>) ELSE collecting
  <2>1. \/ IngestFailed
        \/ \E kept, docs :
              \/ collecting' = NextOffer(Warned(run(kept, docs), <<"empty", Current.source>>))
              \/ collecting' = [run(kept, docs) EXCEPT !.phase = "source", !.batch = kept]
    BY <1>13 DEF Fetch, TakeDocuments
  <2>2. \A kept, docs : DOMAIN run(kept, docs) = RunFields
    BY <1>1, <1>2
  <2> HIDE DEF run
  <2>3. \A kept, docs : [run(kept, docs) EXCEPT !.phase = "source", !.batch = kept].phase = "source"
    BY <2>2 DEF RunFields
  <2>4. collecting'.phase \in {"next", "source"}
    <3>1. CASE IngestFailed
      BY <1>4, <3>1 DEF IngestFailed
    <3>2. ASSUME NEW kept, NEW docs,
                 collecting' = NextOffer(Warned(run(kept, docs), <<"empty", Current.source>>))
          PROVE  collecting'.phase = "next"
      BY <1>2, <2>2, <3>2
    <3>3. ASSUME NEW kept, NEW docs,
                 collecting' = [run(kept, docs) EXCEPT !.phase = "source", !.batch = kept]
          PROVE  collecting'.phase = "source"
      BY <2>3, <3>3
    <3> QED BY <2>1, <3>1, <3>2, <3>3
  <2> QED BY <2>4 DEF Phases
<1>14. CASE WriteSource
  BY <1>3, <1>14 DEF WriteSource, Phases
<1>15. CASE WriteSnapshot
  <2>1. collecting'.phase \in {"failed", "wiki", "documents"}
    BY <1>1, <1>3, <1>15 DEF WriteSnapshot, RunFields
  <2> QED BY <2>1 DEF Phases
<1>16. CASE WriteDocument
  <2>1. collecting'.phase \in {"next", "documents"}
    BY <1>1, <1>2, <1>16 DEF WriteDocument, RunFields
  <2> QED BY <2>1 DEF Phases
<1>17. CASE WriteWiki
  <2>1. collecting'.phase \in {"failed", "units"}
    BY <1>1, <1>3, <1>17 DEF WriteWiki, StoreWiki, RunFields
  <2> QED BY <2>1 DEF Phases
<1>18. CASE WriteUnits
  <2>1. collecting'.phase = "claims"
    BY <1>1, <1>18 DEF WriteUnits, RunFields
  <2> QED BY <2>1 DEF Phases
<1>19. CASE WriteClaims
  <2>1. \/ collecting' = NextOffer(collecting)
        \/ collecting' = NextOffer(Warned(collecting, <<"citation_verifier_failed", Current.source>>))
    BY <1>19 DEF WriteClaims
  <2> QED BY <1>1, <1>2, <2>1 DEF Phases
<1>20. CASE LoopEnds
  BY <1>3, <1>20 DEF LoopEnds, Phases
<1>21. CASE RunReturns \/ CollectorKilled
  BY <1>5, <1>21 DEF RunReturns, CollectorKilled, Phases
<1>22. CASE UNCHANGED collection_vars
  BY <1>22 DEF collection_vars
<1> QED BY <1>6, <1>7, <1>8, <1>9, <1>10, <1>11, <1>12, <1>13, <1>14, <1>15, <1>16, <1>17, <1>18,
           <1>19, <1>20, <1>21, <1>22 DEF CollectionNext, Phases

\* The bounds of the model are kept.
LEMMA CountersStep ==
    ASSUME runs_made \in 0..MaxRuns, source_faults \in 0..MaxSourceFaults,
           [CollectionNext]_collection_vars
    PROVE  runs_made' \in 0..MaxRuns /\ source_faults' \in 0..MaxSourceFaults
<1>1. MaxRuns \in Nat /\ MaxSourceFaults \in Nat
  BY CollectionAssumption
<1>2. runs_made' = runs_made \/ (runs_made < MaxRuns /\ runs_made' = runs_made + 1)
  BY DEF CollectionNext, collection_vars, StartCollecting, Discover, Exchange, DeadlinePasses,
         TakeSnapshot, SessionEnds, IngestTimesOut, Fetch, WriteSource, WriteSnapshot, WriteDocument,
         WriteWiki, WriteUnits, WriteClaims, LoopEnds, RunReturns, CollectorKilled
<1>3. source_faults' = source_faults \/ Fault(1) \/ \E failing \in SUBSET Adapters : Fault(Cardinality(failing))
  BY DEF CollectionNext, collection_vars, StartCollecting, Discover, Exchange, DeadlinePasses,
         TakeSnapshot, SessionEnds, IngestTimesOut, Fetch, WriteSource, WriteSnapshot, WriteDocument,
         WriteWiki, WriteUnits, WriteClaims, LoopEnds, RunReturns, CollectorKilled
<1>4. \A failing \in SUBSET Adapters : Cardinality(failing) \in Nat
  <2>1. IsFiniteSet(Adapters)
    <3>1. Adapters = {"deepwiki", "gitmcp"} \cup {"context7", "github"}
                     \cup ({"official_docs", "arxiv"} \cup {"web"})
      BY DEF Adapters, Remote
    <3>2. ASSUME NEW a, NEW b PROVE IsFiniteSet({a, b})
      <4>1. IsFiniteSet({a}) /\ IsFiniteSet({b})
        BY FS_Singleton
      <4>2. IsFiniteSet({a} \cup {b})
        BY <4>1, FS_Union
      <4>3. {a, b} = {a} \cup {b}
        OBVIOUS
      <4> QED BY <4>2, <4>3
    <3>3. IsFiniteSet({"web"})
      BY FS_Singleton
    <3>4. IsFiniteSet({"official_docs", "arxiv"} \cup {"web"})
      BY <3>2, <3>3, FS_Union
    <3>5. IsFiniteSet({"deepwiki", "gitmcp"} \cup {"context7", "github"})
      BY <3>2, FS_Union
    <3> QED BY <3>1, <3>4, <3>5, FS_Union
  <2> QED BY <2>1, FS_Subset, FS_CardinalityType
<1>5. \A n \in Nat : Fault(n) => source_faults' \in 0..MaxSourceFaults
  BY <1>1 DEF Fault
<1> QED BY <1>1, <1>2, <1>3, <1>4, <1>5

\* A run is in a phase of the code and the store has the tables it starts with,
\* whatever fails or is killed.  ResearchOrchestrator.run.
THEOREM CollectionTyped == CollectionSpec => []CollectionTypeOK
<1> DEFINE Typed == /\ CollectionInv /\ collecting.phase \in Phases
                    /\ runs_made \in 0..MaxRuns /\ source_faults \in 0..MaxSourceFaults
<1>1. CollectionInit => Typed
  BY CollectionInitOK, AtRestIs, CollectionAssumption DEF CollectionInit, Phases
<1>2. Typed /\ [CollectionNext]_collection_vars => Typed'
  BY CollectionStepOK, PhaseStep, CountersStep DEF Phases
<1>3. Typed => CollectionTypeOK
  <2>1. DOMAIN EmptyShelf = ShelfFields
    BY DEF EmptyShelf, ShelfFields
  <2> QED BY <2>1 DEF CollectionTypeOK, CollectionInv, ShelfInv, Phases
<1> HIDE DEF Typed
<1> QED BY <1>1, <1>2, <1>3, PTL DEF CollectionSpec
================================================================================
