--------------------------- MODULE KeyOrderProofs --------------------------
(***************************************************************************)
(* What rests on the order of keys, for every alphabet of bytes.           *)
(*                                                                         *)
(* Byte strings: their order is total, the bound of a prefix is right, and *)
(* encode_key keeps the order.                                             *)
(*                                                                         *)
(* SnapshotScan: the pages of a scan add up to one read of the prefix, for *)
(* any keys, any page size and any commits in between: it implements       *)
(* StoreRead.                                                              *)
(*                                                                         *)
(* CrossRegion: the verdict of ensure_cross_region is that of one moment,  *)
(* its endpoints are all tried, and its overrun is bounded: for any keys,  *)
(* any endpoints and any sequence of splits and merges.                    *)
(***************************************************************************)
EXTENDS SnapshotScan, CrossRegion, FiniteSetTheorems, WellFoundedInduction, TLAPS

-----------------------------------------------------------------------------
(* Byte strings                                                              *)

\* What a byte string is made of.
LEMMA StringType ==
  ASSUME NEW s \in ByteString
  PROVE  /\ Len(s) \in Nat
         /\ \A j \in 1 .. Len(s) : s[j] \in Nat /\ s[j] <= MaxByte
BY MaxByteAssumption DEF ByteString, Byte

\* A set of naturals that is not empty has a smallest element.
LEMMA SmallestOf ==
  ASSUME NEW S \in SUBSET Nat, S # {}
  PROVE  \E n \in S : \A m \in S : n <= m
<1>1. PICK n \in S : \A m \in S : ~ (<<m, n>> \in OpToRel(<, Nat))
  BY NatLessThanWellFounded, WFMin, Zenon
<1>2. \A m \in S : ~ (m < n)
  BY <1>1 DEF OpToRel
<1> QED BY <1>2

\* Two strings that differ within both do so at a first place.
LEMMA FirstDifference ==
  ASSUME NEW s \in ByteString, NEW t \in ByteString,
         NEW m \in 1 .. Len(s), m <= Len(t), s[m] # t[m]
  PROVE  \E n \in 1 .. m : /\ s[n] # t[n]
                           /\ \A j \in 1 .. n - 1 : s[j] = t[j]
<1> DEFINE D == {n \in 1 .. m : s[n] # t[n]}
<1>1. D \in SUBSET Nat /\ D # {}
  OBVIOUS
<1>2. PICK n \in D : \A j \in D : n <= j
  BY <1>1, SmallestOf
<1>3. \A j \in 1 .. n - 1 : j \in 1 .. m /\ j \notin D
  BY <1>2
<1> QED BY <1>2, <1>3

\* Nothing precedes itself.
LEMMA LessIrreflexive ==
  ASSUME NEW s \in ByteString
  PROVE  ~ Less(s, s)
BY StringType DEF Less

\* The order is transitive ...
LEMMA LessTransitive ==
  ASSUME NEW s \in ByteString, NEW t \in ByteString, NEW u \in ByteString,
         Less(s, t), Less(t, u)
  PROVE  Less(s, u)
<1>1. PICK m \in 1 .. Len(t) :
        m <= Len(s) + 1 /\ (\A j \in 1 .. m - 1 : s[j] = t[j]) /\ (m <= Len(s) => s[m] < t[m])
  BY DEF Less
<1>2. PICK n \in 1 .. Len(u) :
        n <= Len(t) + 1 /\ (\A j \in 1 .. n - 1 : t[j] = u[j]) /\ (n <= Len(t) => t[n] < u[n])
  BY DEF Less
<1>3. /\ \A j \in 1 .. Len(s) : s[j] \in Int
      /\ \A j \in 1 .. Len(t) : t[j] \in Int
      /\ \A j \in 1 .. Len(u) : u[j] \in Int
      /\ Len(s) \in Nat /\ Len(t) \in Nat /\ Len(u) \in Nat
  BY StringType
<1>4. CASE m <= n
  <2>1. m \in 1 .. Len(u) /\ m <= Len(s) + 1
    BY <1>1, <1>2, <1>3, <1>4
  <2>2. \A j \in 1 .. m - 1 : s[j] = u[j]
    BY <1>1, <1>2, <1>3, <1>4
  <2>3. m <= Len(s) => s[m] < u[m]
    <3>1. CASE m = n
      BY <1>1, <1>2, <1>3, <3>1
    <3>2. CASE m < n
      <4>1. t[m] = u[m]
        BY <1>1, <1>2, <3>2
      <4> QED BY <1>1, <4>1
    <3> QED BY <1>4, <3>1, <3>2, <1>3
  <2> QED BY <2>1, <2>2, <2>3 DEF Less
<1>5. CASE n < m
  <2>1. n <= Len(s) + 1 /\ n <= Len(t) /\ n <= Len(s)
    BY <1>1, <1>2, <1>3, <1>5
  <2>2. \A j \in 1 .. n - 1 : s[j] = u[j]
    BY <1>1, <1>2, <1>3, <1>5
  <2>3. s[n] = t[n] /\ t[n] < u[n]
    BY <1>1, <1>2, <1>3, <1>5, <2>1
  <2> QED BY <2>1, <2>2, <2>3, <1>2 DEF Less
<1> QED BY <1>3, <1>4, <1>5

\* ... and total.
LEMMA LessTotal ==
  ASSUME NEW s \in ByteString, NEW t \in ByteString, s # t
  PROVE  Less(s, t) \/ Less(t, s)
<1>1. /\ \A j \in 1 .. Len(s) : s[j] \in Int
      /\ \A j \in 1 .. Len(t) : t[j] \in Int
      /\ Len(s) \in Nat /\ Len(t) \in Nat
  BY StringType
<1>2. CASE \E m \in 1 .. Len(s) : m <= Len(t) /\ s[m] # t[m]
  <2>1. PICK n \in 1 .. Len(s) : /\ n <= Len(t) /\ s[n] # t[n]
                                 /\ \A j \in 1 .. n - 1 : s[j] = t[j]
    <3>1. PICK m \in 1 .. Len(s) : m <= Len(t) /\ s[m] # t[m]
      BY <1>2
    <3> QED BY <3>1, <1>1, FirstDifference
  <2>2. s[n] < t[n] \/ t[n] < s[n]
    BY <2>1, <1>1
  <2> QED BY <2>1, <2>2, <1>1 DEF Less
<1>3. CASE \A m \in 1 .. Len(s) : m <= Len(t) => s[m] = t[m]
  <2>1. Len(s) # Len(t)
    BY <1>1, <1>3 DEF ByteString
  <2>2. CASE Len(s) < Len(t)
    <3>1. Len(s) + 1 \in 1 .. Len(t)
      BY <1>1, <2>2
    <3> QED BY <3>1, <1>1, <1>3 DEF Less
  <2>3. CASE Len(t) < Len(s)
    <3>1. Len(t) + 1 \in 1 .. Len(s)
      BY <1>1, <2>3
    <3> QED BY <3>1, <1>1, <1>3 DEF Less
  <2> QED BY <1>1, <2>1, <2>2, <2>3
<1> QED BY <1>2, <1>3

\* The string with a zero byte appended is the next one: no string lies between.
LEMMA SuccessorIsNext ==
  ASSUME NEW s \in ByteString, NEW t \in ByteString
  PROVE  /\ Append(s, 0) \in ByteString
         /\ Less(t, Append(s, 0)) <=> ~ Less(s, t)
<1> DEFINE u == Append(s, 0)
<1>1. u \in ByteString /\ Len(u) = Len(s) + 1 /\ u[Len(s) + 1] = 0 /\ \A j \in 1 .. Len(s) : u[j] = s[j]
  BY MaxByteAssumption DEF ByteString, Byte
<1>2. /\ \A j \in 1 .. Len(s) : s[j] \in Nat
      /\ \A j \in 1 .. Len(t) : t[j] \in Nat
      /\ Len(s) \in Nat /\ Len(t) \in Nat
  BY StringType
<1> HIDE DEF u
<1>3. Less(s, u)
  BY <1>1, <1>2 DEF Less
<1>4. ASSUME Less(t, u) PROVE t = s \/ Less(t, s)
  <2>1. PICK n \in 1 .. Len(u) :
          n <= Len(t) + 1 /\ (\A j \in 1 .. n - 1 : t[j] = u[j]) /\ (n <= Len(t) => t[n] < u[n])
    BY <1>4 DEF Less
  <2>2. CASE n <= Len(s)
    BY <2>1, <2>2, <1>1, <1>2 DEF Less
  <2>3. CASE n = Len(s) + 1
    <3>1. n > Len(t)
      BY <2>1, <2>3, <1>1, <1>2
    <3>2. Len(t) = Len(s) /\ \A j \in 1 .. Len(s) : t[j] = s[j]
      BY <2>1, <2>3, <3>1, <1>1, <1>2
    <3> QED BY <3>2 DEF ByteString
  <2> QED BY <2>1, <2>2, <2>3, <1>1, <1>2
<1>5. ASSUME Less(t, u) PROVE ~ Less(s, t)
  BY <1>4, <1>5, LessIrreflexive, LessTransitive
<1>6. ASSUME ~ Less(s, t) PROVE Less(t, u)
  BY <1>1, <1>3, <1>6, LessTotal, LessTransitive
<1> QED BY <1>1, <1>5, <1>6 DEF u

\* prefix_upper_bound: what it returns.
LEMMA UpperBoundShape ==
  ASSUME NEW p \in ByteString
  PROVE  \/ PrefixUpperBound(p) = None /\ \A j \in 1 .. Len(p) : p[j] = MaxByte
         \/ /\ PrefixUpperBound(p) \in ByteString
            /\ PrefixUpperBound(p) # None
            /\ \E n \in 1 .. Len(p) :
                 /\ p[n] < MaxByte
                 /\ \A j \in n + 1 .. Len(p) : p[j] = MaxByte
                 /\ Len(PrefixUpperBound(p)) = n
                 /\ PrefixUpperBound(p)[n] = p[n] + 1
                 /\ \A j \in 1 .. n - 1 : PrefixUpperBound(p)[j] = p[j]
<1>1. CASE \A j \in 1 .. Len(p) : p[j] = MaxByte
  BY <1>1 DEF PrefixUpperBound
<1>2. CASE \E j \in 1 .. Len(p) : p[j] # MaxByte
  <2> DEFINE IsLast(n) == p[n] # MaxByte /\ \A j \in n + 1 .. Len(p) : p[j] = MaxByte
             m == CHOOSE n \in 1 .. Len(p) : IsLast(n)
             u == [j \in 1 .. m |-> IF j = m THEN p[j] + 1 ELSE p[j]]
             D == {i \in Nat : i < Len(p) /\ p[Len(p) - i] # MaxByte}
  <2>1. D \in SUBSET Nat /\ D # {}
    <3>1. PICK j \in 1 .. Len(p) : p[j] # MaxByte
      BY <1>2
    <3>2. Len(p) - j \in D
      BY <3>1, StringType
    <3> QED BY <3>2
  <2>2. PICK i \in D : \A k \in D : i <= k
    BY <2>1, SmallestOf
  <2>3. Len(p) - i \in 1 .. Len(p) /\ IsLast(Len(p) - i)
    <3>1. ASSUME NEW j \in Len(p) - i + 1 .. Len(p) PROVE p[j] = MaxByte
      <4>1. Len(p) - j \in Nat /\ Len(p) - j < i /\ Len(p) - (Len(p) - j) = j
        BY <2>2, StringType
      <4>2. Len(p) - j \notin D
        BY <2>2, <4>1
      <4> QED BY <4>1, <4>2, <2>2
    <3> QED BY <2>2, <3>1, StringType
  <2>4. m \in 1 .. Len(p) /\ IsLast(m)
    BY <2>3
  <2> HIDE DEF m
  <2>5. p[m] \in Nat /\ p[m] < MaxByte
    BY <2>4, StringType, MaxByteAssumption
  <2>6. u \in ByteString /\ Len(u) = m
    BY <2>4, <2>5, StringType, MaxByteAssumption DEF ByteString, Byte
  <2>7. PrefixUpperBound(p) = u
    BY <1>2 DEF PrefixUpperBound, m
  <2>8. u # None
    BY <2>6, NoneIsNoString
  <2> QED BY <2>4, <2>5, <2>6, <2>7, <2>8
<1> QED BY <1>1, <1>2

\* Less at a place where both strings have a byte.
LEMMA LessAt ==
  ASSUME NEW s \in ByteString, NEW t \in ByteString, NEW n \in 1 .. Len(s), n <= Len(t),
         \A j \in 1 .. n - 1 : s[j] = t[j], s[n] < t[n]
  PROVE  Less(s, t) /\ ~ Less(t, s)
<1>1. Less(s, t)
  BY StringType DEF Less
<1> QED BY <1>1, LessTransitive, LessIrreflexive

\* A key begins with a prefix just if it is in the range from the prefix to its
\* upper bound: the range that scan reads holds the pairs it is asked for.
THEOREM PrefixRange ==
  ASSUME NEW p \in ByteString, NEW k \in ByteString
  PROVE  HasPrefix(p, k) <=> /\ ~ Less(k, p)
                             /\ PrefixUpperBound(p) # None => Less(k, PrefixUpperBound(p))
<1> DEFINE u == PrefixUpperBound(p)
<1>1. \/ u = None /\ \A j \in 1 .. Len(p) : p[j] = MaxByte
      \/ /\ u \in ByteString /\ u # None
         /\ \E n \in 1 .. Len(p) :
              /\ p[n] < MaxByte
              /\ \A j \in n + 1 .. Len(p) : p[j] = MaxByte
              /\ Len(u) = n /\ u[n] = p[n] + 1
              /\ \A j \in 1 .. n - 1 : u[j] = p[j]
  BY UpperBoundShape
<1>2. /\ Len(p) \in Nat /\ \A j \in 1 .. Len(p) : p[j] \in Nat /\ p[j] <= MaxByte
      /\ Len(k) \in Nat /\ \A j \in 1 .. Len(k) : k[j] \in Nat /\ k[j] <= MaxByte
  BY StringType
<1> HIDE DEF u
<1>3. ASSUME HasPrefix(p, k) PROVE ~ Less(k, p)
  BY <1>2, <1>3 DEF HasPrefix, Less
<1>4. ASSUME HasPrefix(p, k), u # None PROVE Less(k, u)
  <2>1. PICK n \in 1 .. Len(p) : /\ Len(u) = n /\ u[n] = p[n] + 1
                                 /\ \A j \in 1 .. n - 1 : u[j] = p[j]
    BY <1>1, <1>4
  <2>2. n \in 1 .. Len(k) /\ k[n] < u[n] /\ \A j \in 1 .. n - 1 : k[j] = u[j]
    BY <1>2, <1>4, <2>1 DEF HasPrefix
  <2> QED BY <1>1, <1>4, <2>1, <2>2, LessAt
<1>5. ASSUME ~ HasPrefix(p, k), ~ Less(k, p) PROVE u # None /\ ~ Less(k, u)
  <2>1. PICK m \in 1 .. Len(p) : m <= Len(k) /\ k[m] # p[m]
    <3>1. SUFFICES ASSUME \A m \in 1 .. Len(p) : m <= Len(k) => k[m] = p[m] PROVE FALSE
      OBVIOUS
    <3>2. Len(k) < Len(p)
      BY <1>2, <1>5, <3>1 DEF HasPrefix
    <3>3. Len(k) + 1 \in 1 .. Len(p) /\ \A j \in 1 .. Len(k) : k[j] = p[j]
      BY <1>2, <3>1, <3>2
    <3> QED BY <1>2, <1>5, <3>3 DEF Less
  <2>2. PICK d \in 1 .. Len(p) : /\ d <= Len(k) /\ k[d] # p[d]
                                 /\ \A j \in 1 .. d - 1 : p[j] = k[j]
    BY <1>2, <2>1, FirstDifference
  <2>3. k[d] > p[d]
    BY <1>2, <1>5, <2>2, LessAt
  <2>4. p[d] < MaxByte
    BY <1>2, <2>2, <2>3, MaxByteAssumption
  <2>5. PICK n \in 1 .. Len(p) : /\ \A j \in n + 1 .. Len(p) : p[j] = MaxByte
                                 /\ u \in ByteString /\ u # None
                                 /\ Len(u) = n /\ u[n] = p[n] + 1
                                 /\ \A j \in 1 .. n - 1 : u[j] = p[j]
    <3>1. p[d] # MaxByte
      BY <1>2, <2>4, MaxByteAssumption
    <3> QED BY <1>1, <3>1
  <2>6. d <= n
    BY <2>4, <2>5, <1>2, MaxByteAssumption
  <2>7. CASE u[d] < k[d]
    <3>1. d \in 1 .. Len(u) /\ \A j \in 1 .. d - 1 : u[j] = k[j]
      BY <1>2, <2>2, <2>5, <2>6
    <3> QED BY <2>2, <2>5, <2>7, <3>1, LessAt
  <2>8. CASE u[d] >= k[d]
    <3>1. d = n /\ k[n] = u[n]
      BY <1>2, <2>2, <2>3, <2>5, <2>6, <2>8
    <3>2. n <= Len(k) /\ \A j \in 1 .. n : k[j] = u[j]
      BY <1>2, <2>2, <2>5, <3>1
    <3> QED BY <1>2, <2>5, <3>2, StringType DEF Less
  <2>9. u[d] \in Int /\ k[d] \in Int
    BY <1>2, <2>2, <2>5, <2>6, StringType
  <2> QED BY <2>7, <2>8, <2>9
<1> QED BY <1>3, <1>4, <1>5 DEF u

-----------------------------------------------------------------------------
\* Every place of an encoding is one of nine in its group.
LEMMA Places ==
  ASSUME NEW x \in Nat
  PROVE  /\ x \div 9 \in Nat /\ x % 9 \in 0 .. 8 /\ x = 9 * (x \div 9) + (x % 9)
         /\ x \div 8 \in Nat /\ x % 8 \in 0 .. 7 /\ x = 8 * (x \div 8) + (x % 8)
OBVIOUS

\* The group and the offset of a place in the encoding.
LEMMA PlaceOf ==
  ASSUME NEW g \in Nat, NEW o \in 0 .. 8
  PROVE  (9 * g + o) \div 9 = g /\ (9 * g + o) % 9 = o
OBVIOUS

\* encode_key, place by place.
LEMMA EncodedAt ==
  ASSUME NEW k \in ByteString, NEW g \in Nat, NEW o \in 0 .. 8, g <= Len(k) \div 8
  PROVE  /\ 9 * g + o + 1 \in 1 .. Len(EncodeKey(k))
         /\ o < 8 /\ 8 * g + o + 1 <= Len(k) => EncodeKey(k)[9 * g + o + 1] = k[8 * g + o + 1]
         /\ o < 8 /\ 8 * g + o + 1 > Len(k) => EncodeKey(k)[9 * g + o + 1] = 0
         /\ o = 8 /\ Len(k) >= 8 * g + 8 => EncodeKey(k)[9 * g + o + 1] = MaxByte
         /\ o = 8 /\ Len(k) < 8 * g + 8 => EncodeKey(k)[9 * g + o + 1] = MaxByte - (8 - (Len(k) - 8 * g))
<1> DEFINE n == Len(k) \div 8 + 1
           x == 9 * g + o + 1
<1>1. Len(k) \in Nat /\ n \in Nat /\ g + 1 <= n
  BY StringType
<1>2. EncodeKey(k) = Grouped(k, n) /\ Len(EncodeKey(k)) = 9 * n
  BY <1>1 DEF EncodeKey, Grouped, GROUP
<1>3. x \in 1 .. 9 * n
  BY <1>1
<1>4. (x - 1) \div 9 = g /\ (x - 1) % 9 = o
  BY PlaceOf
<1> HIDE DEF x, n
<1>5. EncodeKey(k)[x] =
        IF o = 8 THEN IF Len(k) - 8 * g >= 8 THEN MaxByte ELSE MaxByte - (8 - (Len(k) - 8 * g))
        ELSE IF o < Len(k) - 8 * g THEN k[8 * g + o + 1] ELSE 0
  BY <1>2, <1>3, <1>4 DEF Grouped, GROUP
<1> QED BY <1>1, <1>2, <1>3, <1>5 DEF x

\* An encoding is a byte string of whole groups.
LEMMA EncodedType ==
  ASSUME NEW k \in ByteString, MaxByte >= GROUP
  PROVE  EncodeKey(k) \in ByteString /\ Len(EncodeKey(k)) = 9 * (Len(k) \div 8 + 1)
<1> DEFINE n == Len(k) \div 8 + 1
<1>1. Len(k) \in Nat /\ n \in Nat
  BY StringType
<1>2. EncodeKey(k) = Grouped(k, n)
  BY DEF EncodeKey, GROUP
<1>3. ASSUME NEW x \in 1 .. 9 * n PROVE EncodeKey(k)[x] \in Byte
  <2> DEFINE g == (x - 1) \div 9
             o == (x - 1) % 9
  <2>1. g \in Nat /\ o \in 0 .. 8 /\ x = 9 * g + o + 1
    BY <1>1, Places
  <2>2. g <= Len(k) \div 8
    BY <1>1, <2>1
  <2> HIDE DEF g, o
  <2>3. \A j \in 1 .. Len(k) : k[j] \in Byte
    BY DEF ByteString
  <2>4. Len(k) >= 8 * g
    BY <1>1, <2>1, <2>2, Places
  <2>5. CASE o = 8
    <3>1. \/ EncodeKey(k)[9 * g + o + 1] = MaxByte
          \/ /\ EncodeKey(k)[9 * g + o + 1] = MaxByte - (8 - (Len(k) - 8 * g))
             /\ Len(k) < 8 * g + 8
      BY <1>1, <2>1, <2>2, <2>5, EncodedAt
    <3>2. MaxByte \in Nat /\ MaxByte >= 8
      BY MaxByteAssumption DEF GROUP
    <3>3. Len(k) < 8 * g + 8 => 8 - (Len(k) - 8 * g) \in 1 .. 8
      BY <1>1, <2>1, <2>4
    <3>4. \A d \in 1 .. 8 : MaxByte - d \in 0 .. MaxByte
      BY <3>2
    <3> QED BY <2>1, <3>1, <3>2, <3>3, <3>4 DEF Byte
  <2>6. CASE o < 8 /\ 8 * g + o + 1 <= Len(k)
    <3>1. EncodeKey(k)[9 * g + o + 1] = k[8 * g + o + 1]
      BY <2>1, <2>2, <2>6, EncodedAt
    <3>2. 8 * g + o + 1 \in 1 .. Len(k)
      BY <1>1, <2>1, <2>6
    <3> QED BY <2>1, <2>3, <3>1, <3>2
  <2>7. CASE o < 8 /\ 8 * g + o + 1 > Len(k)
    <3>1. EncodeKey(k)[9 * g + o + 1] = 0
      BY <2>1, <2>2, <2>7, EncodedAt
    <3> QED BY <2>1, <3>1, MaxByteAssumption DEF Byte
  <2> QED BY <1>1, <2>1, <2>5, <2>6, <2>7
<1>4. EncodeKey(k) = [x \in 1 .. 9 * n |-> EncodeKey(k)[x]]
  BY <1>2 DEF Grouped
<1> QED BY <1>1, <1>3, <1>4 DEF ByteString

\* Up to the place where the keys differ, their encodings are the same.
LEMMA EncodedAlike ==
  ASSUME NEW s \in ByteString, NEW t \in ByteString, NEW n \in 1 .. Len(t), n <= Len(s) + 1,
         \A j \in 1 .. n - 1 : s[j] = t[j],
         NEW x \in 1 .. 9 * ((n - 1) \div 8) + ((n - 1) % 8)
  PROVE  EncodeKey(s)[x] = EncodeKey(t)[x]
<1> DEFINE g == (x - 1) \div 9
           o == (x - 1) % 9
           h == (n - 1) \div 8
           b == (n - 1) % 8
<1>1. Len(s) \in Nat /\ Len(t) \in Nat
  BY StringType
<1>2. h \in Nat /\ b \in 0 .. 7 /\ n - 1 = 8 * h + b
  BY Places
<1>3. g \in Nat /\ o \in 0 .. 8 /\ x = 9 * g + o + 1
  BY <1>2, Places
<1> HIDE DEF g, o, h, b
<1>4. x <= 9 * h + b
  BY DEF h, b
<1>5. g < h \/ (g = h /\ o < b)
  BY <1>2, <1>3, <1>4
<1>6. 8 * h <= Len(s) /\ 8 * h <= Len(t)
  <2>1. 8 * h <= n - 1
    BY <1>2
  <2>2. n - 1 <= Len(s) /\ n - 1 <= Len(t)
    BY <1>1
  <2> QED BY <1>1, <1>2, <2>1, <2>2
<1>7. g <= Len(s) \div 8 /\ g <= Len(t) \div 8
  BY <1>1, <1>2, <1>3, <1>5, <1>6, Places
<1>8. o < 8 => 8 * g + o + 1 \in 1 .. n - 1
  BY <1>2, <1>3, <1>5
<1>9. CASE o < 8
  <2>1. 8 * g + o + 1 <= Len(s) /\ 8 * g + o + 1 <= Len(t) /\ s[8 * g + o + 1] = t[8 * g + o + 1]
    BY <1>1, <1>8, <1>9
  <2>2. EncodeKey(s)[9 * g + o + 1] = s[8 * g + o + 1]
    BY <1>3, <1>7, <1>9, <2>1, EncodedAt
  <2>3. EncodeKey(t)[9 * g + o + 1] = t[8 * g + o + 1]
    BY <1>3, <1>7, <1>9, <2>1, EncodedAt
  <2> QED BY <1>3, <2>1, <2>2, <2>3
<1>10. CASE o = 8
  <2>1. Len(s) >= 8 * g + 8 /\ Len(t) >= 8 * g + 8
    BY <1>1, <1>2, <1>3, <1>5, <1>6, <1>10
  <2>2. EncodeKey(s)[9 * g + o + 1] = MaxByte
    BY <1>3, <1>7, <1>10, <2>1, EncodedAt
  <2>3. EncodeKey(t)[9 * g + o + 1] = MaxByte
    BY <1>3, <1>7, <1>10, <2>1, EncodedAt
  <2> QED BY <1>3, <2>2, <2>3
<1> QED BY <1>3, <1>9, <1>10

\* encode_key maps a smaller key to a smaller one.
LEMMA EncodedLess ==
  ASSUME NEW s \in ByteString, NEW t \in ByteString, MaxByte >= GROUP, Less(s, t)
  PROVE  Less(EncodeKey(s), EncodeKey(t))
<1>1. PICK n \in 1 .. Len(t) :
        n <= Len(s) + 1 /\ (\A j \in 1 .. n - 1 : s[j] = t[j]) /\ (n <= Len(s) => s[n] < t[n])
  BY DEF Less
<1> DEFINE e == EncodeKey(s)
           f == EncodeKey(t)
           h == (n - 1) \div 8
           b == (n - 1) % 8
<1>2. Len(s) \in Nat /\ Len(t) \in Nat
  BY StringType
<1>3. h \in Nat /\ b \in 0 .. 7 /\ n - 1 = 8 * h + b
  BY <1>2, Places
<1>4. e \in ByteString /\ f \in ByteString
  BY EncodedType
<1>5. \A x \in 1 .. 9 * h + b : e[x] = f[x]
  BY <1>1, EncodedAlike
<1> HIDE DEF h, b
<1>6. h <= Len(s) \div 8 /\ h <= Len(t) \div 8
  BY <1>1, <1>2, <1>3, Places
<1>7. CASE n <= Len(s)
  <2> DEFINE x == 9 * h + b + 1
  <2>1. x \in 1 .. Len(e) /\ x <= Len(f) /\ e[x] = s[n] /\ f[x] = t[n]
    <3>1. b < 8 /\ b \in 0 .. 8 /\ 8 * h + b + 1 = n
      BY <1>2, <1>3
    <3>2. x \in 1 .. Len(e) /\ e[x] = s[8 * h + b + 1]
      BY <1>2, <1>3, <1>6, <1>7, <3>1, EncodedAt
    <3>3. 8 * h + b + 1 <= Len(t)
      BY <1>1, <1>2, <3>1
    <3>4. x \in 1 .. Len(f) /\ f[x] = t[8 * h + b + 1]
      BY <1>2, <1>3, <1>6, <3>1, <3>3, EncodedAt
    <3> QED BY <3>1, <3>2, <3>4
  <2>2. \A j \in 1 .. x - 1 : e[j] = f[j]
    BY <1>3, <1>5
  <2> HIDE DEF x, e, f
  <2> QED BY <1>1, <1>4, <1>7, <2>1, <2>2, LessAt DEF e, f
<1>8. CASE n = Len(s) + 1
  <2> DEFINE x == 9 * h + 8 + 1
  <2>1. x \in 1 .. Len(e) /\ x <= Len(f)
    BY <1>3, <1>6, EncodedAt
  <2>2. e[x] = MaxByte - (8 - b)
    <3>1. Len(s) < 8 * h + 8 /\ Len(s) - 8 * h = b
      BY <1>2, <1>3, <1>8
    <3>2. e[x] = MaxByte - (8 - (Len(s) - 8 * h))
      BY <1>3, <1>6, <3>1, EncodedAt
    <3> QED BY <3>1, <3>2
  <2>3. f[x] > MaxByte - (8 - b)
    <3>1. CASE Len(t) >= 8 * h + 8
      <4>1. f[x] = MaxByte
        BY <1>3, <1>6, <3>1, EncodedAt
      <4> QED BY <1>3, <4>1, MaxByteAssumption
    <3>2. CASE Len(t) < 8 * h + 8
      <4>1. f[x] = MaxByte - (8 - (Len(t) - 8 * h))
        BY <1>3, <1>6, <3>2, EncodedAt
      <4>2. Len(t) - 8 * h > b
        BY <1>1, <1>2, <1>3
      <4> QED BY <1>2, <1>3, <4>1, <4>2, MaxByteAssumption
    <3> QED BY <1>2, <1>3, <3>1, <3>2
  <2>4. ASSUME NEW o \in 0 .. 7, o >= b PROVE e[9 * h + o + 1] = 0
    <3>1. o < 8 /\ o \in 0 .. 8 /\ 8 * h + o + 1 > Len(s)
      BY <1>2, <1>3, <1>8, <2>4
    <3> QED BY <1>3, <1>6, <3>1, EncodedAt
  <2> HIDE DEF e, f
  <2>5. PICK d \in 1 .. x : e[d] # f[d] /\ \A j \in 1 .. d - 1 : e[j] = f[j]
    <3>1. e[x] # f[x]
      BY <2>2, <2>3, <1>3, MaxByteAssumption
    <3> HIDE DEF x
    <3> QED BY <1>4, <2>1, <3>1, FirstDifference
  <2>6. d \in 1 .. Len(e) /\ d <= Len(f) /\ e[d] \in Nat /\ f[d] \in Nat
    BY <1>3, <1>4, <2>1, <2>5, StringType
  <2>7. e[d] < f[d]
    <3>1. CASE d = x
      BY <2>2, <2>3, <3>1
    <3>2. CASE d < x
      <4>1. d > 9 * h + b
        BY <1>3, <1>5, <2>5
      <4>2. d - 1 - 9 * h \in 0 .. 7 /\ d - 1 - 9 * h >= b /\ d = 9 * h + (d - 1 - 9 * h) + 1
        BY <1>3, <2>5, <3>2, <4>1
      <4>3. e[d] = 0
        BY <2>4, <4>2
      <4> QED BY <2>5, <2>6, <4>3
    <3> QED BY <1>3, <2>5, <3>1, <3>2
  <2> QED BY <1>4, <2>5, <2>6, <2>7, LessAt DEF e, f
<1> QED BY <1>1, <1>2, <1>7, <1>8

\* The encoding preserves the order of keys, of any length: a key is located in
\* the region that holds it.
THEOREM EncodingPreservesOrder ==
  ASSUME NEW s \in ByteString, NEW t \in ByteString, MaxByte >= GROUP
  PROVE  Less(s, t) <=> Less(EncodeKey(s), EncodeKey(t))
<1>1. EncodeKey(s) \in ByteString /\ EncodeKey(t) \in ByteString
  BY EncodedType
<1>2. CASE Less(s, t)
  BY <1>2, EncodedLess
<1>3. CASE s = t
  BY <1>1, <1>3, LessIrreflexive
<1>4. CASE Less(t, s)
  BY <1>1, <1>4, EncodedLess, LessTransitive, LessIrreflexive
<1> QED BY <1>2, <1>3, <1>4, LessTotal

-----------------------------------------------------------------------------
(* The pages of a scan                                                       *)

Arg == call.request.arg
Inside(s, k) == s[k] # None /\ ~ Less(k, Arg) /\ (Upper # None => Less(k, Upper))
\* The keys that the pages up to the cursor hold.
Below(s, c) == {k \in Keys : Inside(s, k) /\ Less(k, c)}

\* The protocol of one call.
Phases ==
  /\ pc = "idle" <=> call.request = None
  /\ pc = "done" <=> call.answer # None
  /\ pc # "idle" => call.since \in 1 .. Len(history)
  /\ pc = "read" => ts \in call.since .. Len(history)

\* What has been collected is exactly what the snapshot holds up to the cursor.
Collected ==
  /\ pc \in {"idle", "begin"} => out = {}
  /\ pc = "read" /\ call.request.op = "scan" =>
       /\ ~ Less(cursor, Arg)
       /\ out = Pushed(Below(history[ts], cursor), history[ts])

IInv == TypeOK /\ Phases /\ Collected /\ NothingTwice

-----------------------------------------------------------------------------
\* What a request is made of.
LEMMA RequestType ==
  ASSUME NEW r \in Requests
  PROVE  r.op \in {"get", "scan"} /\ r.arg \in ByteString /\ r # None
BY RequestsAssumption, NoneIsNoRequest

\* A commit appends contents, and leaves the earlier ones.
LEMMA CommitType ==
  ASSUME history \in Seq(Contents), history # <<>>, Commit
  PROVE  /\ history' \in Seq(Contents) /\ history' # <<>>
         /\ Len(history') = Len(history) + 1
         /\ \A i \in 1 .. Len(history) : history'[i] = history[i]
<1>1. PICK b \in Batches : history' = Append(history, After(b, history[Len(history)]))
  BY DEF Commit
<1>2. history[Len(history)] \in Contents
  OBVIOUS
<1>3. \A k \in Keys \intersect DOMAIN b : b[k] \in Values \union {None}
  BY BatchesAssumption
<1>4. After(b, history[Len(history)]) \in Contents
  BY <1>2, <1>3 DEF After, Contents
<1> QED BY <1>1, <1>4

\* What precedes a place that is not after another precedes that one too.
LEMMA LessOrSame ==
  ASSUME NEW s \in ByteString, NEW t \in ByteString, NEW u \in ByteString
  PROVE  /\ ~ Less(t, s) /\ ~ Less(u, t) => ~ Less(u, s)
         /\ Less(s, t) /\ ~ Less(u, t) => Less(s, u)
BY LessTotal, LessTransitive, LessIrreflexive

\* A full page moves the cursor over the keys it holds, and over no others.
LEMMA FullPageStep ==
  ASSUME NEW s \in Contents, call.request \in Requests, cursor \in ByteString, ~ Less(cursor, Arg),
         NEW page \in FirstOf(InRange(s)), NEW last \in page,
         \A k \in page : ~ Less(last, k)
  PROVE  /\ Below(s, NextCursor(last)) = Below(s, cursor) \union page
         /\ NextCursor(last) \in ByteString
         /\ ~ Less(NextCursor(last), Arg)
<1> DEFINE c == NextCursor(last)
<1>1. Arg \in ByteString
  BY RequestType DEF Arg
<1>2. page \subseteq InRange(s) /\ \A k \in page, j \in InRange(s) : Less(j, k) => j \in page
  BY DEF FirstOf
<1>3. InRange(s) \subseteq Keys /\ Keys \subseteq ByteString
  BY KeysAssumption DEF InRange
<1>4. last \in ByteString /\ ~ Less(last, cursor)
  BY <1>2, <1>3 DEF InRange
<1>5. c \in ByteString /\ \A k \in Keys : Less(k, c) <=> ~ Less(last, k)
  BY <1>3, <1>4, SuccessorIsNext DEF NextCursor
<1>6. Less(last, c)
  BY <1>4, <1>2, <1>3, <1>5, LessIrreflexive
<1> HIDE DEF c
<1>7. ~ Less(c, Arg)
  <2>1. ~ Less(last, Arg)
    BY <1>1, <1>4, LessOrSame
  <2> QED BY <1>1, <1>4, <1>5, <1>6, <2>1, LessTransitive
<1>8. ASSUME NEW k \in Keys, k \in Below(s, c) PROVE k \in Below(s, cursor) \union page
  <2>1. CASE Less(k, cursor)
    BY <1>8, <2>1 DEF Below
  <2>2. CASE ~ Less(k, cursor)
    <3>1. k \in InRange(s)
      BY <1>8, <2>2 DEF Below, Inside, InRange
    <3>2. k = last \/ Less(k, last)
      BY <1>3, <1>4, <1>5, <1>8, LessTotal DEF Below
    <3> QED BY <1>2, <3>1, <3>2
  <2> QED BY <2>1, <2>2
<1>9. ASSUME NEW k \in Keys, k \in Below(s, cursor) PROVE k \in Below(s, c)
  BY <1>3, <1>4, <1>5, <1>6, <1>9, LessOrSame, LessTransitive DEF Below
<1>10. ASSUME NEW k \in page PROVE k \in Below(s, c)
  <2>1. k \in Keys /\ k \in InRange(s) /\ Less(k, c)
    BY <1>2, <1>3, <1>5
  <2>2. ~ Less(k, Arg)
    BY <1>1, <1>3, <2>1, LessOrSame DEF InRange
  <2> QED BY <2>1, <2>2 DEF Below, Inside, InRange
<1>11. Below(s, c) \subseteq Keys /\ Below(s, cursor) \subseteq Keys
  BY DEF Below
<1> QED BY <1>5, <1>7, <1>8, <1>9, <1>10, <1>11 DEF c

\* A page that is not full holds the rest of the range.
LEMMA LastPageStep ==
  ASSUME NEW s \in Contents, call.request \in Requests, call.request.op = "scan",
         cursor \in ByteString, ~ Less(cursor, Arg),
         NEW page \in FirstOf(InRange(s)), ~ FullPage(page)
  PROVE  Pushed(Below(s, cursor) \union page, s) = Pairs(call.request, s)
<1>1. Arg \in ByteString /\ Keys \subseteq ByteString
  BY RequestType, KeysAssumption DEF Arg
<1>2. page = InRange(s)
  <2>1. page \subseteq Keys
    BY DEF FirstOf, InRange
  <2>2. Cardinality(page) \in Nat
    BY <2>1, KeysAreFinite, FS_Subset, FS_CardinalityType
  <2> QED BY <2>2, PageAssumption DEF FirstOf, FullPage
<1>3. ASSUME NEW k \in Keys
      PROVE k \in Below(s, cursor) \union page <=> HasPrefix(Arg, k) /\ s[k] # None
  <2>1. HasPrefix(Arg, k) <=> ~ Less(k, Arg) /\ (Upper # None => Less(k, Upper))
    BY <1>1, PrefixRange DEF Upper, Arg
  <2>2. ~ Less(k, cursor) => ~ Less(k, Arg)
    BY <1>1, LessOrSame
  <2> QED BY <1>2, <2>1, <2>2 DEF Below, Inside, InRange
<1>4. Below(s, cursor) \union page = {k \in Keys : HasPrefix(Arg, k) /\ s[k] # None}
  BY <1>2, <1>3 DEF Below, InRange
<1> QED BY <1>4 DEF Pushed, Pairs, Asks, Arg

\* What is pushed is a set of pairs.
LEMMA PushedType ==
  ASSUME NEW s \in Contents, NEW S \in SUBSET Keys, \A k \in S : s[k] # None
  PROVE  Pushed(S, s) \in SUBSET (Keys \X Values)
BY DEF Pushed, Contents

\* The pairs of two sets of keys are those of the one and those of the other.
LEMMA PushedUnion ==
  ASSUME NEW s, NEW S, NEW T
  PROVE  Pushed(S \union T, s) = Pushed(S, s) \union Pushed(T, s)
BY DEF Pushed

-----------------------------------------------------------------------------
\* Nothing has been asked at first.
LEMMA InitIInv ==
  ASSUME Init
  PROVE  IInv
<1>1. PICK s \in Contents : history = <<s>>
  BY DEF Init, ReadInit
<1>2. history \in Seq(Contents) /\ history # <<>> /\ Len(history) = 1
  BY <1>1
<1>3. call = NotAsked
  BY DEF Init, ReadInit
<1>4. cursor \in ByteString
  BY DEF Init, ByteString
<1>5. TypeOK
  <2>1. call \in [request: Requests \union {None}, since: Nat,
                  answer: {None} \union [fault: BOOLEAN, pairs: SUBSET (Keys \X Values)]]
    BY <1>3 DEF NotAsked
  <2>2. pc = "idle" /\ ts = 0 /\ out = {} /\ twice = FALSE
    BY DEF Init
  <2>3. ts \in 0 .. Len(history)
    BY <1>2, <2>2
  <2>4. out \in SUBSET (Keys \X Values) /\ twice \in BOOLEAN
    BY <2>2
  <2> QED BY <1>2, <1>4, <2>1, <2>2, <2>3, <2>4 DEF TypeOK
<1>6. Phases
  BY <1>3 DEF Init, Phases, NotAsked
<1> QED BY <1>5, <1>6 DEF Init, IInv, Collected, NothingTwice

\* An answer ends the call, and nothing else of the invariant depends on it.
LEMMA AnswerIInv ==
  ASSUME IInv, pc \in {"begin", "read"}, NEW a \in [fault: BOOLEAN, pairs: SUBSET (Keys \X Values)],
         Answer(a), pc' = "done", ts' = ts,
         cursor' = cursor, out' \in SUBSET (Keys \X Values), twice' = twice
  PROVE  IInv'
<1>1. history' = history /\ call' = [call EXCEPT !.answer = a] /\ call.request # None
  BY DEF Answer
<1>2. TypeOK'
  BY <1>1 DEF IInv, TypeOK
<1>3. Phases'
  BY <1>1, NoneIsNoAnswer DEF IInv, TypeOK, Phases
<1> QED BY <1>2, <1>3 DEF IInv, Collected, NothingTwice

\* A commit of another caller leaves the snapshot as it was.
LEMMA OtherCommitIInv ==
  ASSUME IInv, OtherCommit
  PROVE  IInv'
<1>1. /\ history' \in Seq(Contents) /\ history' # <<>>
      /\ Len(history') = Len(history) + 1
      /\ \A i \in 1 .. Len(history) : history'[i] = history[i]
  BY CommitType DEF IInv, TypeOK, OtherCommit
<1>2. UNCHANGED <<call, pc, ts, cursor, out, twice>>
  BY DEF OtherCommit, Commit
<1>3. TypeOK'
  BY <1>1, <1>2 DEF IInv, TypeOK
<1>4. Phases'
  BY <1>1, <1>2 DEF IInv, TypeOK, Phases
<1>5. Collected'
  <2>1. pc = "read" => history'[ts] = history[ts]
    BY <1>1 DEF IInv, TypeOK, Phases
  <2> QED BY <1>2, <2>1 DEF IInv, Collected, Below, Inside, Pushed, Upper, Arg
<1> QED BY <1>2, <1>3, <1>4, <1>5 DEF IInv, NothingTwice

\* A call that begins has collected nothing.
LEMMA CallIInv ==
  ASSUME IInv, Call
  PROVE  IInv'
<1>1. PICK r \in Requests : call' = [request |-> r, since |-> Len(history), answer |-> None]
  BY DEF Call, Ask
<1>2. r # None
  BY NoneIsNoRequest
<1>3. pc = "idle" /\ pc' = "begin" /\ UNCHANGED <<history, ts, cursor, out, twice>>
  BY DEF Call, Ask
<1>4. TypeOK'
  BY <1>1, <1>3 DEF IInv, TypeOK
<1>5. Phases'
  BY <1>1, <1>2, <1>3 DEF IInv, TypeOK, Phases
<1> QED BY <1>3, <1>4, <1>5 DEF IInv, Collected, NothingTwice

\* The snapshot is one of the moments since the call, and nothing is below the prefix.
LEMMA TakeSnapshotIInv ==
  ASSUME IInv, TakeSnapshot
  PROVE  IInv'
<1>1. UNCHANGED <<history, call, out, twice>> /\ ts' = Len(history) /\ cursor' = Arg /\ pc = "begin" /\ pc' = "read"
  BY DEF TakeSnapshot, Arg
<1>2. call.request \in Requests /\ Arg \in ByteString
  BY <1>1, RequestType DEF IInv, TypeOK, Phases, Arg
<1>3. TypeOK'
  BY <1>1, <1>2 DEF IInv, TypeOK
<1>4. Phases'
  BY <1>1 DEF IInv, TypeOK, Phases
<1>5. Collected'
  <2>1. Below(history[Len(history)], Arg) = {}
    BY DEF Below, Inside
  <2>2. ~ Less(Arg, Arg) /\ out = {}
    BY <1>1, <1>2, LessIrreflexive DEF IInv, Collected
  <2>3. (Below(history[ts], cursor))' = Below(history[Len(history)], Arg)
    BY <1>1 DEF Below, Inside, Upper, Arg
  <2> QED BY <1>1, <2>1, <2>2, <2>3 DEF Collected, Pushed, Arg
<1> QED BY <1>1, <1>3, <1>4, <1>5 DEF IInv, NothingTwice

\* A call that fails answers once.
LEMMA FailsIInv ==
  ASSUME IInv, Fails
  PROVE  IInv'
<1>1. Err \in [fault: BOOLEAN, pairs: SUBSET (Keys \X Values)]
  BY DEF Err
<1> QED BY <1>1, AnswerIInv DEF Fails, IInv, TypeOK

\* A get answers once.
LEMMA GetIInv ==
  ASSUME IInv, Get
  PROVE  IInv'
<1> DEFINE S == {k \in Keys : k = call.request.arg /\ history[ts][k] # None}
<1>1. history[ts] \in Contents
  BY DEF IInv, TypeOK, Phases, Get
<1>2. Ok(Pushed(S, history[ts])) \in [fault: BOOLEAN, pairs: SUBSET (Keys \X Values)]
  BY <1>1, PushedType DEF Ok
<1> QED BY <1>2, AnswerIInv DEF Get, IInv, TypeOK

\* What a page adds was not there, for the keys collected are below the cursor.
LEMMA PageIInv ==
  ASSUME IInv, Page
  PROVE  IInv'
<1> DEFINE s == history[ts]
<1>1. pc = "read" /\ call.request.op = "scan" /\ ts' = ts
  BY DEF Page
<1>2. PICK page \in FirstOf(InRange(s)) : Collect(page, s)
  BY DEF Page
<1>3. /\ s \in Contents /\ call.request \in Requests /\ cursor \in ByteString
      /\ ~ Less(cursor, Arg) /\ out = Pushed(Below(s, cursor), s)
  BY <1>1 DEF IInv, TypeOK, Phases, Collected
<1>4. page \subseteq Keys /\ \A k \in page : s[k] # None /\ ~ Less(k, cursor)
  BY DEF FirstOf, InRange
<1> HIDE DEF s
<1>5. out' = Pushed(Below(s, cursor) \union page, s)
  BY <1>2, <1>3, PushedUnion DEF Collect
<1>6. out' \in SUBSET (Keys \X Values)
  <2>1. Below(s, cursor) \union page \in SUBSET Keys /\ \A k \in Below(s, cursor) \union page : s[k] # None
    BY <1>4 DEF Below, Inside
  <2> QED BY <1>3, <1>5, <2>1, PushedType
<1>7. twice' = FALSE /\ twice = FALSE
  <2>1. Pushed(page, s) \intersect out = {}
    BY <1>3, <1>4 DEF Pushed, Below
  <2>2. twice' = (twice \/ Pushed(page, s) \intersect out # {})
    BY <1>2 DEF Collect
  <2>3. ~ twice /\ twice \in BOOLEAN
    BY DEF IInv, NothingTwice, TypeOK
  <2> QED BY <2>1, <2>2, <2>3
<1>8. CASE FullPage(page)
  <2>1. PICK last \in page : (\A k \in page : ~ Less(last, k)) /\ cursor' = NextCursor(last)
    BY <1>2, <1>8 DEF Collect
  <2>2. UNCHANGED <<history, call, pc>>
    BY <1>2, <1>8 DEF Collect
  <2>3. /\ Below(s, cursor') = Below(s, cursor) \union page
        /\ cursor' \in ByteString /\ ~ Less(cursor', Arg)
    BY <1>3, <2>1, FullPageStep
  <2>4. TypeOK'
    BY <1>1, <1>6, <1>7, <2>2, <2>3 DEF IInv, TypeOK
  <2>5. Phases'
    BY <1>1, <2>2 DEF IInv, Phases
  <2>6. Collected'
    <3>1. s' = s /\ Arg' = Arg /\ (Below(s, cursor))' = Below(s, cursor')
      BY <1>1, <2>2 DEF s, Arg, Below, Inside, Upper
    <3> QED BY <1>1, <1>5, <2>2, <2>3, <3>1 DEF Collected, Pushed, s
  <2> QED BY <1>7, <2>4, <2>5, <2>6 DEF IInv, NothingTwice
<1>9. CASE ~ FullPage(page)
  <2>1. Answer(Ok(out')) /\ pc' = "done" /\ cursor' = cursor
    BY <1>2, <1>9 DEF Collect
  <2>2. Ok(out') \in [fault: BOOLEAN, pairs: SUBSET (Keys \X Values)]
    BY <1>6 DEF Ok
  <2> QED BY <1>1, <1>6, <1>7, <2>1, <2>2, AnswerIInv
<1> QED BY <1>8, <1>9

\* Every step keeps the invariant.
LEMMA NextIInv ==
  ASSUME IInv, [Next]_vars
  PROVE  IInv'
<1>1. CASE UNCHANGED vars
  BY <1>1 DEF vars, IInv, TypeOK, Phases, Collected, NothingTwice, Below, Inside, Pushed, Upper, Arg
<1> QED
  BY <1>1, OtherCommitIInv, CallIInv, TakeSnapshotIInv, FailsIInv, GetIInv, PageIInv DEF Next, Progress

\* get and scan are typed, and what they collect is exactly what the snapshot
\* holds up to the cursor.
THEOREM Invariance == Spec => []IInv
BY InitIInv, NextIInv, PTL DEF Spec

\* The variables of a scan keep their types.
THEOREM TypeCorrect == Spec => []TypeOK
<1>1. IInv => TypeOK
  BY DEF IInv
<1> QED BY <1>1, Invariance, PTL

\* No pair is in the result of a scan twice.
THEOREM PagesAreDisjoint == Spec => []NothingTwice
<1>1. IInv => NothingTwice
  BY DEF IInv
<1> QED BY <1>1, Invariance, PTL

-----------------------------------------------------------------------------
\* Every step of a scan is a step of StoreRead or changes nothing of it.
LEMMA StepRefines ==
  ASSUME IInv, [Next]_vars
  PROVE  [ReadNext]_avars
<1>1. CASE OtherCommit
  BY <1>1 DEF OtherCommit, ReadNext
<1>2. CASE Call
  BY <1>2 DEF Call, ReadNext
<1>3. CASE TakeSnapshot
  BY <1>3 DEF TakeSnapshot, avars
<1>4. CASE Fails
  BY <1>4 DEF Fails, ReadNext, Return
<1>5. CASE Get
  <2>1. call.request \in Requests /\ ts \in call.since .. Len(history)
    BY <1>5 DEF IInv, TypeOK, Phases, Get
  <2>2. Pushed({k \in Keys : k = call.request.arg /\ history[ts][k] # None}, history[ts]) = Pairs(call.request, history[ts])
    BY <1>5 DEF Pushed, Pairs, Asks, Get
  <2> QED BY <1>5, <2>1, <2>2 DEF Get, Return, ReadNext
<1>6. CASE Page
  <2> DEFINE s == history[ts]
  <2>1. /\ ts \in call.since .. Len(history) /\ s \in Contents
        /\ call.request \in Requests /\ call.request.op = "scan"
        /\ cursor \in ByteString /\ ~ Less(cursor, Arg) /\ out = Pushed(Below(s, cursor), s)
    BY <1>6 DEF IInv, TypeOK, Phases, Collected, Page
  <2>2. PICK page \in FirstOf(InRange(s)) : Collect(page, s)
    BY <1>6 DEF Page
  <2> HIDE DEF s
  <2>3. CASE FullPage(page)
    BY <2>2, <2>3 DEF Collect, avars
  <2>4. CASE ~ FullPage(page)
    <3>1. out' = Pushed(Below(s, cursor) \union page, s)
      BY <2>1, <2>2, PushedUnion DEF Collect
    <3>2. out' = Pairs(call.request, s)
      BY <2>1, <2>4, <3>1, LastPageStep
    <3>3. Answer(Ok(Pairs(call.request, history[ts])))
      BY <2>2, <2>4, <3>2 DEF Collect, s
    <3> QED BY <2>1, <3>3 DEF Return, ReadNext
  <2> QED BY <2>3, <2>4
<1>7. CASE UNCHANGED vars
  BY <1>7 DEF vars, avars
<1> QED BY <1>1, <1>2, <1>3, <1>4, <1>5, <1>6, <1>7 DEF Next, Progress

\* A scan, however many pages it takes and whatever is committed between them,
\* answers with the pairs under the prefix as they were at one moment of the call.
THEOREM ScanImplementsRead == Spec => ReadsOneMoment
<1>1. Init => ReadInit
  BY DEF Init
<1> QED BY <1>1, Invariance, StepRefines, PTL DEF Spec, ReadsOneMoment, ReadSpec

-----------------------------------------------------------------------------
\* What a page brings is as many pairs as it holds keys.
LEMMA PushedCardinality ==
  ASSUME NEW s, NEW S, IsFiniteSet(S)
  PROVE  IsFiniteSet(Pushed(S, s)) /\ Cardinality(Pushed(S, s)) = Cardinality(S)
<1> DEFINE f == [k \in S |-> <<k, s[k]>>]
<1>1. f \in [S -> Pushed(S, s)]
  BY DEF Pushed
<1>2. \A j, k \in S : f[j] = f[k] => j = k
  OBVIOUS
<1>3. \A p \in Pushed(S, s) : \E k \in S : f[k] = p
  BY DEF Pushed
<1> HIDE DEF f
<1>4. f \in Bijection(S, Pushed(S, s))
  BY <1>1, <1>2, <1>3 DEF Bijection, Injection, Surjection, IsInjective
<1>5. ExistsBijection(S, Pushed(S, s))
  BY <1>4 DEF ExistsBijection
<1> QED BY <1>5, FS_Bijection

\* A page that another one follows is full, and all of it is new.
LEMMA FullPageAdvances ==
  ASSUME IInv, Page, pc' = "read"
  PROVE  Less(cursor, cursor') /\ Cardinality(out') = Cardinality(out) + SCAN_PAGE
<1> DEFINE s == history[ts]
<1>1. pc = "read" /\ call.request.op = "scan"
  BY DEF Page
<1>2. PICK page \in FirstOf(InRange(s)) : Collect(page, s)
  BY DEF Page
<1>3. /\ s \in Contents /\ cursor \in ByteString /\ out = Pushed(Below(s, cursor), s)
  BY <1>1 DEF IInv, TypeOK, Phases, Collected
<1>4. page \subseteq Keys /\ \A k \in page : ~ Less(k, cursor)
  BY DEF FirstOf, InRange
<1> HIDE DEF s
<1>5. FullPage(page)
  BY <1>2 DEF Collect
<1>6. Cardinality(page) = SCAN_PAGE
  BY <1>5 DEF FullPage
<1>7. PICK last \in page : cursor' = NextCursor(last)
  BY <1>2, <1>5 DEF Collect
<1>8. Less(cursor, cursor')
  <2>1. last \in ByteString /\ ~ Less(last, cursor)
    BY <1>4, KeysAssumption
  <2>2. cursor' \in ByteString /\ Less(last, cursor')
    BY <1>7, <2>1, SuccessorIsNext, LessIrreflexive DEF NextCursor
  <2>3. cursor = last \/ Less(cursor, last)
    BY <1>3, <2>1, LessTotal
  <2> QED BY <1>3, <2>1, <2>2, <2>3, LessTransitive
<1>9. IsFiniteSet(page) /\ IsFiniteSet(Below(s, cursor)) /\ Below(s, cursor) \intersect page = {}
  <2>1. Below(s, cursor) \subseteq Keys
    BY DEF Below
  <2>2. Below(s, cursor) \intersect page = {}
    BY <1>4 DEF Below
  <2> QED BY <1>4, <2>1, <2>2, KeysAreFinite, FS_Subset
<1> DEFINE both == Below(s, cursor) \union page
<1>10. IsFiniteSet(both) /\ Cardinality(both) = Cardinality(Below(s, cursor)) + Cardinality(page)
  <2>1. /\ IsFiniteSet(both)
        /\ Cardinality(both) = Cardinality(Below(s, cursor)) + Cardinality(page) - Cardinality(Below(s, cursor) \intersect page)
    BY <1>9, FS_Union
  <2>2. Cardinality(Below(s, cursor) \intersect page) = 0
    BY <1>9, FS_EmptySet
  <2>3. Cardinality(Below(s, cursor)) \in Nat /\ Cardinality(page) \in Nat
    BY <1>9, FS_CardinalityType
  <2> QED BY <2>1, <2>2, <2>3
<1>11. out' = Pushed(both, s)
  BY <1>2, <1>3, PushedUnion DEF Collect
<1> HIDE DEF both
<1>12. Cardinality(out') = Cardinality(both) /\ Cardinality(out) = Cardinality(Below(s, cursor))
  BY <1>3, <1>9, <1>10, <1>11, PushedCardinality
<1> QED BY <1>6, <1>8, <1>10, <1>12

\* A page after which the scan goes on moves the cursor up and brings SCAN_PAGE
\* pairs that no page brought before: the pages of a scan are at most as many as
\* full ones go into the snapshot, and the last one.
THEOREM FullPagesAdvance ==
  Spec => [][pc = "read" /\ pc' = "read" /\ history' = history =>
               Less(cursor, cursor') /\ Cardinality(out') = Cardinality(out) + SCAN_PAGE]_vars
<1> DEFINE Advance == pc = "read" /\ pc' = "read" /\ history' = history =>
                        Less(cursor, cursor') /\ Cardinality(out') = Cardinality(out) + SCAN_PAGE
<1>1. IInv /\ [Next]_vars => [Advance]_vars
  <2> SUFFICES ASSUME IInv, Next, pc = "read", pc' = "read", history' = history PROVE Advance
    OBVIOUS
  <2>1. ~ OtherCommit
    <3> SUFFICES ASSUME OtherCommit PROVE FALSE
      OBVIOUS
    <3>1. history' # history
      BY CommitType DEF IInv, TypeOK, OtherCommit
    <3> QED BY <3>1
  <2>2. ~ (Call \/ TakeSnapshot \/ Get \/ Fails)
    BY DEF Call, TakeSnapshot, Get, Fails
  <2>3. Page
    BY <2>1, <2>2 DEF Next, Progress
  <2> QED BY <2>3, FullPageAdvances
<1> QED BY <1>1, Invariance, PTL DEF Spec

-----------------------------------------------------------------------------
(* The precondition of a cross-region test                                   *)

Proper(r) == r.end = <<>> \/ Less(r.start, r.end)

\* The regions partition the keys, and are told apart by their ids.
Partition ==
  /\ \A r \in layout : Proper(r)
  /\ \A r, q \in layout : r.id = q.id => r = q
  /\ \A k \in ByteString : \E r \in layout : Within(r, k)
  /\ \A k \in ByteString : \A r, q \in layout : Within(r, k) /\ Within(q, k) => r = q

\* A view tells what held when it was served.
ViewTells == stage = "reply" => (Separate(snapshot) <=> apart)

\* The addresses before the one that is tried are useless.
Tried == stage \in {"get", "reply"} => \A i \in Good : i >= at

\* What is to be split is a region of the view.
Straddling == stage = "post" => straddle \in 1 .. lastId

\* The time of each part of a round.
Clock ==
  /\ stage \in {"get", "reply"} => now <= TIMEOUT + Endpoints * PD_TIMEOUT + SLEEP + (at - 1) * PD_TIMEOUT
  /\ stage = "post" => now <= TIMEOUT + (at - 1) * PD_TIMEOUT
  /\ stage = "sleep" => now <= TIMEOUT + Endpoints * PD_TIMEOUT

Regions ==
  /\ layout \subseteq [id : 1 .. lastId, start : ByteString, end : ByteString]
  /\ lastId \in 1 .. MaxId

CrossIInv ==
  /\ CrossTypeOK /\ Regions /\ Partition
  /\ ViewTells /\ VerdictOfOneMoment
  /\ Tried /\ ReachableIsReached /\ Straddling
  /\ Clock /\ BoundedOverrun

-----------------------------------------------------------------------------
(* Regions                                                                   *)

\* No string precedes the empty one.
LEMMA EmptyString == <<>> \in ByteString /\ \A k \in ByteString : ~ Less(k, <<>>)
<1>1. Len(<<>>) = 0 /\ <<>> \in ByteString
  BY DEF ByteString
<1> QED BY <1>1 DEF Less

\* Of three keys in a row.
LEMMA NotAfter ==
  ASSUME NEW s \in ByteString, NEW t \in ByteString, NEW u \in ByteString
  PROVE  /\ Less(s, t) /\ ~ Less(u, t) => ~ Less(u, s)
         /\ Less(s, t) /\ ~ Less(u, t) => Less(s, u)
         /\ Less(s, t) /\ Less(t, u) => Less(s, u)
         /\ ~ Less(s, t) /\ s # t => Less(t, s)
         /\ ~ (Less(s, t) /\ Less(t, s))
BY LessTotal, LessTransitive, LessIrreflexive

\* The two halves of a region hold what it held, each its own part.
LEMMA Halves ==
  ASSUME NEW r, r.start \in ByteString, r.end \in ByteString, Proper(r),
         NEW c \in ByteString, c # r.start, Within(r, c), NEW i, NEW j
  PROVE  /\ c # <<>>
         /\ Proper(Region(i, r.start, c)) /\ Proper(Region(j, c, r.end))
         /\ \A k \in ByteString :
              /\ Within(r, k) <=> Within(Region(i, r.start, c), k) \/ Within(Region(j, c, r.end), k)
              /\ ~ (Within(Region(i, r.start, c), k) /\ Within(Region(j, c, r.end), k))
<1>1. Less(r.start, c)
  <2>1. ~ Less(c, r.start)
    BY EmptyString DEF Within
  <2> QED BY <2>1, LessTotal
<1>2. c # <<>>
  BY <1>1, EmptyString
<1>3. r.end = <<>> \/ Less(c, r.end)
  BY DEF Within
<1>4. ASSUME NEW k \in ByteString
      PROVE  /\ Within(r, k) <=> Within(Region(i, r.start, c), k) \/ Within(Region(j, c, r.end), k)
             /\ ~ (Within(Region(i, r.start, c), k) /\ Within(Region(j, c, r.end), k))
  <2>1. Within(Region(i, r.start, c), k) <=> ~ Less(k, r.start) /\ Less(k, c)
    BY <1>2, EmptyString DEF Within, Region
  <2>2. Within(Region(j, c, r.end), k) <=> ~ Less(k, c) /\ (r.end = <<>> \/ Less(k, r.end))
    BY <1>2 DEF Within, Region
  <2>3. Within(r, k) <=> ~ Less(k, r.start) /\ (r.end = <<>> \/ Less(k, r.end))
    BY EmptyString DEF Within
  <2>4. Less(k, c) => r.end = <<>> \/ Less(k, r.end)
    BY <1>3, LessTransitive
  <2>5. ~ Less(k, c) => ~ Less(k, r.start)
    BY <1>1, LessTransitive
  <2> QED BY <2>1, <2>2, <2>3, <2>4, <2>5
<1> QED BY <1>1, <1>2, <1>3, <1>4 DEF Proper, Region

\* A region glued to the next one holds what the two held.
LEMMA Glued ==
  ASSUME NEW r, r.start \in ByteString, r.end \in ByteString, Proper(r),
         NEW q, q.start \in ByteString, q.end \in ByteString, Proper(q),
         r.end = q.start, r.end # <<>>, NEW i
  PROVE  /\ Proper(Region(i, r.start, q.end))
         /\ \A k \in ByteString : Within(Region(i, r.start, q.end), k) <=> Within(r, k) \/ Within(q, k)
<1>1. Less(r.start, r.end) /\ (q.end = <<>> \/ Less(r.end, q.end))
  BY DEF Proper
<1>2. Proper(Region(i, r.start, q.end))
  BY <1>1, LessTransitive DEF Proper, Region
<1>3. ASSUME NEW k \in ByteString
      PROVE  Within(Region(i, r.start, q.end), k) <=> Within(r, k) \/ Within(q, k)
  <2>1. Within(Region(i, r.start, q.end), k) <=> ~ Less(k, r.start) /\ (q.end = <<>> \/ Less(k, q.end))
    BY EmptyString DEF Within, Region
  <2>2. Within(r, k) <=> ~ Less(k, r.start) /\ Less(k, r.end)
    BY EmptyString DEF Within
  <2>3. Within(q, k) <=> ~ Less(k, r.end) /\ (q.end = <<>> \/ Less(k, q.end))
    BY EmptyString DEF Within
  <2>4. Less(k, r.end) => q.end = <<>> \/ Less(k, q.end)
    BY <1>1, LessTransitive
  <2>5. ~ Less(k, r.end) => ~ Less(k, r.start)
    BY <1>1, LessTransitive
  <2> QED BY <2>1, <2>2, <2>3, <2>4, <2>5
<1> QED BY <1>2, <1>3

\* The halves of a region take its place in the partition.
LEMMA SplitKeeps ==
  ASSUME Regions, Partition, NEW r \in layout, NEW c \in ByteString, Split(r, c)
  PROVE  Regions' /\ Partition' /\ lastId' >= lastId
<1>1. PICK ids \in {<<r.id, lastId'>>, <<lastId', r.id>>} :
        layout' = (layout \ {r}) \union {Region(ids[1], r.start, c), Region(ids[2], c, r.end)}
  BY DEF Split
<1> DEFINE a == Region(ids[1], r.start, c)
           b == Region(ids[2], c, r.end)
<1>2. lastId' = lastId + 1 /\ lastId' \in 1 .. MaxId /\ lastId \in 1 .. MaxId
  BY TimeAssumption DEF Split, Regions
<1>3. r.start \in ByteString /\ r.end \in ByteString /\ r.id \in 1 .. lastId
  BY DEF Regions
<1>4. /\ Proper(a) /\ Proper(b)
      /\ \A k \in ByteString : (Within(r, k) <=> Within(a, k) \/ Within(b, k)) /\ ~ (Within(a, k) /\ Within(b, k))
  <2>1. c # r.start /\ Within(r, c) /\ Proper(r)
    BY DEF Split, Partition
  <2>2. ASSUME NEW i, NEW j
        PROVE  /\ Proper(Region(i, r.start, c)) /\ Proper(Region(j, c, r.end))
               /\ \A k \in ByteString :
                    /\ Within(r, k) <=> Within(Region(i, r.start, c), k) \/ Within(Region(j, c, r.end), k)
                    /\ ~ (Within(Region(i, r.start, c), k) /\ Within(Region(j, c, r.end), k))
    BY <1>3, <2>1, Halves, Zenon
  <2> QED BY <2>2
<1>5. a.id # b.id /\ a.id \in {r.id, lastId'} /\ b.id \in {r.id, lastId'} /\ a # b
  BY <1>2, <1>3 DEF Region
<1>6. \A q \in layout \ {r} : q.id # r.id /\ q.id # lastId'
  BY <1>2 DEF Regions, Partition
<1>7. Regions'
  BY <1>1, <1>2, <1>3, <1>5 DEF Regions, Region
<1> HIDE DEF a, b
<1>8. layout' = (layout \ {r}) \union {a, b}
  BY <1>1 DEF a, b
<1>9. \A p, q \in layout' : p.id = q.id => p = q
  BY <1>5, <1>6, <1>8 DEF Partition
<1>10. ASSUME NEW k \in ByteString
       PROVE  \E q \in layout' : Within(q, k)
  <2>1. PICK q \in layout : Within(q, k)
    BY DEF Partition
  <2>2. CASE q = r
    BY <1>4, <1>8, <2>1, <2>2
  <2> QED BY <1>8, <2>1, <2>2
<1>11. ASSUME NEW k \in ByteString, NEW p \in layout', NEW q \in layout', Within(p, k), Within(q, k)
       PROVE  p = q
  <2>1. \A x \in {a, b} : Within(x, k) => Within(r, k)
    BY <1>4
  <2>2. \A x \in layout \ {r} : ~ (Within(x, k) /\ Within(r, k))
    BY DEF Partition
  <2>3. CASE p \in layout \ {r} /\ q \in layout \ {r}
    BY <1>11, <2>3 DEF Partition
  <2>4. CASE p \in {a, b} /\ q \in {a, b}
    BY <1>4, <1>11, <2>4
  <2> QED BY <1>8, <1>11, <2>1, <2>2, <2>3, <2>4
<1>12. \A q \in layout' : Proper(q)
  BY <1>4, <1>8 DEF Partition
<1> QED BY <1>2, <1>7, <1>9, <1>10, <1>11, <1>12 DEF Partition

\* Two neighbours, glued together, take their places.
LEMMA MergeKeeps ==
  ASSUME Regions, Partition, Merges
  PROVE  Regions' /\ Partition'
<1>0. PICK r \in layout, q \in layout :
        /\ r.end = q.start /\ r.end # <<>>
        /\ \E id \in {r.id, q.id} : layout' = (layout \ {r, q}) \union {Region(id, r.start, q.end)}
  BY DEF Merges
<1>1. PICK id \in {r.id, q.id} :
        /\ r.end = q.start /\ r.end # <<>>
        /\ layout' = (layout \ {r, q}) \union {Region(id, r.start, q.end)}
  BY <1>0
<1> DEFINE m == Region(id, r.start, q.end)
<1>2. /\ r.start \in ByteString /\ r.end \in ByteString /\ r.id \in 1 .. lastId /\ Proper(r)
      /\ q.start \in ByteString /\ q.end \in ByteString /\ q.id \in 1 .. lastId /\ Proper(q)
  BY DEF Regions, Partition
<1>3. Proper(m) /\ \A k \in ByteString : Within(m, k) <=> Within(r, k) \/ Within(q, k)
  BY <1>1, <1>2, Glued
<1>4. Regions'
  BY <1>1, <1>2 DEF Regions, Merges, Region
<1>5. m.id \in {r.id, q.id}
  BY <1>1 DEF Region
<1> HIDE DEF m
<1>6. layout' = (layout \ {r, q}) \union {m}
  BY <1>1 DEF m
<1>7. \A x \in layout \ {r, q} : x.id # r.id /\ x.id # q.id
  BY DEF Partition
<1>8. \A x, y \in layout' : x.id = y.id => x = y
  BY <1>5, <1>6, <1>7 DEF Partition
<1>9. ASSUME NEW k \in ByteString
      PROVE  \E x \in layout' : Within(x, k)
  <2>1. PICK x \in layout : Within(x, k)
    BY DEF Partition
  <2>2. CASE x \in {r, q}
    BY <1>3, <1>6, <2>1, <2>2
  <2> QED BY <1>6, <2>1, <2>2
<1>10. ASSUME NEW k \in ByteString, NEW x \in layout', NEW y \in layout', Within(x, k), Within(y, k)
       PROVE  x = y
  <2>1. Within(m, k) => \A z \in layout \ {r, q} : ~ Within(z, k)
    BY <1>3 DEF Partition
  <2>2. CASE x # m /\ y # m
    BY <1>6, <1>10, <2>2 DEF Partition
  <2> QED BY <1>6, <1>10, <2>1, <2>2
<1>11. \A x \in layout' : Proper(x)
  BY <1>3, <1>6 DEF Partition
<1> QED BY <1>4, <1>8, <1>9, <1>10, <1>11 DEF Partition

-----------------------------------------------------------------------------
(* Views                                                                     *)

\* A bound as PD reports it is a byte string, empty where there is none, and encoded otherwise.
LEMMA BoundType ==
  ASSUME NEW k \in ByteString
  PROVE  Bound(k) \in ByteString /\ (Bound(k) = <<>> <=> k = <<>>) /\ (k # <<>> => Bound(k) = EncodeKey(k))
<1>1. k # <<>> => Bound(k) = EncodeKey(k)
  BY DEF Bound, EncodeKey
<1>2. EncodeKey(k) \in ByteString /\ Len(EncodeKey(k)) = 9 * (Len(k) \div 8 + 1)
  BY EncodedType, ByteAssumption
<1>3. EncodeKey(k) # <<>>
  BY <1>2, StringType
<1> QED BY <1>1, <1>2, <1>3, EmptyString DEF Bound

\* A region of a view holds the encoding of the keys that the region holds.
LEMMA WithinView ==
  ASSUME NEW r \in layout, Regions, NEW k \in ByteString
  PROVE  Within(Region(r.id, Bound(r.start), Bound(r.end)), EncodeKey(k)) <=> Within(r, k)
<1>1. r.start \in ByteString /\ r.end \in ByteString
  BY DEF Regions
<1>2. Less(EncodeKey(k), EncodeKey(r.start)) <=> Less(k, r.start)
  BY <1>1, EncodingPreservesOrder, ByteAssumption
<1>3. Less(EncodeKey(k), EncodeKey(r.end)) <=> Less(k, r.end)
  BY <1>1, EncodingPreservesOrder, ByteAssumption
<1>4. /\ Bound(r.start) = <<>> <=> r.start = <<>>
      /\ r.start # <<>> => Bound(r.start) = EncodeKey(r.start)
      /\ Bound(r.end) = <<>> <=> r.end = <<>>
      /\ r.end # <<>> => Bound(r.end) = EncodeKey(r.end)
  BY <1>1, BoundType
<1> QED BY <1>2, <1>3, <1>4 DEF Within, Region

\* What a view is made of.
LEMMA ViewType ==
  ASSUME Regions
  PROVE  \A r \in View : r.id \in 1 .. lastId /\ r.start \in ByteString /\ r.end \in ByteString
BY BoundType DEF View, Regions, Region

\* In a view of one moment the keys have different regions just if no region
\* held both.
LEMMA ViewSeparates ==
  ASSUME Regions, Partition
  PROVE  Separate(View) <=> Apart
<1>1. lo \in ByteString /\ hi \in ByteString
  BY SplitAtAssumption
<1>2. ASSUME NEW k \in ByteString
      PROVE  Locate(View, EncodeKey(k)) = {r.id : r \in {q \in layout : Within(q, k)}}
  <2> DEFINE seen(r) == Region(r.id, Bound(r.start), Bound(r.end))
  <2>1. Locate(View, EncodeKey(k)) = {seen(r).id : r \in {q \in layout : Within(seen(q), EncodeKey(k))}}
    BY DEF Locate, View
  <2>2. \A r \in layout : (Within(seen(r), EncodeKey(k)) <=> Within(r, k)) /\ seen(r).id = r.id
    BY WithinView DEF Region
  <2> HIDE DEF seen
  <2> QED BY <2>1, <2>2
<1>3. PICK a \in layout : Within(a, lo) /\ \A q \in layout : Within(q, lo) => q = a
  BY <1>1 DEF Partition
<1>4. PICK b \in layout : Within(b, hi) /\ \A q \in layout : Within(q, hi) => q = b
  BY <1>1 DEF Partition
<1>5. Locate(View, LoKey) = {a.id} /\ Locate(View, HiKey) = {b.id}
  BY <1>1, <1>2, <1>3, <1>4 DEF LoKey, HiKey
<1>6. Separate(View) <=> a.id # b.id
  BY <1>5 DEF Separate
<1>7. Apart <=> a # b
  BY <1>3, <1>4 DEF Apart
<1> QED BY <1>6, <1>7 DEF Partition

-----------------------------------------------------------------------------
(* The invariant                                                             *)

\* Requests to some of the endpoints take no longer than requests to all.
LEMMA Times ==
  ASSUME NEW i \in 1 .. Endpoints
  PROVE  /\ PD_TIMEOUT \in Nat /\ TIMEOUT \in Nat /\ SLEEP \in Nat /\ Endpoints * PD_TIMEOUT \in Nat
         /\ (i - 1) * PD_TIMEOUT \in Nat
         /\ (i - 1) * PD_TIMEOUT + PD_TIMEOUT <= Endpoints * PD_TIMEOUT
         /\ i + 1 - 1 = i /\ i * PD_TIMEOUT = (i - 1) * PD_TIMEOUT + PD_TIMEOUT
<1>1. PD_TIMEOUT \in Nat /\ TIMEOUT \in Nat /\ SLEEP \in Nat /\ Endpoints \in Nat
  BY TimeAssumption, EndpointsAssumption
<1>2. \A a, b \in Nat, p \in Nat : a <= b => a * p <= b * p
  OBVIOUS
<1>3. i * PD_TIMEOUT <= Endpoints * PD_TIMEOUT
  BY <1>1, <1>2
<1>4. i * PD_TIMEOUT = (i - 1) * PD_TIMEOUT + PD_TIMEOUT
  BY <1>1
<1> QED BY <1>1, <1>3, <1>4

\* One region holds every key, and nobody has waited.
LEMMA Initially ==
  ASSUME CrossInit
  PROVE  CrossIInv
<1>1. CrossTypeOK /\ Regions
  <2>1. <<>> \in ByteString /\ 1 \in 1 .. MaxId /\ 1 \in 1 .. Endpoints
    BY EmptyString, TimeAssumption, EndpointsAssumption
  <2>2. layout = {[id |-> 1, start |-> <<>>, end |-> <<>>]}
    BY DEF CrossInit, Region
  <2>3. lastId = 1 /\ 1 \in 1 .. 1
    BY DEF CrossInit
  <2>4. Regions
    BY <2>1, <2>2, <2>3 DEF Regions
  <2>5. CrossTypeOK
    <3>1. \A r \in layout : r.id \in 1 .. lastId /\ r.start \in ByteString /\ r.end \in ByteString
      BY <2>4 DEF Regions
    <3>2. snapshot = {} /\ asked = {} /\ straddle = None /\ apart = FALSE /\ stage = "get" /\ at = 1 /\ now = 0
      BY DEF CrossInit
    <3> QED BY <2>1, <2>3, <3>1, <3>2 DEF CrossTypeOK
  <2> QED BY <2>4, <2>5
<1>2. Partition
  BY EmptyString DEF CrossInit, Partition, Proper, Within, Region
<1>3. Tried
  BY EndpointsAssumption DEF CrossInit, Tried
<1>4. 1 \in 1 .. Endpoints
  BY EndpointsAssumption
<1>5. Clock /\ BoundedOverrun
  BY <1>4, Times DEF CrossInit, Clock, BoundedOverrun
<1> QED BY <1>1, <1>2, <1>3, <1>5 DEF CrossIInv, CrossInit, ViewTells, VerdictOfOneMoment, ReachableIsReached, Straddling

\* The cluster changes the regions, and keeps them a partition.
LEMMA ClusterKeeps ==
  ASSUME CrossIInv, SplitsItself \/ Merges \/ Operator
  PROVE  CrossIInv'
<1>1. Regions' /\ Partition' /\ lastId' \in Nat /\ lastId' >= lastId
  <2>1. ASSUME NEW r \in layout, NEW c \in ByteString, Split(r, c)
        PROVE  Regions' /\ Partition' /\ lastId' \in Nat /\ lastId' >= lastId
    BY <2>1, SplitKeeps DEF CrossIInv, Regions
  <2>2. CASE SplitsItself
    BY <2>1, <2>2, CutsAssumption DEF SplitsItself
  <2>3. CASE Merges
    BY <2>3, MergeKeeps DEF CrossIInv, Merges, CrossTypeOK
  <2>4. CASE Operator
    <3>1. CASE UNCHANGED <<layout, lastId>>
      BY <3>1 DEF CrossIInv, Regions, Partition, CrossTypeOK
    <3>2. CASE \E r \in layout : Split(r, split_at)
      BY <2>1, <3>2, SplitAtAssumption
    <3> QED BY <2>4, <3>1, <3>2 DEF Operator
  <2> QED BY <2>2, <2>3, <2>4
<1>2. UNCHANGED caller /\ asked' \subseteq asked
  BY DEF SplitsItself, Merges, Operator
<1>3. CrossTypeOK'
  <2>1. lastId \in Nat /\ lastId' \in 1 .. MaxId
    BY <1>1 DEF CrossIInv, CrossTypeOK, Regions
  <2>2. \A x : x \in 1 .. lastId => x \in 1 .. lastId'
    BY <1>1, <2>1
  <2> QED BY <1>1, <1>2, <2>1, <2>2 DEF CrossIInv, CrossTypeOK, Regions, caller
<1>4. Straddling'
  BY <1>1, <1>2 DEF CrossIInv, CrossTypeOK, Straddling, caller
<1> QED BY <1>1, <1>2, <1>3, <1>4
      DEF CrossIInv, caller, ViewTells, VerdictOfOneMoment, Tried, ReachableIsReached, Clock, BoundedOverrun,
          Separate, Locate, LoKey, HiKey

\* The call leaves the regions alone.
LEMMA CallKeepsRegions ==
  ASSUME CrossIInv, UNCHANGED <<layout, lastId>>
  PROVE  Regions' /\ Partition' /\ (Apart' <=> Apart)
BY DEF CrossIInv, Regions, Partition, Apart

\* A view is of the moment at which it is served.
LEMMA ServeKeeps ==
  ASSUME CrossIInv, Serve
  PROVE  CrossIInv'
<1>1. Regions' /\ Partition'
  BY CallKeepsRegions DEF Serve, cluster
<1>2. CrossTypeOK'
  <2>1. \A r \in snapshot' : r.id \in 1 .. lastId /\ r.start \in ByteString /\ r.end \in ByteString
    BY ViewType DEF CrossIInv, Serve
  <2>2. apart' \in BOOLEAN
    BY Zenon DEF Serve, Apart
  <2> QED BY <2>1, <2>2 DEF CrossIInv, CrossTypeOK, Serve, cluster
<1>3. ViewTells'
  BY ViewSeparates DEF CrossIInv, ViewTells, Serve, Separate, Locate, LoKey, HiKey
<1> QED BY <1>1, <1>2, <1>3
      DEF CrossIInv, Serve, VerdictOfOneMoment, Tried, ReachableIsReached, Straddling, Clock, BoundedOverrun

\* An endpoint that is of no use costs one PD_TIMEOUT, and is not a good one.
LEMMA GetFailsKeeps ==
  ASSUME CrossIInv, GetFails
  PROVE  CrossIInv'
<1>1. Regions' /\ Partition'
  BY CallKeepsRegions DEF GetFails, cluster
<1>2. /\ at \in 1 .. Endpoints /\ at \notin Good /\ now \in Nat
      /\ \A i \in Good : i \in 1 .. Endpoints /\ i > at
  BY EndpointsAssumption DEF CrossIInv, CrossTypeOK, GetFails, Tried
<1>3. PICK d \in 0 .. PD_TIMEOUT : now' = now + d
  BY DEF GetFails, Takes
<1>4. /\ now' \in Nat
      /\ now' <= TIMEOUT + Endpoints * PD_TIMEOUT + SLEEP + at * PD_TIMEOUT
      /\ at * PD_TIMEOUT <= Endpoints * PD_TIMEOUT
  BY <1>2, <1>3, Times DEF CrossIInv, Clock, GetFails
<1>5. BoundedOverrun'
  BY <1>2, <1>4, Times DEF BoundedOverrun
<1>6. CASE at < Endpoints /\ stage' = "get" /\ at' = at + 1
  <2>1. Clock'
    BY <1>2, <1>4, <1>6, Times DEF Clock
  <2>2. CrossTypeOK'
    BY <1>2, <1>4, <1>6, EndpointsAssumption DEF CrossIInv, CrossTypeOK, GetFails, cluster
  <2> QED BY <1>1, <1>2, <1>5, <1>6, <2>1, <2>2
        DEF CrossIInv, ViewTells, VerdictOfOneMoment, Tried, ReachableIsReached, Straddling
<1>7. CASE at = Endpoints /\ stage' = "unreachable" /\ at' = at
  <2>1. Good = {}
    BY <1>2, <1>7
  <2>2. CrossTypeOK'
    BY <1>2, <1>4, <1>7 DEF CrossIInv, CrossTypeOK, GetFails, cluster
  <2> QED BY <1>1, <1>5, <1>7, <2>1, <2>2
        DEF CrossIInv, ViewTells, VerdictOfOneMoment, Tried, ReachableIsReached, Straddling, Clock
<1> QED BY <1>2, <1>6, <1>7, EndpointsAssumption DEF GetFails, HasNext

\* The verdict is that of the view, and a round begins only before the deadline.
LEMMA JudgeKeeps ==
  ASSUME CrossIInv, Judge
  PROVE  CrossIInv'
<1>1. Regions' /\ Partition'
  BY CallKeepsRegions DEF Judge, cluster
<1>2. at \in 1 .. Endpoints /\ now \in Nat /\ 1 \in 1 .. Endpoints /\ at' = 1 /\ lastId' = lastId
  BY EndpointsAssumption DEF CrossIInv, CrossTypeOK, Judge, cluster
<1>3. PICK d \in 0 .. PD_TIMEOUT : now' = now + d
  BY DEF Judge, Takes
<1>4. now' \in Nat /\ now' <= TIMEOUT + Endpoints * PD_TIMEOUT + SLEEP + Endpoints * PD_TIMEOUT
  BY <1>2, <1>3, Times DEF CrossIInv, Clock, Judge
<1>5. stage' \in {"met", "unmet", "sleep", "post"} /\ (stage' \in {"sleep", "post"} => now' <= TIMEOUT)
  BY <1>4, TimeAssumption DEF Judge, Expired
<1>6. straddle' \in {None} \union 1 .. lastId'
  <2>1. Locate(snapshot, LoKey) \subseteq 1 .. lastId
    BY DEF CrossIInv, CrossTypeOK, Locate
  <2> QED BY <1>2, <2>1 DEF CrossIInv, CrossTypeOK, Judge
<1>10. Straddling'
  BY <1>2 DEF CrossIInv, CrossTypeOK, Locate, Judge, Straddling
<1>7. CrossTypeOK'
  BY <1>2, <1>4, <1>5, <1>6 DEF CrossIInv, CrossTypeOK, Judge, cluster
<1>8. VerdictOfOneMoment'
  BY DEF CrossIInv, ViewTells, VerdictOfOneMoment, Judge
<1>9. Clock' /\ BoundedOverrun'
  BY <1>2, <1>4, <1>5, Times DEF Clock, BoundedOverrun
<1> QED BY <1>1, <1>5, <1>7, <1>8, <1>9, <1>10 DEF CrossIInv, ViewTells, Tried, ReachableIsReached

\* A request for a split costs one PD_TIMEOUT per endpoint.
LEMMA PostKeeps ==
  ASSUME CrossIInv, Post
  PROVE  CrossIInv'
<1>1. Regions' /\ Partition'
  BY CallKeepsRegions DEF Post
<1>2. at \in 1 .. Endpoints /\ now \in Nat
  BY DEF CrossIInv, CrossTypeOK
<1>3. PICK d \in 0 .. PD_TIMEOUT : now' = now + d
  BY DEF Post, Takes
<1>4. /\ now' \in Nat /\ now' <= TIMEOUT + at * PD_TIMEOUT
      /\ at * PD_TIMEOUT <= Endpoints * PD_TIMEOUT
  BY <1>2, <1>3, Times DEF CrossIInv, Clock, Post
<1>5. \/ stage' = "sleep" /\ at' = at
      \/ stage' = "post" /\ at' = at + 1 /\ at < Endpoints
  BY DEF Post, HasNext
<1>8. straddle \in 1 .. lastId /\ UNCHANGED <<straddle, lastId>>
  BY DEF CrossIInv, Straddling, Post
<1>6. CrossTypeOK'
  <2>1. at' \in 1 .. Endpoints
    BY <1>2, <1>5, EndpointsAssumption
  <2> QED BY <1>4, <1>5, <1>8, <2>1 DEF CrossIInv, CrossTypeOK, Post
<1>7. Clock' /\ BoundedOverrun'
  BY <1>2, <1>4, <1>5, Times DEF Clock, BoundedOverrun
<1>9. Straddling'
  BY <1>8 DEF Straddling
<1> QED BY <1>1, <1>5, <1>6, <1>7, <1>9 DEF CrossIInv, ViewTells, VerdictOfOneMoment, Tried, ReachableIsReached

\* The sleep ends the round.
LEMMA SleepKeeps ==
  ASSUME CrossIInv, Sleep
  PROVE  CrossIInv'
<1>1. Regions' /\ Partition'
  BY CallKeepsRegions DEF Sleep, cluster
<1>2. 1 \in 1 .. Endpoints /\ now \in Nat /\ at' = 1 /\ now' = now + SLEEP /\ stage = "sleep" /\ stage' = "get"
  BY EndpointsAssumption DEF CrossIInv, CrossTypeOK, Sleep
<1>3. now' \in Nat /\ now' <= TIMEOUT + Endpoints * PD_TIMEOUT + SLEEP
  BY <1>2, Times DEF CrossIInv, Clock
<1>4. CrossTypeOK'
  BY <1>2, <1>3 DEF CrossIInv, CrossTypeOK, Sleep, cluster
<1>5. Clock' /\ BoundedOverrun'
  BY <1>2, <1>3, Times DEF Clock, BoundedOverrun
<1>6. Tried'
  BY <1>2, EndpointsAssumption DEF Tried
<1> QED BY <1>1, <1>2, <1>4, <1>5, <1>6 DEF CrossIInv, ViewTells, VerdictOfOneMoment, ReachableIsReached, Straddling

\* The strengthened invariant of the wait for two regions.
THEOREM CrossInvariance == CrossSpec => []CrossIInv
<1>1. CrossIInv /\ [CrossNext]_cross_vars => CrossIInv'
  <2> SUFFICES ASSUME CrossIInv, [CrossNext]_cross_vars
               PROVE  CrossIInv'
    OBVIOUS
  <2>1. CASE UNCHANGED cross_vars
    BY <2>1 DEF cross_vars, CrossIInv, CrossTypeOK, Regions, Partition, ViewTells, VerdictOfOneMoment, Tried,
                ReachableIsReached, Straddling, Clock, BoundedOverrun, Separate, Locate, LoKey, HiKey
  <2> QED BY <2>1, ServeKeeps, GetFailsKeeps, JudgeKeeps, PostKeeps, SleepKeeps, ClusterKeeps DEF CrossNext, Ensure
<1> QED BY <1>1, Initially, PTL DEF CrossSpec

\* Its type.
THEOREM CrossTypeCorrect == CrossSpec => []CrossTypeOK
<1>1. CrossIInv => CrossTypeOK
  BY DEF CrossIInv
<1> QED BY <1>1, CrossInvariance, PTL

\* ensure_cross_region returns only after a moment at which a boundary separated
\* the keys, and blames the cluster only after one at which none did.
THEOREM VerdictSound == CrossSpec => []VerdictOfOneMoment
<1>1. CrossIInv => VerdictOfOneMoment
  BY DEF CrossIInv
<1> QED BY <1>1, CrossInvariance, PTL

\* pd_get panics only if no endpoint answers.
THEOREM FallbackReaches == CrossSpec => []ReachableIsReached
<1>1. CrossIInv => ReachableIsReached
  BY DEF CrossIInv
<1> QED BY <1>1, CrossInvariance, PTL

\* The call overruns its deadline by at most a round.
THEOREM OverrunBounded == CrossSpec => []BoundedOverrun
<1>1. CrossIInv => BoundedOverrun
  BY DEF CrossIInv
<1> QED BY <1>1, CrossInvariance, PTL

-----------------------------------------------------------------------------
\* The latest moment, by BoundedOverrun, and what a round has before it: a request to
\* each endpoint and its answer, the requests for the split, a sleep.
Horizon == TIMEOUT + Endpoints * PD_TIMEOUT + SLEEP + Endpoints * PD_TIMEOUT
Round == 3 * Endpoints + 1
Rank(phase, i) ==
  IF phase = "get" THEN Endpoints + 3 + 2 * (Endpoints - i)
  ELSE IF phase = "reply" THEN Endpoints + 2 + 2 * (Endpoints - i)
  ELSE IF phase = "post" THEN Endpoints - i + 2
  ELSE IF phase = "sleep" THEN 1 ELSE 0
StepsLeft == Round * (Horizon - now) + Rank(stage, at)

\* Products of naturals grow with their factors.
LEMMA Products ==
  ASSUME NEW r \in Nat, NEW a \in Nat, NEW b \in Nat
  PROVE  /\ r * a \in Nat /\ r * b \in Nat
         /\ b <= a => r * b <= r * a
         /\ b < a => r * b + r <= r * a
<1>1. r * (b + 1) = r * b + r
  OBVIOUS
<1>2. \A c, d \in Nat : c <= d => r * c <= r * d
  OBVIOUS
<1>3. b < a => b + 1 <= a /\ b + 1 \in Nat
  OBVIOUS
<1> QED BY <1>1, <1>2, <1>3

\* The steps of a round.
LEMMA RankType ==
  ASSUME NEW i \in 1 .. Endpoints, NEW phase
  PROVE  Rank(phase, i) \in 0 .. Round /\ Round \in Nat
BY EndpointsAssumption DEF Rank, Round

\* How they run down.
LEMMA Ranks ==
  ASSUME NEW i \in 1 .. Endpoints
  PROVE  /\ Rank("reply", i) < Rank("get", i)
         /\ i + 1 <= Endpoints => Rank("get", i + 1) < Rank("reply", i) /\ Rank("get", i + 1) < Rank("get", i)
         /\ i + 1 <= Endpoints => Rank("post", i + 1) < Rank("post", i)
         /\ Rank("post", 1) < Rank("reply", i)
         /\ Rank("sleep", i) < Rank("post", i) /\ Rank("sleep", 1) < Rank("reply", i)
         /\ Rank("sleep", i) = 1
         /\ \A s \in {"met", "unmet", "unreachable"}, j \in 1 .. Endpoints :
              /\ Rank(s, j) = 0
              /\ 0 < Rank("get", i) /\ 0 < Rank("reply", i)
BY EndpointsAssumption DEF Rank

\* The call never gets past its horizon.
LEMMA Ahead == CrossIInv => Horizon - now \in Nat /\ Horizon \in Nat /\ now \in Nat /\ at \in 1 .. Endpoints
<1> SUFFICES ASSUME CrossIInv PROVE Horizon - now \in Nat /\ Horizon \in Nat /\ now \in Nat /\ at \in 1 .. Endpoints
  OBVIOUS
<1>1. now \in Nat /\ at \in 1 .. Endpoints
  BY DEF CrossIInv, CrossTypeOK
<1>2. now <= Horizon
  BY DEF CrossIInv, BoundedOverrun, Horizon
<1>3. Horizon \in Nat
  BY <1>1, Times DEF Horizon
<1> QED BY <1>1, <1>2, <1>3

\* The steps that are left are a number that the time limits bound.
LEMMA StepsLeftType == CrossIInv => StepsLeft \in 0 .. Round * (Horizon + 1)
<1> SUFFICES ASSUME CrossIInv PROVE StepsLeft \in 0 .. Round * (Horizon + 1)
  OBVIOUS
<1>1. /\ Horizon - now \in Nat /\ Horizon \in Nat /\ now \in Nat /\ at \in 1 .. Endpoints
      /\ Rank(stage, at) \in 0 .. Round /\ Round \in Nat
  BY Ahead, RankType
<1>2. Horizon - now < Horizon + 1 /\ Horizon + 1 \in Nat
  BY <1>1
<1>3. /\ Round * (Horizon - now) \in Nat /\ Round * (Horizon + 1) \in Nat
      /\ Round * (Horizon - now) + Round <= Round * (Horizon + 1)
  BY <1>1, <1>2, Products
<1>4. \A a, b, c, r \in Nat : a + r <= c /\ b <= r => a + b \in 0 .. c
  OBVIOUS
<1> QED BY <1>1, <1>3, <1>4 DEF StepsLeft

\* A step of the call lets time pass, or not, and is one less in its round; the
\* sleep alone begins another round, and takes time.
LEMMA StepOfRound ==
  ASSUME CrossIInv, Ensure
  PROVE  /\ now' \in Nat /\ at' \in 1 .. Endpoints /\ now <= now'
         /\ \/ Rank(stage', at') < Rank(stage, at)
            \/ now < now' /\ Rank(stage, at) = 1
<1>1. now \in Nat /\ at \in 1 .. Endpoints /\ 1 \in 1 .. Endpoints /\ Endpoints \in Nat
  BY Ahead, EndpointsAssumption
<1>2. ASSUME Takes PROVE now' \in Nat /\ now <= now'
  BY <1>1, <1>2, TimeAssumption DEF Takes
<1>3. CASE Serve
  <2>1. stage = "get" /\ stage' = "reply" /\ at' = at /\ now' = now
    BY <1>3 DEF Serve
  <2> QED BY <1>1, <2>1, Ranks
<1>4. CASE GetFails
  <2>1. stage \in {"get", "reply"} /\ Takes
    BY <1>4 DEF GetFails
  <2>2. CASE at < Endpoints
    <3>1. stage' = "get" /\ at' = at + 1
      BY <1>4, <2>2 DEF GetFails, HasNext
    <3>2. at + 1 <= Endpoints /\ at' \in 1 .. Endpoints
      BY <1>1, <2>2, <3>1
    <3> QED BY <1>1, <1>2, <2>1, <3>1, <3>2, Ranks
  <2>3. CASE ~ (at < Endpoints)
    <3>1. stage' = "unreachable" /\ at' = at
      BY <1>4, <2>3 DEF GetFails, HasNext
    <3> QED BY <1>1, <1>2, <2>1, <3>1, Ranks
  <2> QED BY <2>2, <2>3
<1>5. CASE Judge
  <2>1. stage = "reply" /\ at' = 1 /\ Takes /\ stage' \in {"met", "unmet", "sleep", "post"}
    BY <1>5 DEF Judge
  <2> QED BY <1>1, <1>2, <2>1, Ranks
<1>6. CASE Post
  <2>1. stage = "post" /\ Takes
    BY <1>6 DEF Post
  <2>2. \/ stage' = "sleep" /\ at' = at
        \/ stage' = "post" /\ at' = at + 1 /\ at < Endpoints
    BY <1>6 DEF Post, HasNext
  <2>3. at < Endpoints => at + 1 <= Endpoints /\ at + 1 \in 1 .. Endpoints
    BY <1>1
  <2> QED BY <1>1, <1>2, <2>1, <2>2, <2>3, Ranks
<1>7. CASE Sleep
  <2>1. stage = "sleep" /\ at' = 1 /\ now' = now + SLEEP
    BY <1>7 DEF Sleep
  <2>2. now' \in Nat /\ now < now'
    BY <1>1, <2>1, TimeAssumption
  <2> QED BY <1>1, <2>1, <2>2, Ranks
<1> QED BY <1>3, <1>4, <1>5, <1>6, <1>7 DEF Ensure

\* So each step leaves fewer.
LEMMA StepsRunDown ==
  ASSUME CrossIInv, CrossIInv', Ensure
  PROVE  StepsLeft' < StepsLeft
<1>1. /\ now' \in Nat /\ at' \in 1 .. Endpoints /\ now <= now'
      /\ \/ Rank(stage', at') < Rank(stage, at)
         \/ now < now' /\ Rank(stage, at) = 1
  BY StepOfRound
<1>2. Horizon - now \in Nat /\ Horizon \in Nat /\ now \in Nat /\ at \in 1 .. Endpoints
  BY Ahead
<1>3. now' <= Horizon
  BY DEF CrossIInv, BoundedOverrun, Horizon
<1> DEFINE a == Horizon - now
           b == Horizon - now'
<1>4. a \in Nat /\ b \in Nat /\ b <= a /\ (now < now' => b < a)
  <2>1. \A h, t, u \in Nat : t <= u /\ u <= h =>
          h - t \in Nat /\ h - u \in Nat /\ h - u <= h - t /\ (t < u => h - u < h - t)
    OBVIOUS
  <2>2. now \in Nat /\ now' \in Nat /\ Horizon \in Nat /\ now <= now' /\ now' <= Horizon
    BY <1>1, <1>2, <1>3
  <2> QED BY <2>1, <2>2
<1>5. /\ Rank(stage, at) \in 0 .. Round /\ Rank(stage', at') \in 0 .. Round /\ Round \in Nat
  BY <1>1, <1>2, RankType
<1>6. StepsLeft = Round * a + Rank(stage, at) /\ StepsLeft' = Round * b + Rank(stage', at')
  BY DEF StepsLeft, Rank, Round, Horizon
<1> HIDE DEF a, b
<1>7. /\ Round * a \in Nat /\ Round * b \in Nat /\ Round * b <= Round * a
      /\ b < a => Round * b + Round <= Round * a
  BY <1>4, <1>5, Products
<1>8. \A x, y, k, l, r \in Nat :
        /\ y <= x /\ l < k => y + l < x + k
        /\ y + r <= x /\ l <= r /\ k = 1 => y + l < x + k
  OBVIOUS
<1>9. CASE Rank(stage', at') < Rank(stage, at)
  BY <1>5, <1>6, <1>7, <1>8, <1>9
<1>10. CASE now < now' /\ Rank(stage, at) = 1
  BY <1>4, <1>5, <1>6, <1>7, <1>8, <1>10
<1> QED BY <1>1, <1>9, <1>10

\* ensure_cross_region cannot go on for ever, whatever the regions do meanwhile: it
\* comes to at most so many requests and sleeps as fit between the call and the
\* latest moment.
THEOREM CallIsBounded ==
  CrossSpec => /\ [](StepsLeft \in 0 .. Round * (Horizon + 1))
               /\ [][StepsLeft' < StepsLeft \/ UNCHANGED caller]_cross_vars
<1>1. CrossIInv /\ CrossIInv' /\ [CrossNext]_cross_vars => [StepsLeft' < StepsLeft \/ UNCHANGED caller]_cross_vars
  <2> SUFFICES ASSUME CrossIInv, CrossIInv', CrossNext PROVE StepsLeft' < StepsLeft \/ UNCHANGED caller
    OBVIOUS
  <2>1. Ensure \/ UNCHANGED caller
    BY Zenon DEF CrossNext, SplitsItself, Merges, Operator
  <2> QED BY <2>1, StepsRunDown
<1> QED BY <1>1, CrossInvariance, StepsLeftType, PTL DEF CrossSpec
=============================================================================
