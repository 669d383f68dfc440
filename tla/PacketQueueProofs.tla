-------------------------- MODULE PacketQueueProofs --------------------------
(***************************************************************************)
(* For every set of consumers, every frame duration, every sequence of pts *)
(* and any number of pushes: the invariants of PacketQueue that the runs   *)
(* check on small instances, and that PacketQueue does what PacketChannel  *)
(* promises.                                                               *)
(***************************************************************************)
EXTENDS PacketQueue, TLAPS, FiniteSetTheorems, SequenceTheorems, FunctionTheorems

-----------------------------------------------------------------------------
(* Lemmas about the positions of a media in a sequence of packets. *)

(* The positions of a media are finitely many.                             *)
LEMMA AtFinite ==
  ASSUME NEW q \in Seq(Packet), NEW m
  PROVE  /\ At(q, m) \subseteq 1 .. Len(q)
         /\ IsFiniteSet(At(q, m))
         /\ Cardinality(At(q, m)) \in Nat
<1>1. DOMAIN q = 1 .. Len(q) /\ Len(q) \in Nat
  BY LenProperties
<1>2. At(q, m) \subseteq 1 .. Len(q)
  BY <1>1 DEF At
<1>3. IsFiniteSet(1 .. Len(q))
  BY <1>1, FS_Interval
<1> QED
  BY <1>2, <1>3, FS_Subset, FS_CardinalityType

(* LastOf(I) is the largest element of I, if I has one.                    *)
LEMMA LastOfUnique ==
  ASSUME NEW I \in SUBSET Int, NEW x \in I, \A j \in I : j <= x
  PROVE  LastOf(I) = x
<1>1. \A y \in I : (\A j \in I : j <= y) => y = x
  OBVIOUS
<1> QED
  BY <1>1 DEF LastOf

(* It has one if it is a nonempty set of positions.                        *)
LEMMA LastOfExists ==
  ASSUME NEW n \in Nat, NEW I \in SUBSET (1 .. n), I # {}
  PROVE  LastOf(I) \in I /\ \A j \in I : j <= LastOf(I)
<1> DEFINE D == {n - i : i \in I}
<1>1. D \subseteq Nat /\ D # {}
  <2>1. \A i \in I : n - i \in Nat
    OBVIOUS
  <2>2. \A i \in I : n - i \in D
    OBVIOUS
  <2> QED
    BY <2>1, <2>2
<1>2. PICK d \in D : \A e \in D : ~(<<e, d>> \in OpToRel(<, Nat))
  BY <1>1, NatLessThanWellFounded, WFMin
<1>3. \A e, f \in Nat : e < f => <<e, f>> \in OpToRel(<, Nat)
  BY DEF OpToRel
<1>4. ASSUME NEW e \in D PROVE d <= e
  <2>1. d \in Nat /\ e \in Nat /\ ~(e < d)
    BY <1>1, <1>2, <1>3
  <2> QED
    BY <2>1
<1>5. PICK x \in I : d = n - x
  OBVIOUS
<1>6. ASSUME NEW j \in I PROVE j <= x
  <2>1. n - j \in D
    OBVIOUS
  <2>2. d <= n - j
    BY <1>4, <2>1
  <2> QED
    BY <1>5, <2>2
<1> QED
  BY <1>6, LastOfUnique

(* Append adds the new position to those of its media.                     *)
LEMMA AtAppend ==
  ASSUME NEW q \in Seq(Packet), NEW p \in Packet, NEW m
  PROVE  At(Append(q, p), m) =
           At(q, m) \cup (IF p.media = m THEN {Len(q) + 1} ELSE {})
<1>1. /\ Len(q) \in Nat /\ DOMAIN q = 1 .. Len(q)
      /\ DOMAIN Append(q, p) = 1 .. Len(q) + 1
      /\ \A i \in 1 .. Len(q) : Append(q, p)[i] = q[i]
      /\ Append(q, p)[Len(q) + 1] = p
  BY LenProperties, AppendProperties
<1> QED
  BY <1>1 DEF At

(* What is left when the first k packets are gone.                         *)
LEMMA Remaining ==
  ASSUME NEW q \in Seq(Packet), NEW k \in Nat, k <= Len(q),
         NEW s, s = SubSeq(q, k + 1, Len(q))
  PROVE  /\ s \in Seq(Packet)
         /\ Len(s) = Len(q) - k
         /\ \A i \in 1 .. Len(q) - k : s[i] = q[i + k]
<1> DEFINE n == Len(q)
<1>1. n \in Nat /\ \A i \in 1 .. n : q[i] \in Packet
  BY LenProperties, ElementOfSeq
<1> HIDE DEF n
<1>2. /\ k + 1 \in Int
      /\ \A i \in (k + 1) .. n : q[i] \in Packet
  BY <1>1
<1>3. /\ SubSeq(q, k + 1, n) \in Seq(Packet)
      /\ Len(SubSeq(q, k + 1, n)) = IF k + 1 <= n THEN n - (k + 1) + 1 ELSE 0
      /\ \A i \in 1 .. n - (k + 1) + 1 : SubSeq(q, k + 1, n)[i] = q[k + 1 + i - 1]
  BY <1>1, <1>2, SubSeqProperties
<1>4. s = SubSeq(q, k + 1, n) /\ k <= n
  BY DEF n
<1>5. (IF k + 1 <= n THEN n - (k + 1) + 1 ELSE 0) = n - k
  BY <1>1, <1>4
<1>6. ASSUME NEW i \in 1 .. n - k PROVE s[i] = q[i + k]
  <2>1. i \in 1 .. n - (k + 1) + 1 /\ k + 1 + i - 1 = i + k
    BY <1>1
  <2> QED
    BY <1>3, <1>4, <2>1
<1>7. s \in Seq(Packet) /\ Len(s) = n - k
  BY <1>3, <1>4, <1>5
<1> QED
  BY <1>6, <1>7 DEF n

(* Their positions are k lower than before, and there are as many fewer as *)
(* were taken.                                                             *)
LEMMA AtRemaining ==
  ASSUME NEW q \in Seq(Packet), NEW k \in Nat, k <= Len(q),
         NEW s, s = SubSeq(q, k + 1, Len(q)), NEW m
  PROVE  /\ \A i \in At(s, m) : i + k \in At(q, m) /\ i + k > k
         /\ \A i \in At(q, m) : i > k => i - k \in At(s, m)
         /\ Cardinality(At(s, m)) =
              Cardinality(At(q, m)) - Cardinality({i \in At(q, m) : i <= k})
<1> DEFINE n == Len(q)
           taken == {i \in At(q, m) : i <= k}
           left == {i \in At(q, m) : i > k}
           f == [i \in left |-> i - k]
<1>0. n \in Nat /\ k <= n /\ DOMAIN q = 1 .. n
  BY LenProperties
<1>1. s \in Seq(Packet) /\ Len(s) = n - k /\ \A i \in 1 .. n - k : s[i] = q[i + k]
  BY Remaining
<1>2. DOMAIN s = 1 .. n - k
  BY <1>1, LenProperties
<1> HIDE DEF n
<1>3. ASSUME NEW i \in At(s, m) PROVE i + k \in left /\ i = (i + k) - k
  <2>1. i \in 1 .. n - k /\ s[i].media = m
    BY <1>2 DEF At
  <2>2. i + k \in 1 .. n /\ i + k > k /\ i = (i + k) - k
    BY <1>0, <2>1
  <2>3. i + k \in At(q, m)
    BY <1>0, <1>1, <2>1, <2>2 DEF At
  <2> QED
    BY <2>2, <2>3
<1>4. ASSUME NEW i \in left PROVE i - k \in At(s, m)
  <2>1. i \in 1 .. n /\ q[i].media = m /\ i > k
    BY <1>0 DEF At
  <2>2. i - k \in 1 .. n - k /\ (i - k) + k = i
    BY <1>0, <2>1
  <2> QED
    BY <1>1, <1>2, <2>1, <2>2 DEF At
<1>5. /\ \A i \in At(s, m) : i + k \in At(q, m) /\ i + k > k
      /\ \A i \in At(q, m) : i > k => i - k \in At(s, m)
  BY <1>3, <1>4
<1>6. left \subseteq Int /\ taken \subseteq Int
  BY AtFinite
<1>7. f \in Bijection(left, At(s, m))
  <2>1. f \in [left -> At(s, m)]
    BY <1>4
  <2>2. \A i, j \in left : f[i] = f[j] => i = j
    BY <1>6
  <2>3. \A t \in At(s, m) : \E i \in left : f[i] = t
    BY <1>3
  <2> QED
    BY <2>1, <2>2, <2>3, Fun_IsBij
<1>8. IsFiniteSet(At(q, m)) /\ IsFiniteSet(taken) /\ IsFiniteSet(left)
  BY AtFinite, FS_Subset
<1>9. Cardinality(left) = Cardinality(At(s, m))
  <2>1. ExistsBijection(left, At(s, m))
    BY <1>7 DEF ExistsBijection
  <2> QED
    BY <1>8, <2>1, FS_Bijection
<1>10. left = At(q, m) \ taken /\ At(q, m) \cap taken = taken
  BY AtFinite
<1>11. Cardinality(left) = Cardinality(At(q, m)) - Cardinality(At(q, m) \cap taken)
  BY <1>8, <1>10, FS_Difference
<1> QED
  BY <1>5, <1>9, <1>10, <1>11

-----------------------------------------------------------------------------
(* Lemmas about the bytes of packets. *)

(* The bytes of some of the packets are finitely many.                     *)
LEMMA BytesFinite ==
  ASSUME NEW q \in Seq(Packet), NEW I \in SUBSET (DOMAIN q)
  PROVE  /\ \A i \in I : q[i].size \in Nat
         /\ IsFiniteSet(BytesOf(q, I))
         /\ Bytes(q, I) \in Nat
<1> DEFINE parts == {{i} \X (1 .. q[i].size) : i \in I}
           f == [i \in I |-> {i} \X (1 .. q[i].size)]
<1>1. DOMAIN q = 1 .. Len(q) /\ Len(q) \in Nat
  BY LenProperties
<1>2. IsFiniteSet(I)
  <2>1. IsFiniteSet(1 .. Len(q))
    BY <1>1, FS_Interval
  <2> QED
    BY <1>1, <2>1, FS_Subset
<1>3. ASSUME NEW i \in I PROVE q[i].size \in Nat
  <2>1. q[i] \in Packet
    BY <1>1, ElementOfSeq
  <2> QED
    BY <2>1, PacketQueueAssumption DEF Packet
<1>4. f \in Surjection(I, parts)
  BY DEF Surjection
<1>5. IsFiniteSet(parts)
  BY <1>2, <1>4, FS_Surjection
<1>6. ASSUME NEW T \in parts PROVE IsFiniteSet(T)
  <2>1. PICK i \in I : T = {i} \X (1 .. q[i].size)
    OBVIOUS
  <2>2. IsFiniteSet({i})
    BY FS_Singleton
  <2>3. \A n \in Nat : IsFiniteSet(1 .. n)
    BY FS_Interval
  <2>4. IsFiniteSet(1 .. q[i].size)
    BY <1>3, <2>3
  <2> QED
    BY <2>1, <2>2, <2>4, FS_Product
<1>7. BytesOf(q, I) = UNION parts
  BY DEF BytesOf
<1> HIDE DEF parts
<1>8. IsFiniteSet(BytesOf(q, I))
  BY <1>5, <1>6, <1>7, FS_UNION
<1> QED
  BY <1>3, <1>8, FS_CardinalityType DEF Bytes

(* A packet has as many bytes as its size says.                            *)
LEMMA BytesOfOne ==
  ASSUME NEW q \in Seq(Packet), NEW i \in DOMAIN q
  PROVE  Bytes(q, {i}) = q[i].size
<1>0. {i} \in SUBSET (DOMAIN q)
  OBVIOUS
<1>1. q[i].size \in Nat
  BY <1>0, BytesFinite
<1>2. IsFiniteSet({i}) /\ Cardinality({i}) = 1
  BY FS_Singleton
<1> DEFINE n == q[i].size
<1>6. IsFiniteSet(1 .. n) /\ Cardinality(1 .. n) = n
  <2>1. n \in Int /\ 1 \in Int
    BY <1>1
  <2> HIDE DEF n
  <2>2. IsFiniteSet(1 .. n) /\ Cardinality(1 .. n) = IF 1 > n THEN 0 ELSE n - 1 + 1
    BY <2>1, FS_Interval
  <2> QED
    BY <1>1, <2>1, <2>2 DEF n
<1>3. Cardinality({i} \X (1 .. q[i].size)) = 1 * q[i].size
  BY <1>2, <1>6, FS_Product
<1>4. BytesOf(q, {i}) = {i} \X (1 .. q[i].size)
  BY DEF BytesOf
<1>5. Bytes(q, {i}) = 1 * q[i].size
  BY <1>3, <1>4 DEF Bytes
<1> QED
  BY <1>1, <1>5

(* The bytes of different packets add up.                                  *)
LEMMA BytesAdd ==
  ASSUME NEW q \in Seq(Packet), NEW I \in SUBSET (DOMAIN q), NEW J \in SUBSET (DOMAIN q),
         I \cap J = {}
  PROVE  Bytes(q, I \cup J) = Bytes(q, I) + Bytes(q, J)
<1> DEFINE S == BytesOf(q, I)
           T == BytesOf(q, J)
<1>1. BytesOf(q, I \cup J) = S \cup T
  BY DEF BytesOf
<1>2. S \cap T = {}
  BY DEF BytesOf
<1>3. IsFiniteSet(S) /\ IsFiniteSet(T) /\ Bytes(q, I) \in Nat /\ Bytes(q, J) \in Nat
  BY BytesFinite
<1>4. Bytes(q, I) = Cardinality(S) /\ Bytes(q, J) = Cardinality(T)
      /\ Bytes(q, I \cup J) = Cardinality(S \cup T)
  BY <1>1 DEF Bytes
<1> HIDE DEF S, T
<1>5. Cardinality(S \cup T) = Cardinality(S) + Cardinality(T) - Cardinality(S \cap T)
  BY <1>3, FS_Union
<1>6. Cardinality(S \cap T) = 0
  BY <1>2, FS_EmptySet
<1> QED
  BY <1>3, <1>4, <1>5, <1>6

(* Packets that only stand k places further in the other queue have the    *)
(* same number of bytes there.                                             *)
LEMMA BytesShift ==
  ASSUME NEW q \in Seq(Packet), NEW r \in Seq(Packet), NEW k \in Nat,
         NEW J \in SUBSET (DOMAIN r), NEW I \in SUBSET (DOMAIN q),
         \A j \in J : j + k \in I /\ r[j] = q[j + k],
         \A i \in I : i - k \in J
  PROVE  Bytes(r, J) = Bytes(q, I)
<1> DEFINE S == BytesOf(r, J)
           T == BytesOf(q, I)
           f == [b \in S |-> <<b[1] + k, b[2]>>]
<1>1. \A j \in J : j \in Int
  BY LenProperties
<1>2. \A i \in I : i \in Int
  BY LenProperties
<1>3. \A b : b \in S <=> \E j \in J : \E c \in 1 .. r[j].size : b = <<j, c>>
  BY DEF BytesOf
<1>4. \A b : b \in T <=> \E i \in I : \E c \in 1 .. q[i].size : b = <<i, c>>
  BY DEF BytesOf
<1> HIDE DEF S, T
<1>5. ASSUME NEW b \in S
      PROVE  /\ f[b] \in T
             /\ b[1] \in Int /\ b = <<b[1], b[2]>>
  <2>1. PICK j \in J : \E c \in 1 .. r[j].size : b = <<j, c>>
    BY <1>3
  <2>2. PICK c \in 1 .. r[j].size : b = <<j, c>>
    BY <2>1
  <2>3. f[b] = <<j + k, c>> /\ j + k \in I /\ c \in 1 .. q[j + k].size
    BY <2>2
  <2> QED
    BY <1>1, <1>4, <2>2, <2>3
<1>6. ASSUME NEW t \in T PROVE \E b \in S : f[b] = t
  <2>1. PICK i \in I : \E c \in 1 .. q[i].size : t = <<i, c>>
    BY <1>4
  <2>2. PICK c \in 1 .. q[i].size : t = <<i, c>>
    BY <2>1
  <2>3. i - k \in J /\ (i - k) + k = i
    BY <1>2
  <2>4. c \in 1 .. r[i - k].size
    BY <2>3
  <2>5. <<i - k, c>> \in S
    BY <1>3, <2>3, <2>4
  <2>6. f[<<i - k, c>>] = t
    BY <2>2, <2>3, <2>5
  <2> QED
    BY <2>5, <2>6
<1>7. ASSUME NEW a \in S, NEW b \in S, f[a] = f[b] PROVE a = b
  <2>1. a[1] + k = b[1] + k /\ a[2] = b[2]
    BY <1>7
  <2>2. /\ a[1] \in Int /\ a = <<a[1], a[2]>>
        /\ b[1] \in Int /\ b = <<b[1], b[2]>>
    BY <1>5
  <2>3. a[1] = b[1]
    BY <2>1, <2>2
  <2> QED
    BY <2>1, <2>2, <2>3
<1>8. f \in Bijection(S, T)
  <2>1. f \in [S -> T]
    BY <1>5
  <2>2. /\ \A a, b \in S : f[a] = f[b] => a = b
        /\ \A t \in T : \E b \in S : f[b] = t
    BY <1>6, <1>7
  <2> HIDE DEF f
  <2> QED
    BY <2>1, <2>2, Fun_IsBij
<1>9. IsFiniteSet(S)
  BY BytesFinite DEF S
<1>10. Cardinality(T) = Cardinality(S)
  BY <1>8, <1>9, FS_Bijection DEF ExistsBijection
<1> QED
  BY <1>10 DEF Bytes, S, T

-----------------------------------------------------------------------------
(* The data: queue_, its counters and its pts window. *)

DataOK ==
  /\ queue \in Seq(Packet)
  /\ stats \in [Media -> [nb : Nat, size : Nat]]
  /\ front_pts \in [Media -> Pts] /\ back_pts \in [Media -> Pts]
  /\ first_packet \in [Media -> BOOLEAN] /\ pushed \in [Media -> Nat]
  /\ CountsMatch /\ SizesMatch /\ PtsWindow

(* The taken packets of a media are some of its packets, the last of them  *)
(* is one of them, and its pts is one.                                     *)
LEMMA TakenFacts ==
  ASSUME queue \in Seq(Packet), NEW k \in Nat, NEW m
  PROVE  /\ TakenOf(k, m) \subseteq PositionsOf(m)
         /\ TakenOf(k, m) = {i \in At(queue, m) : i <= k}
         /\ TakenOf(k, m) # {} =>
              /\ LastOf(TakenOf(k, m)) \in TakenOf(k, m)
              /\ \A j \in TakenOf(k, m) : j <= LastOf(TakenOf(k, m))
              /\ queue[LastOf(TakenOf(k, m))].pts \in Pts
<1>1. Len(queue) \in Nat /\ PositionsOf(m) \subseteq 1 .. Len(queue)
  BY AtFinite, LenProperties DEF PositionsOf
<1>2. TakenOf(k, m) \subseteq PositionsOf(m) /\ TakenOf(k, m) = {i \in At(queue, m) : i <= k}
  BY DEF TakenOf, PositionsOf
<1>3. ASSUME TakenOf(k, m) # {}
      PROVE  /\ LastOf(TakenOf(k, m)) \in TakenOf(k, m)
             /\ \A j \in TakenOf(k, m) : j <= LastOf(TakenOf(k, m))
  BY <1>1, <1>2, <1>3, LastOfExists
<1>4. \A i \in 1 .. Len(queue) : queue[i] \in Packet
  BY ElementOfSeq
<1>5. \A p \in Packet : p.pts \in Pts
  BY DEF Packet
<1> QED
  BY <1>1, <1>2, <1>3, <1>4, <1>5

(* Where the packets are once the first k are gone.                        *)
LEMMA FrontRemoved ==
  ASSUME queue \in Seq(Packet), NEW k \in Nat, k <= Len(queue), RemoveFront(k),
         NEW m \in Media
  PROVE  /\ Len(queue) \in Nat
         /\ queue' \in Seq(Packet) /\ Len(queue') = Len(queue) - k
         /\ \A i \in 1 .. Len(queue) - k : queue'[i] = queue[i + k]
         /\ \A i \in PositionsOf(m)' : i + k \in PositionsOf(m) /\ i + k > k
         /\ \A i \in PositionsOf(m) : i > k => i - k \in PositionsOf(m)'
         /\ PositionsOf(m) \subseteq 1 .. Len(queue)
         /\ PositionsOf(m)' \subseteq 1 .. Len(queue) - k
         /\ Cardinality(PositionsOf(m)') =
              Cardinality(PositionsOf(m)) - Cardinality(TakenOf(k, m))
         /\ Cardinality(PositionsOf(m)') \in Nat
<1>1. queue' = SubSeq(queue, k + 1, Len(queue))
  BY DEF RemoveFront
<1>2. /\ Len(queue) \in Nat
      /\ queue' \in Seq(Packet) /\ Len(queue') = Len(queue) - k
      /\ \A i \in 1 .. Len(queue) - k : queue'[i] = queue[i + k]
  BY <1>1, Remaining, LenProperties
<1>3. PositionsOf(m)' = At(queue', m) /\ PositionsOf(m) = At(queue, m)
  BY DEF PositionsOf
<1>4. Cardinality(At(queue', m)) \in Nat /\ At(queue', m) \subseteq 1 .. Len(queue')
  BY <1>2, AtFinite
<1>5. TakenOf(k, m) = {i \in At(queue, m) : i <= k}
  BY TakenFacts
<1>6. /\ \A i \in At(queue', m) : i + k \in At(queue, m) /\ i + k > k
      /\ \A i \in At(queue, m) : i > k => i - k \in At(queue', m)
      /\ Cardinality(At(queue', m)) = Cardinality(At(queue, m))
            - Cardinality({i \in At(queue, m) : i <= k})
  <2>1. queue \in Seq(Packet)
    OBVIOUS
  <2> QED
    BY <1>1, <2>1, AtRemaining, ZenonT(30)
<1>7. At(queue, m) \subseteq 1 .. Len(queue)
  BY AtFinite
<1> QED
  BY <1>2, <1>3, <1>4, <1>5, <1>6, <1>7

(* Taking packets from the front keeps the counters and the window right.  *)
LEMMA RemoveFrontData ==
  ASSUME DataOK, NEW k \in Nat, k <= Len(queue), RemoveFront(k)
  PROVE  DataOK'
<1> USE DEF DataOK
<1>1. queue' = SubSeq(queue, k + 1, Len(queue)) /\ UNCHANGED <<back_pts, first_packet, pushed>>
  BY DEF RemoveFront
<1>2. /\ Len(queue) \in Nat
      /\ queue' \in Seq(Packet) /\ Len(queue') = Len(queue) - k
      /\ \A i \in 1 .. Len(queue) - k : queue'[i] = queue[i + k]
  BY <1>1, Remaining, LenProperties
<1>3. ASSUME NEW m \in Media
      PROVE  /\ \A i \in PositionsOf(m)' : i + k \in PositionsOf(m) /\ i + k > k
             /\ \A i \in PositionsOf(m) : i > k => i - k \in PositionsOf(m)'
             /\ PositionsOf(m)' \subseteq Int
             /\ Cardinality(PositionsOf(m)') =
                  Cardinality(PositionsOf(m)) - Cardinality(TakenOf(k, m))
             /\ Cardinality(PositionsOf(m)') \in Nat
  <2>1. PositionsOf(m)' \subseteq 1 .. Len(queue) - k
    BY FrontRemoved
  <2> QED
    BY <2>1, FrontRemoved
<1>4. ASSUME NEW m \in Media
      PROVE  /\ stats'[m].nb = Cardinality(PositionsOf(m)')
             /\ stats'[m].nb \in Nat
  <2>1. stats'[m].nb = stats[m].nb - Cardinality(TakenOf(k, m))
    BY DEF RemoveFront, NbAfter
  <2> QED
    BY <1>3, <2>1 DEF CountsMatch
<1>10. ASSUME NEW m \in Media
       PROVE  /\ stats'[m].size = Bytes(queue', PositionsOf(m)')
              /\ stats'[m].size \in Nat
  <2> DEFINE left == {i \in PositionsOf(m) : i > k}
  <2>1. stats'[m].size = stats[m].size - Bytes(queue, TakenOf(k, m))
    BY DEF RemoveFront, SizeAfter
  <2>2. PositionsOf(m) \in SUBSET (DOMAIN queue) /\ PositionsOf(m)' \in SUBSET (DOMAIN queue')
    BY DEF PositionsOf, At
  <2>3. /\ TakenOf(k, m) \in SUBSET (DOMAIN queue) /\ left \in SUBSET (DOMAIN queue)
        /\ left \in SUBSET (1 .. Len(queue))
    BY <1>2, <2>2, LenProperties DEF TakenOf
  <2>4. TakenOf(k, m) \cup left = PositionsOf(m) /\ TakenOf(k, m) \cap left = {}
    <3>1. \A i \in PositionsOf(m) : i \in Int
      BY <1>2, <2>2, LenProperties
    <3>2. \A i \in PositionsOf(m) : (i <= k) <=> ~(i > k)
      BY <3>1
    <3> QED
      BY <3>2 DEF TakenOf
  <2>5. Bytes(queue, PositionsOf(m)) = Bytes(queue, TakenOf(k, m)) + Bytes(queue, left)
    BY <2>3, <2>4, BytesAdd
  <2>6. /\ \A j \in PositionsOf(m)' : j + k \in left /\ queue'[j] = queue[j + k]
        /\ \A i \in left : i - k \in PositionsOf(m)'
    <3>1. PositionsOf(m)' \subseteq 1 .. Len(queue) - k
      BY <1>2, <2>2, LenProperties
    <3> QED
      BY <1>2, <1>3, <3>1
  <2> HIDE DEF left
  <2>7. Bytes(queue', PositionsOf(m)') = Bytes(queue, left)
    BY <1>2, <2>2, <2>3, <2>6, BytesShift
  <2>8. Bytes(queue, TakenOf(k, m)) \in Nat /\ Bytes(queue, left) \in Nat
    BY <2>3, BytesFinite
  <2> QED
    BY <2>1, <2>5, <2>7, <2>8 DEF SizesMatch
<1>5. stats' \in [Media -> [nb : Nat, size : Nat]]
  <2>1. /\ stats' = [m \in Media |-> stats'[m]]
        /\ \A m \in Media : stats'[m] = [nb |-> stats'[m].nb, size |-> stats'[m].size]
    BY DEF RemoveFront
  <2> QED
    BY <1>4, <1>10, <2>1
<1>6. front_pts' \in [Media -> Pts]
  <2>1. front_pts' = [m \in Media |-> FrontAfter(k, m)]
    BY DEF RemoveFront
  <2>2. \A m \in Media : FrontAfter(k, m) \in Pts
    BY TakenFacts DEF FrontAfter
  <2> QED
    BY <2>1, <2>2
<1>7. ASSUME NEW m \in Media
      PROVE  back_pts'[m] = IF PositionsOf(m)' = {} THEN front_pts'[m]
                            ELSE queue'[LastOf(PositionsOf(m)')].pts
  <2>1. front_pts'[m] = FrontAfter(k, m) /\ back_pts'[m] = back_pts[m]
    BY DEF RemoveFront
  <2>2. /\ back_pts[m] = IF PositionsOf(m) = {} THEN front_pts[m]
                          ELSE queue[LastOf(PositionsOf(m))].pts
        /\ PositionsOf(m) \subseteq 1 .. Len(queue)
    BY AtFinite DEF PtsWindow, PositionsOf
  <2>3. CASE PositionsOf(m)' = {}
    <3>1. PositionsOf(m) = TakenOf(k, m)
      <4>1. ASSUME NEW j \in PositionsOf(m) PROVE j <= k
        <5>1. ~(j > k)
          BY <1>3, <2>3
        <5>2. ~(j > k) /\ j \in Int
          BY <2>2, <5>1
        <5> QED
          BY <5>2
      <4> QED
        BY <4>1 DEF TakenOf
    <3> QED
      BY <2>1, <2>2, <2>3, <3>1 DEF FrontAfter
  <2>4. CASE PositionsOf(m)' # {}
    <3> DEFINE last == LastOf(PositionsOf(m))
    <3>1. PositionsOf(m) # {}
      BY <1>3, <2>4
    <3>2. last \in PositionsOf(m) /\ \A j \in PositionsOf(m) : j <= last
      BY <1>2, <2>2, <3>1, LastOfExists
    <3> HIDE DEF last
    <3>3. last \in 1 .. Len(queue) /\ last > k
      <4>1. PICK j \in PositionsOf(m) : j > k
        BY <1>3, <2>4
      <4>2. j \in Int /\ last \in 1 .. Len(queue) /\ j <= last
        BY <2>2, <3>2
      <4> QED
        BY <4>1, <4>2
    <3>4. last - k \in PositionsOf(m)' /\ PositionsOf(m)' \in SUBSET Int
      BY <1>3, <3>2, <3>3
    <3>5. ASSUME NEW j \in PositionsOf(m)' PROVE j <= last - k
      <4>1. j + k <= last /\ j \in Int /\ last \in Int
        BY <1>3, <3>2, <3>3
      <4> QED
        BY <4>1
    <3>6. LastOf(PositionsOf(m)') = last - k
      BY <3>4, <3>5, LastOfUnique
    <3>7. queue'[last - k] = queue[last]
      <4>1. last - k \in 1 .. Len(queue) - k /\ (last - k) + k = last
        BY <1>2, <3>3
      <4> QED
        BY <1>2, <4>1
    <3> QED
      BY <2>1, <2>2, <2>4, <3>1, <3>6, <3>7 DEF last
  <2> QED
    BY <2>3, <2>4
<1>8. CountsMatch' /\ SizesMatch'
  <2>1. \A m : Bytes(queue, PositionsOf(m))' = Bytes(queue', PositionsOf(m)')
    BY DEF Bytes, BytesOf
  <2> QED
    BY <1>4, <1>10, <2>1 DEF CountsMatch, SizesMatch
<1>9. PtsWindow'
  BY <1>7 DEF PtsWindow
<1> QED
  BY <1>1, <1>2, <1>5, <1>6, <1>8, <1>9

(* So does a push, which starts the window if it is the first of its media.*)
LEMMA AcceptData ==
  ASSUME DataOK, NEW p \in Packet, Accept(p)
  PROVE  DataOK'
<1> USE DEF DataOK
<1>1. /\ queue' = Append(queue, p)
      /\ stats' = [stats EXCEPT ![p.media] = [nb |-> @.nb + 1, size |-> @.size + p.size]]
      /\ back_pts' = [back_pts EXCEPT ![p.media] = p.pts]
      /\ front_pts' = [front_pts EXCEPT ![p.media] = IF first_packet[p.media] THEN p.pts ELSE @]
      /\ first_packet' = [first_packet EXCEPT ![p.media] = FALSE]
      /\ pushed' = [pushed EXCEPT ![p.media] = @ + 1]
  BY DEF Accept
<1>2. p.media \in Media /\ p.pts \in Pts
  BY DEF Packet
<1>3. /\ Len(queue) \in Nat
      /\ queue' \in Seq(Packet)
      /\ \A i \in 1 .. Len(queue) : queue'[i] = queue[i]
      /\ queue'[Len(queue) + 1] = p
  BY <1>1, AppendProperties, LenProperties
<1>4. \A m \in Media : /\ PositionsOf(m) \subseteq 1 .. Len(queue)
                       /\ IsFiniteSet(PositionsOf(m))
                       /\ Cardinality(PositionsOf(m)) \in Nat
  BY AtFinite DEF PositionsOf
<1>5. \A m \in Media : PositionsOf(m)' = PositionsOf(m) \cup
                          (IF p.media = m THEN {Len(queue) + 1} ELSE {})
  BY <1>1, AtAppend DEF PositionsOf
<1>6. ASSUME NEW m \in Media
      PROVE  stats'[m].nb = Cardinality(PositionsOf(m)') /\ stats'[m].nb \in Nat
  <2>1. CASE p.media = m
    <3>1. PositionsOf(m)' = PositionsOf(m) \cup {Len(queue) + 1}
      BY <1>5, <2>1
    <3>2. Len(queue) + 1 \notin PositionsOf(m)
      BY <1>3, <1>4
    <3>3. Cardinality(PositionsOf(m)') = Cardinality(PositionsOf(m)) + 1
      BY <1>4, <3>1, <3>2, FS_AddElement
    <3>4. stats'[m].nb = stats[m].nb + 1
      BY <1>1, <1>2, <2>1
    <3> QED
      BY <3>3, <3>4 DEF CountsMatch
  <2>2. CASE p.media # m
    <3>1. PositionsOf(m)' = PositionsOf(m)
      BY <1>5, <2>2
    <3>2. stats'[m] = stats[m]
      BY <1>1, <2>2
    <3> QED
      BY <3>1, <3>2 DEF CountsMatch
  <2> QED
    BY <2>1, <2>2
<1>7. ASSUME NEW m \in Media
      PROVE  back_pts'[m] = IF PositionsOf(m)' = {} THEN front_pts'[m]
                            ELSE queue'[LastOf(PositionsOf(m)')].pts
  <2>1. CASE p.media = m
    <3>1. PositionsOf(m)' = PositionsOf(m) \cup {Len(queue) + 1}
      BY <1>5, <2>1
    <3>2. LastOf(PositionsOf(m)') = Len(queue) + 1
      <4>1. PositionsOf(m)' \in SUBSET Int /\ Len(queue) + 1 \in PositionsOf(m)'
        BY <1>3, <1>4, <3>1
      <4>2. \A j \in PositionsOf(m)' : j <= Len(queue) + 1
        BY <1>3, <1>4, <3>1
      <4> QED
        BY <4>1, <4>2, LastOfUnique
    <3>3. back_pts'[m] = p.pts
      BY <1>1, <1>2, <2>1
    <3> QED
      BY <1>3, <3>1, <3>2, <3>3
  <2>2. CASE p.media # m
    <3>1. PositionsOf(m)' = PositionsOf(m)
      BY <1>5, <2>2
    <3>2. back_pts'[m] = back_pts[m] /\ front_pts'[m] = front_pts[m]
      BY <1>1, <2>2
    <3>3. ASSUME PositionsOf(m) # {}
          PROVE  queue'[LastOf(PositionsOf(m))] = queue[LastOf(PositionsOf(m))]
      <4>1. LastOf(PositionsOf(m)) \in PositionsOf(m)
        BY <1>3, <1>4, <3>3, LastOfExists
      <4> QED
        BY <1>3, <1>4, <4>1
    <3> QED
      BY <3>1, <3>2, <3>3 DEF PtsWindow
  <2> QED
    BY <2>1, <2>2
<1>10. ASSUME NEW m \in Media
       PROVE  /\ stats'[m].size = Bytes(queue', PositionsOf(m)')
              /\ stats'[m].size \in Nat
  <2>1. /\ PositionsOf(m) \in SUBSET (DOMAIN queue)
        /\ PositionsOf(m) \in SUBSET (DOMAIN queue')
        /\ Len(queue) + 1 \in DOMAIN queue'
    BY <1>1, <1>3, <1>4, AppendProperties, LenProperties
  <2>2. /\ \A j \in PositionsOf(m) : j + 0 \in PositionsOf(m) /\ queue'[j] = queue[j + 0]
        /\ \A i \in PositionsOf(m) : i - 0 \in PositionsOf(m)
    BY <1>3, <1>4
  <2>3. Bytes(queue', PositionsOf(m)) = Bytes(queue, PositionsOf(m))
    <3>1. 0 \in Nat /\ queue \in Seq(Packet) /\ queue' \in Seq(Packet)
      BY <1>3
    <3> QED
      BY <2>1, <2>2, <3>1, BytesShift, ZenonT(30)
  <2>4. Bytes(queue, PositionsOf(m)) \in Nat /\ p.size \in Nat
    BY <2>1, BytesFinite, PacketQueueAssumption DEF Packet
  <2>5. CASE p.media = m
    <3>1. PositionsOf(m)' = PositionsOf(m) \cup {Len(queue) + 1}
      BY <1>5, <2>5
    <3>2. PositionsOf(m) \cap {Len(queue) + 1} = {}
      BY <1>3, <1>4
    <3>3. Bytes(queue', PositionsOf(m)')
            = Bytes(queue', PositionsOf(m)) + Bytes(queue', {Len(queue) + 1})
      <4>1. {Len(queue) + 1} \in SUBSET (DOMAIN queue') /\ queue' \in Seq(Packet)
        BY <1>3, <2>1
      <4> QED
        BY <2>1, <3>1, <3>2, <4>1, BytesAdd, ZenonT(30)
    <3>4. Bytes(queue', {Len(queue) + 1}) = p.size
      BY <1>3, <2>1, BytesOfOne
    <3>5. stats'[m].size = stats[m].size + p.size
      BY <1>1, <1>2, <2>5
    <3> QED
      BY <2>3, <2>4, <3>3, <3>4, <3>5 DEF SizesMatch
  <2>6. CASE p.media # m
    <3>1. PositionsOf(m)' = PositionsOf(m)
      BY <1>5, <2>6
    <3>2. stats'[m] = stats[m]
      BY <1>1, <2>6
    <3> QED
      BY <2>3, <2>4, <3>1, <3>2 DEF SizesMatch
  <2> QED
    BY <2>5, <2>6
<1>8. /\ stats' \in [Media -> [nb : Nat, size : Nat]]
      /\ front_pts' \in [Media -> Pts] /\ back_pts' \in [Media -> Pts]
      /\ first_packet' \in [Media -> BOOLEAN] /\ pushed' \in [Media -> Nat]
  <2>1. p.size \in Nat
    BY PacketQueueAssumption DEF Packet
  <2> QED
    BY <1>1, <1>2, <2>1
<1>9. CountsMatch' /\ SizesMatch' /\ PtsWindow'
  <2>1. \A m : Bytes(queue, PositionsOf(m))' = Bytes(queue', PositionsOf(m)')
    BY DEF Bytes, BytesOf
  <2> QED
    BY <1>6, <1>7, <1>10, <2>1 DEF CountsMatch, SizesMatch, PtsWindow
<1> QED
  BY <1>3, <1>8, <1>9

-----------------------------------------------------------------------------
(* The calls: abort_request_ and the threads at the condition variable.    *)

CallOK ==
  /\ abort_request \in BOOLEAN
  /\ wait \in [Consumers -> {"none", "waiting", "notified", "expired"}]
  /\ blocking \in [Consumers -> BOOLEAN]
  /\ ret \in [Consumers -> {"none", "packet", "empty", "abort"}]
  /\ AbortWakesAll /\ NoResultYet

(* The inductive invariant is the one about the data, the one about the    *)
(* calls, and the one that relates the two.                                *)
LEMMA IInvParts == IInv <=> DataOK /\ CallOK /\ NoLostWakeup
BY DEF IInv, TypeOK, DataOK, CallOK

(* The threads notified are finitely many.                                 *)
LEMMA NotifiedFinite == IsFiniteSet(Notified) /\ Cardinality(Notified) \in Nat
BY PacketQueueAssumption, FS_Subset, FS_CardinalityType DEF Notified

(* A step that leaves the data alone keeps it right.                       *)
LEMMA SameData ==
  ASSUME DataOK, UNCHANGED dataVars
  PROVE  DataOK'
<1>1. /\ queue' = queue /\ stats' = stats /\ front_pts' = front_pts
      /\ back_pts' = back_pts /\ first_packet' = first_packet /\ pushed' = pushed
  BY DEF dataVars, ptsVars
<1>2. \A m : PositionsOf(m)' = PositionsOf(m)
  BY <1>1 DEF PositionsOf
<1>3. CountsMatch'
  BY <1>1, <1>2 DEF CountsMatch, DataOK
<1>4. PtsWindow'
  BY <1>1, <1>2 DEF PtsWindow, DataOK
<1>5. SizesMatch'
  <2>1. \A m : Bytes(queue, PositionsOf(m))' = Bytes(queue, PositionsOf(m))
    BY <1>1, <1>2 DEF Bytes, BytesOf
  <2> QED
    BY <1>1, <2>1 DEF SizesMatch, DataOK
<1> QED
  BY <1>1, <1>3, <1>4, <1>5 DEF DataOK

(* A call that returns leaves the condition variable.                      *)
LEMMA ReturnCalls ==
  ASSUME CallOK, NEW c \in Consumers, NEW r \in {"packet", "empty", "abort"},
         Return(c, r)
  PROVE  CallOK' /\ Waiting' = Waiting \ {c} /\ Notified' = Notified \ {c}
<1> USE DEF CallOK, Return
<1>1. wait' \in [Consumers -> {"none", "waiting", "notified", "expired"}]
  OBVIOUS
<1>2. Waiting' = Waiting \ {c} /\ Notified' = Notified \ {c}
  BY DEF Waiting, Notified
<1>3. AbortWakesAll'
  BY <1>2 DEF AbortWakesAll
<1>4. NoResultYet'
  BY DEF NoResultYet
<1> QED
  BY <1>1, <1>2, <1>3, <1>4

(* A return that takes at least as many packets as notified threads away   *)
(* keeps a woken thread for each packet.                                   *)
LEMMA ReturnPacketKeeps ==
  ASSUME DataOK, CallOK, NoLostWakeup, NEW c \in Consumers, ReturnPacket(c)
  PROVE  DataOK' /\ CallOK' /\ NoLostWakeup'
<1>1. Return(c, "packet") /\ RemoveFront(1) /\ queue # <<>>
  BY DEF ReturnPacket
<1>2. Len(queue) \in Nat /\ 1 <= Len(queue)
  BY <1>1, LenProperties, EmptySeq DEF DataOK
<1>3. DataOK'
  BY <1>1, <1>2, RemoveFrontData
<1>4. CallOK' /\ Waiting' = Waiting \ {c} /\ Notified' = Notified \ {c}
  BY <1>1, ReturnCalls
<1>5. Len(queue') = Len(queue) - 1
  BY <1>1, <1>2, Remaining DEF RemoveFront, DataOK
<1>6. /\ Cardinality(Notified) \in Nat /\ Cardinality(Notified') \in Int
      /\ Cardinality(Notified') >= Cardinality(Notified) - 1
  <2>1. Cardinality(Notified \ {c}) = IF c \in Notified THEN Cardinality(Notified) - 1
                                      ELSE Cardinality(Notified)
    BY NotifiedFinite, FS_RemoveElement
  <2>2. Cardinality(Notified) \in Nat
    BY NotifiedFinite
  <2> QED
    BY <1>4, <2>1, <2>2
<1>7. NoLostWakeup'
  <2>1. SUFFICES ASSUME Waiting' # {} PROVE Len(queue') <= Cardinality(Notified')
    BY DEF NoLostWakeup
  <2>2. Len(queue) <= Cardinality(Notified)
    BY <1>4, <2>1 DEF NoLostWakeup
  <2> QED
    BY <1>2, <1>5, <1>6, <2>2
<1> QED
  BY <1>3, <1>4, <1>7

(* Returns without a packet, and the entry into the wait, leave the queue  *)
(* as it is: aborted, so that nobody waits, or empty.                      *)
LEMMA ReturnAbortKeeps ==
  ASSUME DataOK, CallOK, NoLostWakeup, NEW c \in Consumers, ReturnAbort(c)
  PROVE  DataOK' /\ CallOK' /\ NoLostWakeup'
<1>1. Return(c, "abort") /\ UNCHANGED dataVars /\ abort_request
  BY DEF ReturnAbort
<1>2. CallOK' /\ Waiting' = Waiting \ {c}
  BY <1>1, ReturnCalls
<1>3. Waiting' = {}
  BY <1>1, <1>2 DEF CallOK, AbortWakesAll
<1> QED
  BY <1>1, <1>2, <1>3, SameData DEF NoLostWakeup

(* With the queue empty before and after, no packet waits for a thread.    *)
LEMMA EmptyKeeps ==
  ASSUME queue' = <<>>
  PROVE  NoLostWakeup'
<1>1. Len(queue') = 0
  BY EmptySeq
<1>2. Notified' \subseteq Consumers
  BY DEF Notified
<1>3. Cardinality(Notified') \in Nat
  BY <1>2, PacketQueueAssumption, FS_Subset, FS_CardinalityType
<1> QED
  BY <1>1, <1>3 DEF NoLostWakeup

(* A pop that gives up does so on an empty queue.                          *)
LEMMA ReturnEmptyKeeps ==
  ASSUME DataOK, CallOK, NEW c \in Consumers,
         queue = <<>>, Return(c, "empty"), UNCHANGED dataVars
  PROVE  DataOK' /\ CallOK' /\ NoLostWakeup'
<1>1. queue' = <<>>
  BY DEF dataVars
<1> QED
  BY <1>1, EmptyKeeps, ReturnCalls, SameData

(* A pop that goes to sleep does so on an empty queue, before any abort.   *)
LEMMA BeginWaitKeeps ==
  ASSUME DataOK, CallOK, NEW c \in Consumers, NEW forever \in BOOLEAN,
         BeginWait(c, forever)
  PROVE  DataOK' /\ CallOK' /\ NoLostWakeup'
<1>1. /\ wait' = [wait EXCEPT ![c] = "waiting"]
      /\ blocking' = [blocking EXCEPT ![c] = forever]
      /\ ret' = [ret EXCEPT ![c] = "none"]
      /\ UNCHANGED dataVars /\ abort_request' = abort_request
      /\ ~abort_request /\ queue' = <<>>
  BY DEF BeginWait, dataVars
<1>2. AbortWakesAll'
  BY <1>1 DEF AbortWakesAll
<1>3. NoResultYet'
  BY <1>1 DEF NoResultYet, CallOK
<1>4. CallOK'
  BY <1>1, <1>2, <1>3 DEF CallOK
<1> QED
  BY <1>1, <1>4, EmptyKeeps, SameData

(* A notification moves a thread from Waiting to Notified.                 *)
LEMMA NotifyCalls ==
  ASSUME CallOK, NEW c \in Waiting, wait' = [wait EXCEPT ![c] = "notified"],
         UNCHANGED <<abort_request, blocking, ret>>
  PROVE  /\ CallOK'
         /\ Waiting' = Waiting \ {c}
         /\ Cardinality(Notified') = Cardinality(Notified) + 1
<1> USE DEF CallOK
<1>1. c \in Consumers /\ wait[c] = "waiting"
  BY DEF Waiting
<1>2. Waiting' = Waiting \ {c} /\ Notified' = Notified \cup {c} /\ c \notin Notified
  BY <1>1 DEF Waiting, Notified
<1>3. Cardinality(Notified') = Cardinality(Notified) + 1
  BY <1>2, NotifiedFinite, FS_AddElement
<1>4. AbortWakesAll'
  BY <1>2 DEF AbortWakesAll
<1>5. NoResultYet'
  BY <1>1 DEF NoResultYet
<1>6. wait' \in [Consumers -> {"none", "waiting", "notified", "expired"}]
  OBVIOUS
<1> QED
  BY <1>2, <1>3, <1>4, <1>5, <1>6

(* A push adds one packet and wakes one thread for it, if one sleeps.      *)
LEMMA PushKeeps ==
  ASSUME DataOK, CallOK, NoLostWakeup, NEW p \in Packet, Push(p)
  PROVE  DataOK' /\ CallOK' /\ NoLostWakeup'
<1>1. /\ Accept(p) /\ NotifyOne /\ UNCHANGED <<abort_request, blocking, ret>>
  BY DEF Push
<1>2. DataOK'
  BY <1>1, AcceptData
<1>3. Len(queue) \in Nat /\ Len(queue') = Len(queue) + 1
  BY <1>1, AppendProperties, LenProperties DEF Accept, DataOK
<1>4. CASE Waiting = {}
  <2>1. wait' = wait
    BY <1>1, <1>4 DEF NotifyOne
  <2>2. Waiting' = {}
    BY <1>4, <2>1 DEF Waiting
  <2>3. CallOK'
    BY <1>1, <2>1, <2>2 DEF CallOK, AbortWakesAll, NoResultYet
  <2> QED
    BY <1>2, <2>2, <2>3 DEF NoLostWakeup
<1>5. CASE Waiting # {}
  <2>1. PICK c \in Waiting : wait' = [wait EXCEPT ![c] = "notified"]
    BY <1>1, <1>5 DEF NotifyOne
  <2>2. CallOK' /\ Cardinality(Notified') = Cardinality(Notified) + 1
    BY <1>1, <2>1, NotifyCalls
  <2>3. Len(queue) <= Cardinality(Notified)
    BY <1>5 DEF NoLostWakeup
  <2>4. Len(queue') <= Cardinality(Notified')
    BY <1>3, <2>2, <2>3, NotifiedFinite
  <2> QED
    BY <1>2, <2>2, <2>4 DEF NoLostWakeup
<1> QED
  BY <1>4, <1>5

(* A spurious wake-up makes one more thread run, and none fewer.           *)
LEMMA WakeSpuriouslyKeeps ==
  ASSUME DataOK, CallOK, NoLostWakeup, NEW c \in Consumers, WakeSpuriously(c)
  PROVE  DataOK' /\ CallOK' /\ NoLostWakeup'
<1>1. /\ c \in Waiting /\ wait' = [wait EXCEPT ![c] = "notified"]
      /\ UNCHANGED dataVars /\ UNCHANGED <<abort_request, blocking, ret>>
      /\ queue' = queue
  BY DEF WakeSpuriously, Waiting, dataVars
<1>2. CallOK' /\ Cardinality(Notified') = Cardinality(Notified) + 1
  BY <1>1, NotifyCalls
<1>3. Len(queue) <= Cardinality(Notified)
  BY <1>1 DEF NoLostWakeup
<1>4. Len(queue) \in Nat
  BY LenProperties DEF DataOK
<1>5. Len(queue') <= Cardinality(Notified')
  BY <1>1, <1>2, <1>3, <1>4, NotifiedFinite
<1> QED
  BY <1>1, <1>2, <1>5, SameData DEF NoLostWakeup

(* A timeout ends a sleep; no woken thread is lost by it.                *)
LEMMA ExpireKeeps ==
  ASSUME DataOK, CallOK, NoLostWakeup, NEW c \in Consumers, Expire(c)
  PROVE  DataOK' /\ CallOK' /\ NoLostWakeup'
<1>1. /\ wait[c] = "waiting" /\ wait' = [wait EXCEPT ![c] = "expired"]
      /\ UNCHANGED dataVars /\ UNCHANGED <<abort_request, blocking, ret>>
      /\ queue' = queue
  BY DEF Expire, dataVars
<1>2. Waiting' \subseteq Waiting /\ Notified' = Notified
  BY <1>1 DEF Waiting, Notified, CallOK
<1>3. NoResultYet' /\ AbortWakesAll'
  BY <1>1, <1>2 DEF NoResultYet, AbortWakesAll, CallOK
<1>4. CallOK'
  BY <1>1, <1>3 DEF CallOK
<1>5. NoLostWakeup'
  BY <1>1, <1>2 DEF NoLostWakeup
<1> QED
  BY <1>1, <1>4, <1>5, SameData

(* A drop takes packets away and leaves the threads alone.                 *)
LEMMA RemoveKeeps ==
  ASSUME DataOK, CallOK, NoLostWakeup, NEW k \in 0 .. Len(queue), RemoveFront(k),
         UNCHANGED <<abort_request, callVars>>
  PROVE  DataOK' /\ CallOK' /\ NoLostWakeup'
<1>1. Len(queue) \in Nat
  BY LenProperties DEF DataOK
<1>2. k \in Nat /\ k <= Len(queue)
  BY <1>1
<1>3. DataOK'
  BY <1>2, RemoveFrontData
<1>4. Len(queue') = Len(queue) - k
  BY <1>2, Remaining DEF RemoveFront, DataOK
<1>5. wait' = wait /\ blocking' = blocking /\ ret' = ret /\ abort_request' = abort_request
  BY DEF callVars
<1>6. Waiting' = Waiting /\ Notified' = Notified
  BY <1>5 DEF Waiting, Notified
<1>7. CallOK'
  BY <1>5, <1>6 DEF CallOK, AbortWakesAll, NoResultYet
<1>8. NoLostWakeup'
  <2>1. ASSUME Waiting' # {} PROVE Len(queue') <= Cardinality(Notified')
    <3>1. Len(queue) <= Cardinality(Notified)
      BY <1>6, <2>1 DEF NoLostWakeup
    <3> QED
      BY <1>1, <1>2, <1>4, <1>6, <3>1, NotifiedFinite
  <2> QED
    BY <2>1 DEF NoLostWakeup
<1> QED
  BY <1>3, <1>7, <1>8

(* An abort leaves no thread asleep.                                       *)
LEMMA AbortKeeps ==
  ASSUME DataOK, CallOK, Abort
  PROVE  DataOK' /\ CallOK' /\ NoLostWakeup'
<1>1. /\ abort_request' = TRUE /\ UNCHANGED dataVars /\ UNCHANGED <<blocking, ret>>
      /\ wait' = [c \in Consumers |-> IF c \in Waiting THEN "notified" ELSE wait[c]]
  BY DEF Abort, NotifyAll
<1>2. Waiting' = {}
  BY <1>1 DEF Waiting
<1>3. NoResultYet'
  BY <1>1 DEF NoResultYet, CallOK, Waiting
<1>4. CallOK'
  BY <1>1, <1>2, <1>3 DEF CallOK, AbortWakesAll
<1> QED
  BY <1>1, <1>2, <1>4, SameData DEF NoLostWakeup

-----------------------------------------------------------------------------
(* The invariant. *)

(* It holds of a new queue ...                                             *)
LEMMA InitIInv == Init => IInv
<1> SUFFICES ASSUME Init PROVE DataOK /\ CallOK /\ NoLostWakeup
  BY IInvParts
<1> USE DEF Init
<1>1. \A m \in Media : PositionsOf(m) = {}
  BY EmptySeq, LenProperties DEF PositionsOf, At
<1>2. CountsMatch /\ SizesMatch /\ PtsWindow
  <2>1. Bytes(queue, {}) = 0
    <3>1. BytesOf(queue, {}) = {}
      BY DEF BytesOf
    <3> QED
      BY <3>1, FS_EmptySet DEF Bytes
  <2> QED
    BY <1>1, <2>1, FS_EmptySet DEF CountsMatch, SizesMatch, PtsWindow, ZeroStats
<1>3. DataOK
  BY <1>2, EmptySeq, PacketQueueAssumption DEF DataOK, ZeroStats
<1>4. Waiting = {}
  BY DEF Waiting
<1>5. CallOK
  BY <1>4 DEF CallOK, AbortWakesAll, NoResultYet
<1> QED
  BY <1>3, <1>4, <1>5 DEF NoLostWakeup

(* A pop does one of four things, at its start or after a wait.            *)
LEMMA PopSteps ==
  ASSUME NEW c \in Consumers, CallOK,
         (\E forever \in BOOLEAN : PopStart(c, forever)) \/ PopResume(c)
  PROVE  \/ ReturnAbort(c)
         \/ ReturnPacket(c)
         \/ \E forever \in BOOLEAN : BeginWait(c, forever)
         \/ /\ queue = <<>> /\ Return(c, "empty") /\ UNCHANGED dataVars
            /\ ~abort_request /\ wait[c] # "none"
BY DEF PopStart, PopResume, CallOK

(* ... and every step keeps it.                                            *)
LEMMA NextIInv == IInv /\ [Next]_queueVars => IInv'
<1>0. DataOK' /\ CallOK' /\ NoLostWakeup' => IInv'
  BY DEF IInv, TypeOK, DataOK, CallOK
<1> SUFFICES ASSUME DataOK, CallOK, NoLostWakeup, [Next]_queueVars
             PROVE  DataOK' /\ CallOK' /\ NoLostWakeup'
  BY <1>0, IInvParts
<1>1. ASSUME NEW p \in NextPackets, Push(p) PROVE DataOK' /\ CallOK' /\ NoLostWakeup'
  <2>1. p \in Packet
    BY DEF NextPackets
  <2> QED
    BY <1>1, <2>1, PushKeeps
<1>2. ASSUME NEW c \in Consumers,
             (\E forever \in BOOLEAN : PopStart(c, forever)) \/ PopResume(c)
      PROVE  DataOK' /\ CallOK' /\ NoLostWakeup'
  BY <1>2, PopSteps, ReturnAbortKeeps, ReturnPacketKeeps, BeginWaitKeeps, ReturnEmptyKeeps
<1>3. ASSUME NEW c \in Consumers, Expire(c) PROVE DataOK' /\ CallOK' /\ NoLostWakeup'
  BY <1>3, ExpireKeeps
<1>4. ASSUME NEW c \in Consumers, WakeSpuriously(c)
      PROVE  DataOK' /\ CallOK' /\ NoLostWakeup'
  BY <1>4, WakeSpuriouslyKeeps
<1>5. ASSUME NEW c \in Consumers, DropUntilKey(c)
      PROVE  DataOK' /\ CallOK' /\ NoLostWakeup'
  BY <1>5, RemoveKeeps DEF DropUntilKey
<1>6. ASSUME NEW c \in Consumers, DropAll(c) PROVE DataOK' /\ CallOK' /\ NoLostWakeup'
  <2>1. Len(queue) \in 0 .. Len(queue)
    BY LenProperties DEF DataOK
  <2> QED
    BY <1>6, <2>1, RemoveKeeps DEF DropAll
<1>7. ASSUME Abort PROVE DataOK' /\ CallOK' /\ NoLostWakeup'
  BY <1>7, AbortKeeps
<1>8. ASSUME UNCHANGED queueVars PROVE DataOK' /\ CallOK' /\ NoLostWakeup'
  <2>1. /\ UNCHANGED dataVars /\ queue' = queue /\ wait' = wait /\ blocking' = blocking
        /\ ret' = ret /\ abort_request' = abort_request
    BY <1>8 DEF queueVars, dataVars, callVars
  <2>2. Waiting' = Waiting /\ Notified' = Notified
    BY <2>1 DEF Waiting, Notified
  <2>3. CallOK'
    BY <2>1, <2>2 DEF CallOK, AbortWakesAll, NoResultYet
  <2> QED
    BY <2>1, <2>2, <2>3, SameData DEF NoLostWakeup
<1> QED
  BY <1>1, <1>2, <1>3, <1>4, <1>5, <1>6, <1>7, <1>8 DEF Next

(* However the capturers, the consumers, the timeouts, spurious wake-ups   *)
(* and the abort interleave, the inductive invariant holds.                *)
THEOREM Invariance == SafeSpec => []IInv
<1> QED
  BY InitIInv, NextIInv, PTL DEF SafeSpec

(* Type correctness, the packet counters never negative.                   *)
THEOREM TypeCorrect == SafeSpec => []TypeOK
<1>1. IInv => TypeOK
  BY DEF IInv
<1> QED
  BY <1>1, Invariance, PTL

(* The counters of GetStats are the packets queued.                        *)
THEOREM CountsAreRight == SafeSpec => []CountsMatch
<1>1. IInv => CountsMatch
  BY DEF IInv
<1> QED
  BY <1>1, Invariance, PTL

(* The byte counters are the bytes queued.                                 *)
THEOREM SizesAreRight == SafeSpec => []SizesMatch
<1>1. IInv => SizesMatch
  BY DEF IInv
<1> QED
  BY <1>1, Invariance, PTL

(* The pts window of the durations is the one of the packets queued.       *)
THEOREM WindowIsRight == SafeSpec => []PtsWindow
<1>1. IInv => PtsWindow
  BY DEF IInv
<1> QED
  BY <1>1, Invariance, PTL

(* notify_one never leaves a packet to a thread that nobody wakes.         *)
THEOREM NoWakeupIsLost == SafeSpec => []NoLostWakeup
<1>1. IInv => NoLostWakeup
  BY DEF IInv
<1> QED
  BY <1>1, Invariance, PTL

(* After Abort no thread sleeps at the condition variable.                 *)
THEOREM AbortLeavesNoneWaiting == SafeSpec => []AbortWakesAll
<1>1. IInv => AbortWakesAll
  BY DEF IInv
<1> QED
  BY <1>1, Invariance, PTL

-----------------------------------------------------------------------------
(* The steps of the pts bound the windows, and the windows the durations. *)

(* Sets of places of which one is the other, k places further, are equally *)
(* large.                                                                  *)
LEMMA ShiftedCardinality ==
  ASSUME NEW k \in Int, NEW S \in SUBSET Int, NEW T \in SUBSET Int, IsFiniteSet(S),
         \A j \in S : j + k \in T, \A i \in T : i - k \in S
  PROVE  Cardinality(S) = Cardinality(T)
<1> DEFINE f == [j \in S |-> j + k]
<1>1. f \in [S -> T]
  OBVIOUS
<1>2. \A i, j \in S : f[i] = f[j] => i = j
  OBVIOUS
<1>3. ASSUME NEW t \in T PROVE \E j \in S : f[j] = t
  <2>1. t - k \in S /\ f[t - k] = t
    OBVIOUS
  <2> QED
    BY <2>1
<1> HIDE DEF f
<1>4. f \in Bijection(S, T)
  BY <1>1, <1>2, <1>3, Fun_IsBij
<1> QED
  BY <1>4, FS_Bijection DEF ExistsBijection

(* Frames and their duration multiplied.                                   *)
LEMMA FrameTimes ==
  ASSUME NEW d \in Nat, NEW n \in Nat
  PROVE  /\ d * n \in Nat /\ d * (n + 1) = d * n + d
         /\ d * 0 = 0 /\ d * 1 = d
         /\ n > 0 => d * (n - 1) = d * n - d /\ d * n >= d /\ d * (n - 1) \in Nat
<1>1. d * n \in Nat /\ d * (n + 1) = d * n + d /\ d * 0 = 0 /\ d * 1 = d
  OBVIOUS
<1>2. ASSUME n > 0
      PROVE  d * (n - 1) = d * n - d /\ d * n >= d /\ d * (n - 1) \in Nat
  <2>1. n - 1 \in Nat /\ d * (n - 1) = d * n - d
    BY <1>2
  <2>2. \A k \in Nat : d * k \in Nat
    OBVIOUS
  <2>3. d * (n - 1) \in Nat
    BY <2>1, <2>2
  <2> QED
    BY <1>1, <2>1, <2>3
<1> QED
  BY <1>1, <1>2

(* Later places are places, finitely many.                                 *)
LEMMA LaterFinite ==
  ASSUME queue \in Seq(Packet), NEW m, NEW i
  PROVE  /\ PositionsOf(m) \subseteq Int /\ IsFiniteSet(PositionsOf(m))
         /\ Cardinality(PositionsOf(m)) \in Nat
         /\ Later(m, i) \subseteq PositionsOf(m) /\ IsFiniteSet(Later(m, i))
         /\ Cardinality(Later(m, i)) \in Nat
<1>1. /\ PositionsOf(m) \subseteq 1 .. Len(queue) /\ IsFiniteSet(PositionsOf(m))
      /\ Cardinality(PositionsOf(m)) \in Nat
  BY AtFinite DEF PositionsOf
<1>2. Later(m, i) \subseteq PositionsOf(m)
  BY DEF Later
<1> QED
  BY <1>1, <1>2, FS_Subset, FS_CardinalityType

(* What leaves takes the front of the window along.                        *)
LEMMA RemoveFrontWindow ==
  ASSUME DataOK, NEW m \in Media, NEW lo \in Nat, NEW hi \in Nat, Window(m, lo, hi),
         NEW k \in Nat, k <= Len(queue), RemoveFront(k)
  PROVE  Window(m, lo, hi)'
<1> DEFINE P == PositionsOf(m)
           T == TakenOf(k, m)
<1>1. queue \in Seq(Packet) /\ back_pts[m] \in Int /\ front_pts[m] \in Int
  BY PacketQueueAssumption DEF DataOK
<1>2. /\ Len(queue) \in Nat
      /\ queue' \in Seq(Packet)
      /\ \A i \in 1 .. Len(queue) - k : queue'[i] = queue[i + k]
      /\ \A i \in P' : i + k \in P /\ i + k > k
      /\ \A i \in P : i > k => i - k \in P'
      /\ P \subseteq 1 .. Len(queue) /\ P' \subseteq 1 .. Len(queue) - k
      /\ Cardinality(P') = Cardinality(P) - Cardinality(T)
      /\ Cardinality(P') \in Nat
  BY <1>1, FrontRemoved
<1>3. /\ back_pts' = back_pts /\ first_packet' = first_packet
      /\ front_pts'[m] = FrontAfter(k, m)
  BY DEF RemoveFront
<1>4. ASSUME NEW i \in P'
      PROVE  back_pts'[m] - queue'[i].pts
               \in lo * Cardinality(Later(m, i)') .. hi * Cardinality(Later(m, i)')
  <2>1. /\ i \in Int /\ i + k \in P /\ queue'[i] = queue[i + k]
    BY <1>2
  <2>2. Cardinality(Later(m, i)') = Cardinality(Later(m, i + k))
    <3>1. Later(m, i)' \subseteq Int /\ Later(m, i + k) \subseteq Int
      BY <1>2 DEF Later
    <3>2. \A j \in Later(m, i)' : j + k \in Later(m, i + k)
      BY <1>2, <2>1 DEF Later
    <3>3. ASSUME NEW j \in Later(m, i + k) PROVE j - k \in Later(m, i)'
      <4>1. j \in P /\ j > i + k /\ j \in Int /\ i \in 1 .. Len(queue) - k
        BY <1>2 DEF Later
      <4>2. j > k /\ j - k > i
        BY <1>2, <4>1
      <4> QED
        BY <1>2, <4>1, <4>2 DEF Later
    <3>4. IsFiniteSet(Later(m, i)')
      <4>1. IsFiniteSet(P')
        BY <1>2, AtFinite DEF PositionsOf
      <4>2. Later(m, i)' \subseteq P'
        BY DEF Later
      <4> QED
        BY <4>1, <4>2, FS_Subset
    <3>5. \A j \in Later(m, i + k) : j - k \in Later(m, i)'
      BY <3>3
    <3>6. k \in Int
      OBVIOUS
    <3> QED
      BY <3>1, <3>2, <3>4, <3>5, <3>6, ShiftedCardinality, ZenonT(30)
  <2> QED
    BY <1>3, <2>1, <2>2 DEF Window
<1>5. CASE T = {}
  <2>1. front_pts'[m] = front_pts[m] /\ Cardinality(T) = 0
    BY <1>3, <1>5, FS_EmptySet DEF FrontAfter
  <2>2. Cardinality(P) \in Nat
    BY <1>1, LaterFinite
  <2>3. Cardinality(P') = Cardinality(P)
    BY <1>2, <2>1, <2>2
  <2>4. first_packet'[m] => P' = {}
    BY <1>2, <1>3 DEF Window
  <2> QED
    BY <1>3, <1>4, <2>1, <2>3, <2>4 DEF Window
<1>6. CASE T # {}
  <2> DEFINE last == LastOf(T)
  <2>1. /\ last \in T /\ \A j \in T : j <= last
        /\ T = {i \in P : i <= k}
    BY <1>1, <1>6, TakenFacts DEF TakenOf
  <2>2. front_pts'[m] = queue[last].pts
    BY <1>3, <1>6 DEF FrontAfter
  <2> HIDE DEF last
  <2>3. Later(m, last) = P \ T
    <3>1. ASSUME NEW j \in P PROVE j > last <=> ~(j <= k)
      <4>1. j \in Int /\ last \in Int /\ last <= k
        BY <1>2, <2>1
      <4>2. j <= k => j <= last
        BY <2>1
      <4> QED
        BY <4>1, <4>2
    <3> QED
      BY <2>1, <3>1 DEF Later
  <2>4. Cardinality(Later(m, last)) = Cardinality(P')
    <3>1. IsFiniteSet(P) /\ P \cap T = T
      BY <1>1, <2>1, LaterFinite
    <3>2. Cardinality(P \ T) = Cardinality(P) - Cardinality(P \cap T)
      BY <3>1, FS_Difference
    <3> QED
      BY <1>2, <2>3, <3>1, <3>2
  <2>5. last \in P
    BY <2>1
  <2>6. back_pts[m] - queue[last].pts \in lo * Cardinality(P') .. hi * Cardinality(P')
    BY <2>4, <2>5 DEF Window
  <2>7. back_pts'[m] - front_pts'[m]
          \in lo * Cardinality(P') - lo .. hi * Cardinality(P')
    <3> DEFINE span == back_pts'[m] - front_pts'[m]
               least == lo * Cardinality(P')
               most == hi * Cardinality(P')
    <3>1. span \in least .. most
      BY <1>3, <2>2, <2>6
    <3>2. least \in Nat /\ most \in Nat
      BY <1>2, FrameTimes
    <3> HIDE DEF span, least, most
    <3>3. span \in least - lo .. most
      BY <3>1, <3>2
    <3> QED
      BY <3>3 DEF span, least, most
  <2>8. ~first_packet'[m]
    BY <1>3, <2>5 DEF Window
  <2> QED
    BY <1>4, <2>7, <2>8 DEF Window
<1> QED
  BY <1>5, <1>6

(* A push puts a packet a step after the last, or begins the window.       *)
LEMMA AcceptWindow ==
  ASSUME DataOK, NEW m \in Media, NEW lo \in Nat, NEW hi \in Nat, Window(m, lo, hi),
         PtsSteps[m] \subseteq lo .. hi, NEW p \in NextPackets, Accept(p)
  PROVE  Window(m, lo, hi)'
<1> DEFINE P == PositionsOf(m)
           N == Len(queue) + 1
<1>1. /\ queue \in Seq(Packet) /\ back_pts[m] \in Int /\ front_pts[m] \in Int
      /\ p \in Packet /\ p.media \in Media /\ p.pts \in Int
  BY PacketQueueAssumption DEF DataOK, NextPackets, Packet
<1>2. /\ queue' = Append(queue, p)
      /\ back_pts' = [back_pts EXCEPT ![p.media] = p.pts]
      /\ front_pts' = [front_pts EXCEPT ![p.media] = IF first_packet[p.media] THEN p.pts ELSE @]
      /\ first_packet' = [first_packet EXCEPT ![p.media] = FALSE]
  BY DEF Accept
<1>3. /\ Len(queue) \in Nat /\ queue' \in Seq(Packet)
      /\ \A i \in 1 .. Len(queue) : queue'[i] = queue[i]
      /\ queue'[N] = p
  BY <1>1, <1>2, AppendProperties, LenProperties
<1>4. /\ P \subseteq 1 .. Len(queue)
      /\ P' = P \cup (IF p.media = m THEN {N} ELSE {})
  BY <1>1, <1>2, AtFinite, AtAppend DEF PositionsOf
<1>5. CASE p.media # m
  <2>1. /\ P' = P /\ back_pts'[m] = back_pts[m] /\ front_pts'[m] = front_pts[m]
        /\ first_packet'[m] = first_packet[m]
    BY <1>1, <1>2, <1>4, <1>5 DEF DataOK
  <2>2. \A i : Later(m, i)' = Later(m, i)
    BY <2>1 DEF Later
  <2>3. \A i \in P : queue'[i] = queue[i]
    BY <1>3, <1>4
  <2> QED
    BY <2>1, <2>2, <2>3 DEF Window
<1>6. CASE p.media = m
  <2>1. /\ P' = P \cup {N} /\ N \notin P
        /\ back_pts'[m] = p.pts /\ ~first_packet'[m]
        /\ front_pts'[m] = IF first_packet[m] THEN p.pts ELSE front_pts[m]
    BY <1>1, <1>2, <1>3, <1>4, <1>6 DEF DataOK
  <2>2. p.pts - back_pts[m] \in lo .. hi
    BY <1>6 DEF NextPackets
  <2>3. /\ IsFiniteSet(P) /\ Cardinality(P) \in Nat
        /\ Cardinality(P') = Cardinality(P) + 1
    BY <1>1, <2>1, LaterFinite, FS_AddElement
  <2>4. ASSUME NEW i \in P'
        PROVE  back_pts'[m] - queue'[i].pts
                 \in lo * Cardinality(Later(m, i)') .. hi * Cardinality(Later(m, i)')
    <3>1. CASE i = N
      <4>1. Later(m, i)' = {}
        BY <1>3, <1>4, <2>1, <3>1 DEF Later
      <4>2. Cardinality(Later(m, i)') = 0 /\ lo * 0 = 0 /\ hi * 0 = 0
        BY <4>1, FS_EmptySet
      <4> QED
        BY <1>1, <1>3, <2>1, <3>1, <4>2
    <3>2. CASE i # N
      <4>1. i \in P /\ i \in 1 .. Len(queue) /\ queue'[i] = queue[i]
        BY <1>3, <1>4, <2>1, <3>2
      <4>2. Later(m, i)' = Later(m, i) \cup {N} /\ N \notin Later(m, i)
        <5>1. N > i
          BY <1>3, <4>1
        <5> QED
          BY <2>1, <5>1 DEF Later
      <4> DEFINE n == Cardinality(Later(m, i))
                 back == back_pts[m]
                 pts == queue[i].pts
                 step == p.pts - back
      <4>3. n \in Nat /\ Cardinality(Later(m, i)') = n + 1
        BY <1>1, <4>2, LaterFinite, FS_AddElement
      <4>4. back - pts \in lo * n .. hi * n
        BY <4>1 DEF Window
      <4>5. pts \in Int
        <5>1. queue[i] \in Packet
          BY <1>1, <4>1, ElementOfSeq
        <5>2. pts \in Pts
          BY <5>1 DEF Packet
        <5> QED
          BY <5>2, PacketQueueAssumption
      <4>6. back_pts'[m] - queue'[i].pts = back - pts + step /\ step \in lo .. hi
        BY <1>1, <2>1, <2>2, <4>1, <4>5
      <4> HIDE DEF n, back, pts, step
      <4>7. /\ lo * n \in Nat /\ lo * (n + 1) = lo * n + lo
            /\ hi * n \in Nat /\ hi * (n + 1) = hi * n + hi
        BY <4>3, FrameTimes
      <4>8. back - pts + step \in lo * (n + 1) .. hi * (n + 1)
        BY <4>4, <4>6, <4>7
      <4> QED
        BY <4>3, <4>6, <4>8
    <3> QED
      BY <3>1, <3>2
  <2>5. back_pts'[m] - front_pts'[m]
          \in lo * Cardinality(P') - lo .. hi * Cardinality(P')
    <3> DEFINE nb == Cardinality(P)
    <3>0. /\ lo * nb \in Nat /\ lo * (nb + 1) = lo * nb + lo
          /\ hi * nb \in Nat /\ hi * (nb + 1) = hi * nb + hi
      BY <2>3, FrameTimes
    <3>1. CASE first_packet[m]
      <4>1. nb = 0
        BY <3>1, FS_EmptySet DEF Window
      <4>2. back_pts'[m] - front_pts'[m] = 0
        BY <1>1, <2>1, <3>1
      <4>3. lo * 1 = lo /\ hi * 1 = hi /\ Cardinality(P') = 1
        BY <2>3, <4>1
      <4> QED
        BY <4>2, <4>3
    <3>2. CASE ~first_packet[m]
      <4> DEFINE span == back_pts[m] - front_pts[m]
                 step == p.pts - back_pts[m]
      <4>1. back_pts'[m] - front_pts'[m] = span + step
        BY <1>1, <2>1, <3>2
      <4>2. span \in lo * nb - lo .. hi * nb /\ step \in lo .. hi
        BY <2>2 DEF Window
      <4> HIDE DEF span, step, nb
      <4>3. span + step \in lo * (nb + 1) - lo .. hi * (nb + 1)
        BY <3>0, <4>2
      <4> QED
        BY <2>3, <4>1, <4>3 DEF nb
    <3> QED
      BY <3>1, <3>2
  <2> QED
    BY <2>1, <2>4, <2>5 DEF Window
<1> QED
  BY <1>5, <1>6

(* Nothing pushed and nothing gone: the spacing stays.                     *)
LEMMA SameSpaced ==
  ASSUME Spaced, UNCHANGED dataVars
  PROVE  Spaced'
<1>1. UNCHANGED <<queue, front_pts, back_pts, first_packet>>
  BY DEF dataVars, ptsVars
<1>2. \A m, i : PositionsOf(m)' = PositionsOf(m) /\ Later(m, i)' = Later(m, i)
  BY <1>1 DEF PositionsOf, Later
<1> QED
  BY <1>1, <1>2 DEF Spaced, Window

(* A queue that never held anything is spaced in any way, ...              *)
LEMMA InitSpaced == Init => Spaced
<1> SUFFICES ASSUME Init, NEW m \in Media, NEW lo \in Nat, NEW hi \in Nat
             PROVE  Window(m, lo, hi)
  BY DEF Spaced
<1>1. PositionsOf(m) = {} /\ back_pts[m] = 0 /\ front_pts[m] = 0
  BY EmptySeq, LenProperties DEF Init, PositionsOf, At
<1>2. Cardinality(PositionsOf(m)) = 0 /\ lo * 0 = 0 /\ hi * 0 = 0
  BY <1>1, FS_EmptySet
<1> QED
  BY <1>1, <1>2 DEF Window

(* ... and one that holds packets as the steps of their pts allow.         *)
LEMMA NextSpaced == IInv /\ Spaced /\ [Next]_queueVars => Spaced'
<1> SUFFICES ASSUME DataOK, CallOK, Spaced, [Next]_queueVars PROVE Spaced'
  BY IInvParts
<1>0. Len(queue) \in Nat
  BY LenProperties DEF DataOK
<1>1. ASSUME NEW p \in NextPackets, Push(p) PROVE Spaced'
  <2>1. Accept(p)
    BY <1>1 DEF Push
  <2> SUFFICES ASSUME NEW m \in Media, NEW lo \in Nat, NEW hi \in Nat,
                      PtsSteps[m] \subseteq lo .. hi
               PROVE  Window(m, lo, hi)'
    BY DEF Spaced
  <2> QED
    BY <2>1, AcceptWindow DEF Spaced
<1>2. ASSUME NEW k \in Nat, k <= Len(queue), RemoveFront(k) PROVE Spaced'
  <2> SUFFICES ASSUME NEW m \in Media, NEW lo \in Nat, NEW hi \in Nat,
                      PtsSteps[m] \subseteq lo .. hi
               PROVE  Window(m, lo, hi)'
    BY DEF Spaced
  <2> QED
    BY <1>2, RemoveFrontWindow DEF Spaced
<1>3. ASSUME NEW c \in Consumers,
             (\E forever \in BOOLEAN : PopStart(c, forever)) \/ PopResume(c)
      PROVE  Spaced'
  <2>1. CASE ReturnPacket(c)
    <3>1. 1 <= Len(queue) /\ RemoveFront(1)
      BY <1>0, <2>1, EmptySeq, LenProperties DEF ReturnPacket, DataOK
    <3> QED
      BY <1>2, <3>1
  <2>2. CASE UNCHANGED dataVars
    BY <2>2, SameSpaced
  <2> QED
    BY <1>3, <2>1, <2>2, PopSteps DEF ReturnAbort, BeginWait
<1>4. ASSUME NEW c \in Consumers, Expire(c) \/ WakeSpuriously(c) PROVE Spaced'
  BY <1>4, SameSpaced DEF Expire, WakeSpuriously
<1>5. ASSUME NEW c \in Consumers, DropUntilKey(c) \/ DropAll(c) PROVE Spaced'
  <2>1. \E k \in Nat : k <= Len(queue) /\ RemoveFront(k)
    BY <1>0, <1>5 DEF DropUntilKey, DropAll
  <2> QED
    BY <1>2, <2>1
<1>6. ASSUME Abort PROVE Spaced'
  BY <1>6, SameSpaced DEF Abort
<1>7. ASSUME UNCHANGED queueVars PROVE Spaced'
  BY <1>7, SameSpaced DEF queueVars
<1> QED
  BY <1>1, <1>3, <1>4, <1>5, <1>6, <1>7 DEF Next

LEMMA SpacedAlways == SafeSpec => []Spaced
<1> QED
  BY InitSpaced, NextSpaced, Invariance, PTL DEF SafeSpec

(* The span of a window in terms of the steps of the pts.                  *)
LEMMA SpanBounds ==
  ASSUME DataOK, Spaced, NEW m \in Media, NEW lo \in Nat, NEW hi \in Nat,
         PtsSteps[m] \subseteq lo .. hi
  PROVE  /\ stats[m].nb = Cardinality(PositionsOf(m)) /\ stats[m].nb \in Nat
         /\ back_pts[m] - front_pts[m] \in lo * stats[m].nb - lo .. hi * stats[m].nb
<1>1. stats[m].nb = Cardinality(PositionsOf(m))
  BY DEF DataOK, CountsMatch
<1>2. Cardinality(PositionsOf(m)) \in Nat
  BY LaterFinite DEF DataOK
<1> QED
  BY <1>1, <1>2 DEF Spaced, Window

(* If no step is longer than two frames, the span is trusted, ...          *)
LEMMA SpanTrusted ==
  ASSUME DataOK, Spaced, NEW m \in Media, PtsSteps[m] \subseteq 0 .. 2 * FrameDuration[m]
  PROVE  Trusted(m, back_pts[m] - front_pts[m], stats[m].nb)
<1> DEFINE d == FrameDuration[m]
           nb == stats[m].nb
           span == back_pts[m] - front_pts[m]
<1>1. d \in Nat /\ 2 * d \in Nat
  BY PacketQueueAssumption
<1>2. nb \in Nat /\ span \in 0 * nb - 0 .. 2 * d * nb
  BY <1>1, SpanBounds
<1> HIDE DEF d, nb, span
<1>3. 0 * nb - 0 = 0 /\ 2 * d * nb = d * nb * 2
  BY <1>1, <1>2, Z3
<1>4. 0 <= span /\ span <= d * nb * 2
  <2>1. d * nb * 2 \in Int
    BY <1>1, <1>2, FrameTimes
  <2> QED
    BY <1>2, <1>3, <2>1
<1> QED
  BY <1>4 DEF Trusted, d, nb, span

(* ... and GetStats adds one frame to it.                                  *)
StatsAreSpans ==
  \A m \in Media : StatsDuration(m) = back_pts[m] - front_pts[m] + FrameDuration[m]

LEMMA SpacedStats ==
  ASSUME PlausibleSteps
  PROVE  DataOK /\ Spaced => StatsAreSpans
<1> QED
  BY SpanTrusted DEF PlausibleSteps, StatsDuration, Duration, StatsAreSpans

(* The duration that GetStats states of a media, as long as its pts        *)
(* advance by lo to hi: the error grows with the backlog, by as much per   *)
(* packet as a step can differ from a frame.                               *)
StatsWithin(m, lo, hi) ==
  LET nb == Cardinality(PositionsOf(m))
  IN  StatsDuration(m) \in lo * nb - lo + FrameDuration[m] .. hi * nb + FrameDuration[m]

LEMMA SpacedWithin ==
  ASSUME NEW m \in Media, NEW lo \in Nat, NEW hi \in Nat,
         PtsSteps[m] \subseteq lo .. hi, hi <= 2 * FrameDuration[m]
  PROVE  DataOK /\ Spaced => StatsWithin(m, lo, hi)
<1> SUFFICES ASSUME DataOK, Spaced PROVE StatsWithin(m, lo, hi)
  OBVIOUS
<1> DEFINE d == FrameDuration[m]
           nb == stats[m].nb
           span == back_pts[m] - front_pts[m]
<1>1. d \in Nat
  BY PacketQueueAssumption
<1>2. Trusted(m, span, nb)
  <2>1. \A s \in lo .. hi : s \in 0 .. 2 * d
    BY <1>1
  <2>2. PtsSteps[m] \subseteq 0 .. 2 * d
    BY <2>1
  <2> QED
    BY <2>2, SpanTrusted
<1>3. StatsDuration(m) = span + d
  BY <1>2 DEF StatsDuration, Duration
<1>4. /\ nb = Cardinality(PositionsOf(m)) /\ nb \in Nat
      /\ span \in lo * nb - lo .. hi * nb
  BY SpanBounds
<1> HIDE DEF d, nb, span
<1>5. lo * nb \in Nat /\ hi * nb \in Nat
  BY <1>4, FrameTimes
<1>6. span + d \in lo * nb - lo + d .. hi * nb + d
  BY <1>1, <1>4, <1>5
<1> QED
  BY <1>3, <1>4, <1>6 DEF StatsWithin, d

(* Whatever the pts do within two frames, GetStats is wrong about the      *)
(* backlog by no more than their steps are: of audio, whose frames of 21   *)
(* ms come 21 or 22 ms apart, it says at most a frame and a millisecond    *)
(* per packet too much, and nothing too little.                            *)
THEOREM DurationsAreWithin ==
  ASSUME NEW m \in Media, NEW lo \in Nat, NEW hi \in Nat,
         PtsSteps[m] \subseteq lo .. hi, hi <= 2 * FrameDuration[m]
  PROVE  SafeSpec => []StatsWithin(m, lo, hi)
<1>1. IInv /\ Spaced => StatsWithin(m, lo, hi)
  BY SpacedWithin, IInvParts
<1> QED
  BY <1>1, SpacedAlways, Invariance, PTL

(* With all steps equal the durations follow the packets queued.           *)
LEMMA SpacedDurations ==
  ASSUME NominalSteps, DataOK, Spaced
  PROVE  DurationTracksBacklog
<1>0. ASSUME NEW m \in Media
      PROVE  /\ FrameDuration[m] \in Nat /\ FrameDuration[m] <= 2 * FrameDuration[m]
             /\ PtsSteps[m] \subseteq FrameDuration[m] .. FrameDuration[m]
             /\ PtsSteps[m] \subseteq 0 .. 2 * FrameDuration[m]
  <2>1. FrameDuration[m] \in Nat /\ PtsSteps[m] = {FrameDuration[m]}
    BY PacketQueueAssumption DEF NominalSteps
  <2> QED
    BY <2>1
<1>1. ASSUME NEW m \in Media
      PROVE  StatsDuration(m) \in FrameDuration[m] * Cardinality(PositionsOf(m))
                .. FrameDuration[m] * Cardinality(PositionsOf(m)) + FrameDuration[m]
  <2> DEFINE d == FrameDuration[m]
             backlog == d * Cardinality(PositionsOf(m))
  <2>1. d \in Nat
    BY <1>0
  <2>2. backlog \in Nat
    BY <2>1, LaterFinite, FrameTimes DEF DataOK
  <2>3. StatsDuration(m) \in backlog - d + d .. backlog + d
    BY <1>0, SpacedWithin DEF StatsWithin
  <2> HIDE DEF d, backlog
  <2>4. backlog - d + d = backlog
    BY <2>1, <2>2
  <2> QED
    BY <2>3, <2>4 DEF backlog, d
<1>2. VideoDuration \in
         FrameDuration["video"] * Cardinality(PositionsOf("video")) - FrameDuration["video"]
           .. FrameDuration["video"] * Cardinality(PositionsOf("video"))
  <2> DEFINE span == back_pts["video"] - front_pts["video"]
  <2>0. "video" \in Media
    BY DEF Media
  <2>1. Trusted("video", span, stats["video"].nb)
    BY <1>0, <2>0, SpanTrusted
  <2>2. span \in FrameDuration["video"] * Cardinality(PositionsOf("video"))
                   - FrameDuration["video"]
                 .. FrameDuration["video"] * Cardinality(PositionsOf("video"))
    BY <1>0, <2>0, SpanBounds
  <2>3. VideoDuration = span + 0
    BY <2>1 DEF VideoDuration, Duration
  <2> HIDE DEF span
  <2>4. span \in Int
    BY <2>2
  <2> QED
    BY <2>2, <2>3, <2>4
<1> QED
  BY <1>1, <1>2 DEF DurationTracksBacklog

(* If the next pts is always one frame later, the durations that GetStats  *)
(* and GetVideoDuration report are what is queued, within one frame:       *)
(* neither counter drifts, and no span is ever taken for broken.           *)
THEOREM DurationsAreRight ==
  ASSUME NominalSteps
  PROVE  SafeSpec => []DurationTracksBacklog
<1>1. IInv /\ Spaced => DurationTracksBacklog
  BY SpacedDurations, IInvParts
<1> QED
  BY <1>1, SpacedAlways, Invariance, PTL

(* As long as no pts goes back, or on by more than two frames, a push      *)
(* shortens no duration that GetStats reports: what was too long when the  *)
(* pusher thread looked is too long when it comes to drop.                 *)
LEMMA PushNeverShortens ==
  ASSUME PlausibleSteps, IInv, Spaced, NEW p \in NextPackets, Push(p), NEW m \in Media
  PROVE  \A n \in Int : StatsDuration(m) > n => StatsDuration(m)' > n
<1> DEFINE d == FrameDuration[m]
           span == back_pts[m] - front_pts[m]
<1>1. DataOK /\ Accept(p) /\ p \in Packet
  BY IInvParts DEF Push, NextPackets
<1>2. IInv' /\ Spaced'
  BY NextIInv, NextSpaced DEF Next
<1>3. StatsDuration(m) = span + d
  BY <1>1, SpacedStats DEF StatsAreSpans
<1>4. StatsDuration(m)' = span' + d
  <2>1. (DataOK /\ Spaced => StatsAreSpans)'
    BY SpacedStats, PTL
  <2>2. DataOK'
    BY <1>2 DEF IInv, TypeOK, DataOK
  <2> QED
    BY <1>2, <2>1, <2>2 DEF StatsAreSpans
<1>5. d \in Nat /\ back_pts[m] \in Int /\ front_pts[m] \in Int /\ p.pts \in Int
  BY <1>1, PacketQueueAssumption DEF DataOK, Packet
<1> HIDE DEF d
<1>6. span \in Int
  BY <1>5
<1>7. CASE m # p.media
  <2>1. back_pts'[m] = back_pts[m] /\ front_pts'[m] = front_pts[m]
    BY <1>1, <1>7 DEF Accept, DataOK
  <2> HIDE DEF span
  <2>2. span' = span
    BY <2>1 DEF span
  <2> QED
    BY <1>3, <1>4, <1>5, <1>6, <2>2
<1>8. CASE m = p.media
  <2>1. /\ back_pts'[m] = p.pts
        /\ front_pts'[m] = IF first_packet[m] THEN p.pts ELSE front_pts[m]
    BY <1>1, <1>8 DEF Accept, DataOK
  <2>2. PtsSteps[m] \subseteq 0 .. 2 * d
    BY DEF PlausibleSteps, d
  <2>3. p.pts - back_pts[m] \in Nat
    <3>1. p.pts - back_pts[m] \in 0 .. 2 * d
      BY <1>8, <2>2 DEF NextPackets
    <3> QED
      BY <3>1
  <2>4. CASE first_packet[m]
    <3>1. span = 0
      <4>1. PositionsOf(m) = {}
        <5>1. 0 \in Nat /\ 2 * d \in Nat
          BY <1>5
        <5> QED
          BY <2>2, <2>4, <5>1 DEF Spaced, Window
      <4>2. back_pts[m] = front_pts[m]
        BY <1>1, <4>1 DEF DataOK, PtsWindow
      <4> QED
        BY <1>5, <4>2
    <3>2. span' = 0
      BY <1>5, <2>1, <2>4
    <3> QED
      BY <1>3, <1>4, <1>5, <3>1, <3>2
  <2>5. CASE ~first_packet[m]
    <3>1. span' = span + (p.pts - back_pts[m])
      BY <1>5, <2>1, <2>5
    <3> HIDE DEF span
    <3> QED
      BY <1>3, <1>4, <1>5, <1>6, <2>3, <3>1
  <2> QED
    BY <2>4, <2>5
<1> QED
  BY <1>7, <1>8

(* A drop leaves no more video than it was to leave, and a frame, if no    *)
(* two packets are closer than a frame: a span too long to be trusted is   *)
(* replaced by the frames counted, one that is trusted is long enough.     *)
LEMMA DropShortens ==
  ASSUME FrameSteps("video"), IInv, Spaced, NEW c \in Consumers, DropUntilKey(c)
  PROVE  FrameDuration["video"] * stats'["video"].nb <= RemainMax + FrameDuration["video"]
<1> DEFINE d == FrameDuration["video"]
           nb == stats'["video"].nb
<1>1. IInv' /\ Spaced'
  BY NextIInv, NextSpaced DEF Next
<1>2. nb \in Nat /\ d \in Nat /\ RemainMax \in Nat
  BY <1>1, PacketQueueAssumption DEF IInv, TypeOK, Media
<1>3. PICK k \in 0 .. Len(queue) : (k = Len(queue) \/ StopsAt(k)) /\ RemoveFront(k)
  BY DEF DropUntilKey
<1>4. CASE k = Len(queue)
  <2>1. Len(queue) \in Nat /\ queue \in Seq(Packet)
    BY LenProperties DEF IInv, TypeOK
  <2>2. Len(queue') = 0
    BY <1>3, <1>4, <2>1, FrontRemoved DEF Media
  <2>3. nb = 0
    <3>1. PositionsOf("video")' = {}
      BY <1>1, <2>2, LenProperties DEF PositionsOf, At, IInv, TypeOK
    <3> QED
      BY <1>1, <3>1, FS_EmptySet DEF IInv, CountsMatch, Media
  <2> QED
    BY <1>2, <2>3, FrameTimes
<1>5. CASE StopsAt(k)
  <2> DEFINE span == back_pts'["video"] - front_pts'["video"]
  <2>1. VideoDuration' <= RemainMax
    BY <1>3, <1>5 DEF StopsAt, RemoveFront, VideoDuration, Duration, Trusted, Media
  <2>2. VideoDuration' = span + 0 \/ VideoDuration' = d * nb
    BY DEF VideoDuration, Duration
  <2>3. PICK hi \in Nat : PtsSteps["video"] \subseteq d .. hi
    BY DEF FrameSteps
  <2>4. span \in d * nb - d .. hi * nb
    <3>1. Window("video", d, hi)'
      BY <1>1, <1>2, <2>3 DEF Spaced, Media
    <3>2. nb = Cardinality(PositionsOf("video")')
      BY <1>1 DEF IInv, CountsMatch, Media
    <3> QED
      BY <3>1, <3>2 DEF Window
  <2>5. d * nb \in Nat
    BY <1>2, FrameTimes
  <2> HIDE DEF d, nb, span
  <2>6. d * nb <= RemainMax + d
    <3>1. span \in Int /\ span >= d * nb - d
      BY <2>4
    <3> QED
      BY <1>2, <2>1, <2>2, <2>5, <3>1
  <2> QED
    BY <2>6 DEF d, nb
<1> QED
  BY <1>3, <1>4, <1>5

-----------------------------------------------------------------------------
(* PacketQueue implements PacketChannel. *)

(* A new queue is a new channel.                                           *)
LEMMA InitImplements == Init => Chan!Init
BY DEF Init, Chan!Init

(* A return answers the caller of the channel.                             *)
LEMMA ReturnAnswers ==
  ASSUME CallOK, NEW c \in Consumers, NEW r, Return(c, r)
  PROVE  Chan!Answer(c, r) /\ UNCHANGED abort_request
BY DEF Return, Chan!Answer, CallOK

(* A step of a pop receives, is refused, blocks, gives up or does nothing. *)
LEMMA PopImplements ==
  ASSUME DataOK, CallOK, NEW c \in Consumers,
         (\E forever \in BOOLEAN : PopStart(c, forever)) \/ PopResume(c)
  PROVE  Chan!Next \/ UNCHANGED Chan!chanVars
<1>1. CASE ReturnAbort(c)
  <2>1. Chan!Refuse(c)
    BY <1>1, ReturnAnswers DEF ReturnAbort, Chan!Refuse, dataVars
  <2> QED
    BY <2>1 DEF Chan!Next
<1>2. CASE ReturnPacket(c)
  <2>1. queue # <<>> /\ queue' = SubSeq(queue, 2, Len(queue)) /\ Return(c, "packet") /\ ~abort_request
    BY <1>2 DEF ReturnPacket, RemoveFront
  <2>2. queue' = Tail(queue)
    BY <2>1, TailIsSubSeq DEF DataOK
  <2>3. Chan!Receive(c)
    BY <2>1, <2>2, ReturnAnswers DEF Chan!Receive
  <2> QED
    BY <2>3 DEF Chan!Next
<1>3. CASE \E forever \in BOOLEAN : BeginWait(c, forever)
  <2>1. /\ ~abort_request /\ queue = <<>> /\ queue' = queue
        /\ abort_request' = abort_request
        /\ wait' = [wait EXCEPT ![c] = "waiting"]
        /\ ret' = [ret EXCEPT ![c] = "none"]
    BY <1>3 DEF BeginWait, dataVars
  <2>2. CASE wait[c] = "none"
    <3>1. Chan!Block(c)
      BY <2>1, <2>2 DEF Chan!Block, CallOK
    <3> QED
      BY <3>1 DEF Chan!Next
  <2>3. CASE wait[c] # "none"
    <3>1. ret' = ret
      BY <2>1, <2>3 DEF CallOK, NoResultYet
    <3>2. [d \in Consumers |-> IF wait[d] = "none" THEN "idle" ELSE "blocked"]'
            = [d \in Consumers |-> IF wait[d] = "none" THEN "idle" ELSE "blocked"]
      BY <2>1, <2>3 DEF CallOK
    <3> QED
      BY <2>1, <3>1, <3>2 DEF Chan!chanVars
  <2> QED
    BY <2>2, <2>3
<1>4. CASE /\ queue = <<>> /\ Return(c, "empty") /\ UNCHANGED dataVars
           /\ ~abort_request /\ wait[c] # "none"
  <2>1. Chan!GiveUp(c)
    BY <1>4, ReturnAnswers DEF Chan!GiveUp, dataVars
  <2> QED
    BY <2>1 DEF Chan!Next
<1> QED
  BY <1>1, <1>2, <1>3, <1>4, PopSteps

(* A drop discards, and leaves a key frame in front if it leaves anything. *)
LEMMA DropImplements ==
  ASSUME DataOK, CallOK, NEW k \in 0 .. Len(queue), RemoveFront(k),
         k < Len(queue) => StopsAt(k), UNCHANGED <<abort_request, callVars>>
  PROVE  Chan!Next \/ UNCHANGED Chan!chanVars
<1>1. /\ queue' = SubSeq(queue, k + 1, Len(queue))
      /\ wait' = wait /\ ret' = ret /\ abort_request' = abort_request
  BY DEF RemoveFront, callVars
<1>2. Len(queue) \in Nat
  BY LenProperties DEF DataOK
<1>3. CASE k = 0
  <2>1. queue' = queue
    BY <1>1, <1>3, SubSeqFull DEF DataOK
  <2> QED
    BY <1>1, <2>1 DEF Chan!chanVars
<1>4. CASE k # 0
  <2>1. k \in 1 .. Len(queue)
    BY <1>2, <1>4
  <2>2. k < Len(queue) => Chan!IsKeyVideo(queue[k + 1])
    BY DEF StopsAt, IsKeyVideo, Chan!IsKeyVideo
  <2>3. Chan!Discard
    BY <1>1, <2>1, <2>2 DEF Chan!Discard
  <2> QED
    BY <2>3 DEF Chan!Next
<1> QED
  BY <1>3, <1>4

(* Every step of the queue is a step of the channel, or none.              *)
LEMMA NextImplements ==
  IInv /\ [Next]_queueVars => [Chan!Next]_(Chan!chanVars)
<1> SUFFICES ASSUME DataOK, CallOK, [Next]_queueVars
             PROVE  Chan!Next \/ UNCHANGED Chan!chanVars
  BY IInvParts
<1>1. ASSUME NEW p \in NextPackets, Push(p) PROVE Chan!Next \/ UNCHANGED Chan!chanVars
  <2>1. p \in Packet
    BY DEF NextPackets
  <2>2. ~abort_request /\ queue' = Append(queue, p) /\ NotifyOne
        /\ abort_request' = abort_request /\ ret' = ret
    BY <1>1 DEF Push, Accept
  <2>3. [d \in Consumers |-> IF wait[d] = "none" THEN "idle" ELSE "blocked"]'
          = [d \in Consumers |-> IF wait[d] = "none" THEN "idle" ELSE "blocked"]
    BY <2>2 DEF NotifyOne, Waiting, CallOK
  <2>4. Chan!Send
    BY <2>1, <2>2, <2>3 DEF Chan!Send
  <2> QED
    BY <2>4 DEF Chan!Next
<1>2. ASSUME NEW c \in Consumers,
             (\E forever \in BOOLEAN : PopStart(c, forever)) \/ PopResume(c)
      PROVE  Chan!Next \/ UNCHANGED Chan!chanVars
  BY <1>2, PopImplements
<1>3. ASSUME NEW c \in Consumers, Expire(c) \/ WakeSpuriously(c)
      PROVE  Chan!Next \/ UNCHANGED Chan!chanVars
  <2>1. /\ wait[c] = "waiting"
        /\ \E w \in {"notified", "expired"} : wait' = [wait EXCEPT ![c] = w]
        /\ queue' = queue /\ abort_request' = abort_request /\ ret' = ret
    BY <1>3 DEF Expire, WakeSpuriously, dataVars
  <2>2. [d \in Consumers |-> IF wait[d] = "none" THEN "idle" ELSE "blocked"]'
          = [d \in Consumers |-> IF wait[d] = "none" THEN "idle" ELSE "blocked"]
    BY <2>1 DEF CallOK
  <2> QED
    BY <2>1, <2>2 DEF Chan!chanVars
<1>4. ASSUME NEW c \in Consumers, DropUntilKey(c)
      PROVE  Chan!Next \/ UNCHANGED Chan!chanVars
  <2>1. PICK k \in 0 .. Len(queue) : (k = Len(queue) \/ StopsAt(k)) /\ RemoveFront(k)
    BY <1>4 DEF DropUntilKey
  <2>2. k < Len(queue) => StopsAt(k)
    BY <2>1, LenProperties DEF DataOK
  <2> QED
    BY <1>4, <2>1, <2>2, DropImplements DEF DropUntilKey
<1>5. ASSUME NEW c \in Consumers, DropAll(c) PROVE Chan!Next \/ UNCHANGED Chan!chanVars
  <2>1. Len(queue) \in 0 .. Len(queue) /\ ~(Len(queue) < Len(queue))
    BY LenProperties DEF DataOK
  <2> QED
    BY <1>5, <2>1, DropImplements DEF DropAll
<1>6. ASSUME Abort PROVE Chan!Next \/ UNCHANGED Chan!chanVars
  <2>1. /\ abort_request' = TRUE /\ queue' = queue /\ ret' = ret
        /\ wait' = [c \in Consumers |-> IF c \in Waiting THEN "notified" ELSE wait[c]]
    BY <1>6 DEF Abort, NotifyAll, dataVars
  <2>2. [d \in Consumers |-> IF wait[d] = "none" THEN "idle" ELSE "blocked"]'
          = [d \in Consumers |-> IF wait[d] = "none" THEN "idle" ELSE "blocked"]
    BY <2>1 DEF Waiting, CallOK
  <2>3. Chan!Close
    BY <2>1, <2>2 DEF Chan!Close
  <2> QED
    BY <2>3 DEF Chan!Next
<1>7. ASSUME UNCHANGED queueVars PROVE UNCHANGED Chan!chanVars
  BY <1>7 DEF queueVars, dataVars, callVars, Chan!chanVars
<1> QED
  BY <1>1, <1>2, <1>3, <1>4, <1>5, <1>6, <1>7 DEF Next

(* Counters, condition variable and timeouts hide behind a closable FIFO   *)
(* that gives each packet to one caller and keeps, after a Drop, only what *)
(* starts with a key frame.                                                *)
THEOREM Implements == SafeSpec => ImplementsChannel
<1> QED
  BY InitImplements, NextImplements, Invariance, PTL
  DEF SafeSpec, ImplementsChannel, Chan!SafeSpec
==============================================================================
