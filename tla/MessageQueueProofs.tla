-------------------------- MODULE MessageQueueProofs --------------------------
(***************************************************************************)
(* For every set of getters, every set of message types and any number of  *)
(* messages: the invariants of MessageQueue that mq_calls checks with two  *)
(* getters and three messages, and that each of its steps is one of        *)
(* MessageChannel, or none.                                                *)
(***************************************************************************)
EXTENDS MessageQueue, TLAPS, FiniteSetTheorems, SequenceTheorems, FunctionTheorems

-----------------------------------------------------------------------------
(* Lemmas about finite sets of positions. *)

(* Sets of positions are finite.                                           *)
LEMMA PositionsFinite ==
  ASSUME NEW n \in Nat, NEW I \in SUBSET (1 .. n)
  PROVE  IsFiniteSet(I) /\ Cardinality(I) \in Nat /\ Cardinality(I) <= n
<1>1. IsFiniteSet(1 .. n) /\ Cardinality(1 .. n) = n
  BY FS_Interval
<1> QED
  BY <1>1, FS_Subset, FS_CardinalityType

(* In a finite set of numbers the rank of a member, that is how many       *)
(* members are not above it, tells it from the others.                     *)
LEMMA RankIsInjective ==
  ASSUME NEW n \in Nat, NEW I \in SUBSET (1 .. n),
         NEW rank, rank = [i \in I |-> Cardinality({j \in I : j <= i})]
  PROVE  /\ rank \in [I -> 1 .. Cardinality(I)]
         /\ \A i, j \in I : i < j => rank[i] < rank[j]
<1>0. \A i \in I : i \in Int
  OBVIOUS
<1>1. IsFiniteSet(I) /\ Cardinality(I) \in Nat
  BY PositionsFinite
<1>2. ASSUME NEW i \in I
      PROVE  /\ IsFiniteSet({j \in I : j <= i})
             /\ rank[i] \in 1 .. Cardinality(I)
  <2>1. {j \in I : j <= i} \subseteq I
    OBVIOUS
  <2>2. /\ IsFiniteSet({j \in I : j <= i})
        /\ Cardinality({j \in I : j <= i}) <= Cardinality(I)
    BY <1>1, <2>1, FS_Subset
  <2>3. i \in {j \in I : j <= i}
    BY <1>0
  <2>4. Cardinality({j \in I : j <= i}) # 0
    BY <2>2, <2>3, FS_EmptySet
  <2>5. Cardinality({j \in I : j <= i}) \in Nat
    BY <2>2, FS_CardinalityType
  <2> QED
    BY <1>1, <2>2, <2>4, <2>5
<1>3. ASSUME NEW i \in I, NEW j \in I, i < j PROVE rank[i] < rank[j]
  <2> DEFINE below == {k \in I : k <= i}
             upto == {k \in I : k <= j}
  <2>0. /\ \A k \in I : k <= i => k <= j
        /\ j <= j /\ ~(j <= i)
    BY <1>0, <1>3
  <2>1. below \subseteq upto /\ j \in upto /\ j \notin below
    BY <2>0
  <2>2. IsFiniteSet(below) /\ IsFiniteSet(upto)
    BY <1>2
  <2>3. Cardinality(below) <= Cardinality(upto) /\ Cardinality(below) # Cardinality(upto)
    BY <2>1, <2>2, FS_Subset
  <2>4. rank[i] = Cardinality(below) /\ rank[j] = Cardinality(upto)
    OBVIOUS
  <2> QED
    BY <1>2, <2>3, <2>4
<1> QED
  BY <1>2, <1>3

(* InOrder enumerates a set of positions, each once and in ascending       *)
(* order.                                                                  *)
LEMMA InOrderExists ==
  ASSUME NEW n \in Nat, NEW I \in SUBSET (1 .. n)
  PROVE  /\ InOrder(I) \in [1 .. Cardinality(I) -> I]
         /\ \A k, l \in 1 .. Cardinality(I) : k < l => InOrder(I)[k] < InOrder(I)[l]
<1> DEFINE N == Cardinality(I)
           rank == [i \in I |-> Cardinality({j \in I : j <= i})]
<1>1. IsFiniteSet(I) /\ N \in Nat
  BY PositionsFinite
<1>2. /\ rank \in [I -> 1 .. N]
      /\ \A i, j \in I : i < j => rank[i] < rank[j]
  BY RankIsInjective
<1> HIDE DEF rank
<1>3. IsFiniteSet(1 .. N) /\ Cardinality(1 .. N) = N
  BY <1>1, FS_Interval
<1> HIDE DEF N
<1>4. \A i, j \in I : rank[i] = rank[j] => i = j
  BY <1>1, <1>2
<1>5. rank \in Injection(I, 1 .. N)
  BY <1>2, <1>4 DEF Injection, IsInjective
<1>6. rank \in Surjection(I, 1 .. N)
  BY <1>3, <1>5, FS_Injection DEF N
<1>7. \A k \in 1 .. N : \E i \in I : rank[i] = k
  BY <1>6 DEF Surjection
<1> DEFINE at == [k \in 1 .. N |-> CHOOSE i \in I : rank[i] = k]
<1>8. \A k \in 1 .. N : at[k] \in I /\ rank[at[k]] = k
  BY <1>7
<1> HIDE DEF at
<1>9. ASSUME NEW k \in 1 .. N, NEW l \in 1 .. N, k < l PROVE at[k] < at[l]
  <2>1. at[k] \in 1 .. n /\ at[l] \in 1 .. n
    BY <1>8
  <2>2. k \in Int /\ l \in Int
    BY <1>1
  <2>3. at[k] \in I /\ at[l] \in I /\ rank[at[k]] = k /\ rank[at[l]] = l
    BY <1>8
  <2>4. at[l] < at[k] => l < k
    BY <1>2, <2>3
  <2>5. ~(at[l] < at[k]) /\ at[k] # at[l]
    BY <1>9, <2>2, <2>3, <2>4
  <2> QED
    BY <2>1, <2>5
<1>10. at \in [1 .. N -> I]
  BY <1>8 DEF at
<1>11. \E f \in [1 .. N -> I] : \A k, l \in DOMAIN f : k < l => f[k] < f[l]
  BY <1>9, <1>10
<1>12. /\ InOrder(I) \in [1 .. N -> I]
       /\ \A k, l \in DOMAIN InOrder(I) : k < l => InOrder(I)[k] < InOrder(I)[l]
  BY <1>11 DEF InOrder, N
<1> QED
  BY <1>12 DEF N

(* It leaves none out.                                                     *)
LEMMA InOrderIsOnto ==
  ASSUME NEW n \in Nat, NEW I \in SUBSET (1 .. n), NEW i \in I
  PROVE  \E k \in 1 .. Cardinality(I) : InOrder(I)[k] = i
<1> DEFINE N == Cardinality(I)
           at == InOrder(I)
<1>1. IsFiniteSet(I) /\ N \in Nat
  BY PositionsFinite
<1>2. at \in [1 .. N -> I] /\ \A k, l \in 1 .. N : k < l => at[k] < at[l]
  BY InOrderExists
<1>3. IsFiniteSet(1 .. N) /\ Cardinality(1 .. N) = N
  BY <1>1, FS_Interval
<1> HIDE DEF at, N
<1>4. ASSUME NEW k \in 1 .. N, NEW l \in 1 .. N, at[k] = at[l] PROVE k = l
  <2>0. k \in Int /\ l \in Int /\ at[k] \in I /\ at[l] \in I
    BY <1>1, <1>2
  <2>1. k \in Int /\ l \in Int /\ at[k] \in 1 .. n /\ at[l] \in 1 .. n
    BY <2>0
  <2>2. ~(k < l) /\ ~(l < k)
    BY <1>2, <1>4, <2>1
  <2> QED
    BY <2>1, <2>2
<1>5. at \in Injection(1 .. N, I)
  BY <1>2, <1>4 DEF Injection, IsInjective
<1>6. at \in Surjection(1 .. N, I)
  BY <1>1, <1>3, <1>5, FS_Injection DEF N
<1> QED
  BY <1>6 DEF Surjection, at, N

-----------------------------------------------------------------------------
(* Lemmas about the objects of a sequence of messages. *)

(* The objects of a queue are finitely many.                               *)
LEMMA ObjectsFinite ==
  ASSUME NEW q \in Seq(Message)
  PROVE  /\ DOMAIN q = 1 .. Len(q) /\ Len(q) \in Nat
         /\ \A I \in SUBSET (DOMAIN q) : IsFiniteSet(I) /\ Cardinality(I) \in Nat
         /\ Objects(q) \in Nat
<1>1. DOMAIN q = 1 .. Len(q) /\ Len(q) \in Nat
  BY LenProperties
<1>2. \A I \in SUBSET (DOMAIN q) : IsFiniteSet(I) /\ Cardinality(I) \in Nat
  BY <1>1, PositionsFinite
<1> DEFINE S == {i \in DOMAIN q : q[i].obj}
<1>3. S \in SUBSET (DOMAIN q)
  OBVIOUS
<1>4. Objects(q) = Cardinality(S)
  BY DEF Objects
<1> HIDE DEF S
<1> QED
  BY <1>1, <1>2, <1>3, <1>4

(* A sequence has as many objects as there are places in T, if its objects *)
(* and these places are matched one by one.                                *)
LEMMA ObjectsMatched ==
  ASSUME NEW r \in Seq(Message), NEW T, NEW f,
         \A k \in DOMAIN r : r[k].obj => f[k] \in T,
         \A k, l \in DOMAIN r : f[k] = f[l] => k = l,
         \A i \in T : \E k \in DOMAIN r : r[k].obj /\ f[k] = i
  PROVE  Objects(r) = Cardinality(T)
<1> DEFINE S == {k \in DOMAIN r : r[k].obj}
           g == [k \in S |-> f[k]]
<1>1. IsFiniteSet(S)
  BY ObjectsFinite
<1>2. g \in [S -> T] /\ \A k, l \in S : g[k] = g[l] => k = l
  OBVIOUS
<1>3. \A i \in T : \E k \in S : g[k] = i
  OBVIOUS
<1> HIDE DEF g, S
<1>4. g \in Bijection(S, T)
  BY <1>2, <1>3 DEF Bijection, Injection, IsInjective, Surjection
<1>5. Cardinality(T) = Cardinality(S)
  BY <1>1, <1>4, FS_Bijection DEF ExistsBijection
<1> QED
  BY <1>5 DEF Objects, S

(* A message put adds its object.                                          *)
LEMMA ObjectsAppend ==
  ASSUME NEW q \in Seq(Message), NEW msg \in Message
  PROVE  /\ Append(q, msg) \in Seq(Message)
         /\ Len(Append(q, msg)) = Len(q) + 1
         /\ Objects(Append(q, msg)) = Objects(q) + (IF msg.obj THEN 1 ELSE 0)
<1> DEFINE r == Append(q, msg)
           S == {i \in DOMAIN q : q[i].obj}
           T == {i \in DOMAIN r : r[i].obj}
<1>1. DOMAIN q = 1 .. Len(q) /\ Len(q) \in Nat /\ IsFiniteSet(S)
  BY ObjectsFinite
<1>2. /\ r \in Seq(Message) /\ Len(r) = Len(q) + 1 /\ DOMAIN r = 1 .. Len(q) + 1
      /\ \A i \in 1 .. Len(q) : r[i] = q[i]
      /\ r[Len(q) + 1] = msg
  BY AppendProperties, LenProperties
<1>3. T = S \cup (IF msg.obj THEN {Len(q) + 1} ELSE {})
  BY <1>1, <1>2
<1>4. Len(q) + 1 \notin S
  BY <1>1
<1>5. Cardinality(T) = Cardinality(S) + (IF msg.obj THEN 1 ELSE 0)
  <2>1. CASE msg.obj
    <3>1. T = S \cup {Len(q) + 1}
      BY <1>3, <2>1
    <3> QED
      BY <1>1, <1>4, <2>1, <3>1, FS_AddElement
  <2>2. CASE ~msg.obj
    <3>1. T = S
      BY <1>3, <2>2
    <3>2. Cardinality(S) \in Nat
      BY <1>1, FS_CardinalityType
    <3>3. (IF msg.obj THEN 1 ELSE 0) = 0
      BY <2>2
    <3> HIDE DEF S, T
    <3> QED
      BY <3>1, <3>2, <3>3
  <2> QED
    BY <2>1, <2>2
<1> QED
  BY <1>2, <1>5 DEF Objects

(* A message taken from the front takes its object along.                  *)
LEMMA ObjectsTail ==
  ASSUME NEW q \in Seq(Message), q # <<>>
  PROVE  /\ Tail(q) \in Seq(Message)
         /\ Len(q) # 0 /\ Len(Tail(q)) = Len(q) - 1
         /\ Objects(<<Head(q)>>) \in Nat
         /\ Objects(q) = Objects(<<Head(q)>>) + Objects(Tail(q))
<1> DEFINE r == Tail(q)
           n == Len(q)
           S == {i \in DOMAIN q : q[i].obj}
           front == {i \in S : i = 1}
           rest == {i \in S : i # 1}
<1>1. DOMAIN q = 1 .. n /\ n \in Nat /\ n # 0 /\ Head(q) \in Message
  BY ObjectsFinite, EmptySeq, HeadTailProperties
<1>2. /\ r \in Seq(Message) /\ Len(r) = n - 1 /\ DOMAIN r = 1 .. n - 1
      /\ \A k \in 1 .. n - 1 : r[k] = q[k + 1]
      /\ Head(q) = q[1]
  BY <1>1, HeadTailProperties, LenProperties
<1>3. IsFiniteSet(front) /\ IsFiniteSet(rest) /\ IsFiniteSet(S)
  BY ObjectsFinite
<1>4. Objects(q) = Cardinality(front) + Cardinality(rest)
  <2>1. S = front \cup rest /\ front \cap rest = {}
    OBVIOUS
  <2>2. Cardinality(front) \in Nat /\ Cardinality(rest) \in Nat
    BY <1>3, FS_CardinalityType
  <2>3. Objects(q) = Cardinality(S)
    BY DEF Objects
  <2> HIDE DEF S, front, rest
  <2>4. Cardinality(S) = Cardinality(front) + Cardinality(rest) - Cardinality(front \cap rest)
    BY <1>3, <2>1, FS_Union
  <2>5. Cardinality(front \cap rest) = 0
    BY <2>1, FS_EmptySet
  <2> QED
    BY <2>1, <2>2, <2>3, <2>4, <2>5
<1>5. Objects(r) = Cardinality(rest)
  <2> DEFINE f == [k \in DOMAIN r |-> k + 1]
  <2>1. ASSUME NEW k \in DOMAIN r, r[k].obj PROVE f[k] \in rest
    <3>1. f[k] = k + 1 /\ f[k] \in DOMAIN q /\ f[k] # 1 /\ r[k] = q[f[k]]
      BY <1>1, <1>2
    <3> QED
      BY <2>1, <3>1
  <2>2. \A k, l \in DOMAIN r : f[k] = f[l] => k = l
    BY <1>1, <1>2
  <2>3. ASSUME NEW i \in rest PROVE \E k \in DOMAIN r : r[k].obj /\ f[k] = i
    <3>1. i - 1 \in DOMAIN r /\ f[i - 1] = i /\ r[i - 1] = q[i]
      BY <1>1, <1>2
    <3> QED
      BY <3>1
  <2>4. /\ \A k \in DOMAIN r : r[k].obj => f[k] \in rest
        /\ \A i \in rest : \E k \in DOMAIN r : r[k].obj /\ f[k] = i
    BY <2>1, <2>3
  <2>5. r \in Seq(Message)
    BY <1>2
  <2> HIDE DEF f, rest, r
  <2> QED
    BY <2>2, <2>4, <2>5, ObjectsMatched
<1>6. Objects(<<Head(q)>>) = Cardinality(front)
  <2> DEFINE h == <<Head(q)>>
             f == [k \in DOMAIN h |-> 1]
  <2>1. h \in Seq(Message) /\ DOMAIN h = {1} /\ h[1] = q[1]
    BY <1>1, <1>2
  <2>2. 1 \in DOMAIN q
    BY <1>1
  <2> HIDE DEF h
  <2>3. \A k \in DOMAIN h : h[k].obj => f[k] \in front
    BY <2>1, <2>2
  <2>4. \A i \in front : \E k \in DOMAIN h : h[k].obj /\ f[k] = i
    BY <2>1
  <2>5. \A k, l \in DOMAIN h : f[k] = f[l] => k = l
    BY <2>1
  <2> HIDE DEF f, front
  <2>6. Objects(h) = Cardinality(front)
    BY <2>1, <2>3, <2>4, <2>5, ObjectsMatched
  <2> QED
    BY <2>6 DEF h
<1>7. Cardinality(front) \in Nat
  BY <1>3, FS_CardinalityType
<1> QED
  BY <1>1, <1>2, <1>4, <1>5, <1>6, <1>7

(* A subsequence has the objects of its places, and none of the others.    *)
LEMMA ObjectsSubsequence ==
  ASSUME NEW q \in Seq(Message), NEW I \in SUBSET (DOMAIN q)
  PROVE  /\ Subsequence(q, I) \in Seq(Message)
         /\ Len(Subsequence(q, I)) = Cardinality(I) /\ Cardinality(I) <= Len(q)
         /\ Objects(Subsequence(q, I)) = Cardinality({i \in I : q[i].obj})
<1> DEFINE r == Subsequence(q, I)
           N == Cardinality(I)
           at == InOrder(I)
           n == Len(q)
<1>1. DOMAIN q = 1 .. n /\ n \in Nat
  BY ObjectsFinite
<1>2. N \in Nat /\ N <= n
  BY <1>1, PositionsFinite
<1>3. at \in [1 .. N -> I] /\ \A k, l \in 1 .. N : k < l => at[k] < at[l]
  BY <1>1, InOrderExists
<1>4. \A i \in I : \E k \in 1 .. N : at[k] = i
  BY <1>1, InOrderIsOnto
<1>5. r = [k \in 1 .. N |-> q[at[k]]]
  BY DEF Subsequence
<1> HIDE DEF N, at, n, r
<1>6. \A k \in 1 .. N : q[at[k]] \in Message
  BY <1>1, <1>3, ElementOfSeq DEF n
<1>7. r \in Seq(Message) /\ DOMAIN r = 1 .. N
  BY <1>2, <1>5, <1>6, IsASeq
<1>8. Len(r) = N
  BY <1>2, <1>7, LenProperties
<1>9. ASSUME NEW k \in 1 .. N, NEW l \in 1 .. N, at[k] = at[l] PROVE k = l
  <2>1. k \in Int /\ l \in Int /\ at[k] \in 1 .. n /\ at[l] \in 1 .. n
    BY <1>1, <1>2, <1>3
  <2>2. ~(k < l) /\ ~(l < k)
    BY <1>3, <1>9, <2>1
  <2> QED
    BY <2>1, <2>2
<1> DEFINE T == {i \in I : q[i].obj}
<1>10. \A k \in DOMAIN r : r[k].obj => at[k] \in T
  BY <1>3, <1>5, <1>7
<1>11. \A i \in T : \E k \in DOMAIN r : r[k].obj /\ at[k] = i
  BY <1>4, <1>5, <1>7
<1>12. \A k, l \in DOMAIN r : at[k] = at[l] => k = l
  BY <1>7, <1>9
<1>13. r \in Seq(Message)
  BY <1>7
<1> HIDE DEF T
<1>14. Objects(r) = Cardinality(T)
  BY <1>10, <1>11, <1>12, <1>13, ObjectsMatched
<1> QED
  BY <1>2, <1>8, <1>13, <1>14 DEF N, r, n, T

-----------------------------------------------------------------------------
(* The parts of the invariant: what the queue holds and what became of the *)
(* objects; where the getters are.                                         *)

DataOK ==
  /\ queue \in Seq(Message)
  /\ abort_request \in BOOLEAN
  /\ {puts, allocated, freed, handed} \subseteq 0 .. MaxPuts
  /\ ObjectsAccounted

CallOK ==
  /\ wait \in [Getters -> {"none", "waiting", "notified", "expired"}]
  /\ timeout \in [Getters -> {"forever", "timed", "poll"}]
  /\ ret \in [Getters -> {"none", "message", "empty", "abort"}]
  /\ NoResultYet

(* They are the inductive invariant.                                       *)
LEMMA IInvParts == IInv <=> DataOK /\ CallOK /\ NoLostWakeup
BY DEF IInv, TypeOK, DataOK, CallOK

(* The threads woken are finitely many.                                    *)
LEMMA NotifiedFinite ==
  /\ IsFiniteSet(Notified) /\ Cardinality(Notified) \in Nat
  /\ \A c : IsFiniteSet(Notified \ {c})
            /\ Cardinality(Notified \ {c}) \in Nat
            /\ Cardinality(Notified \ {c}) >= Cardinality(Notified) - 1
<1>1. IsFiniteSet(Notified) /\ Cardinality(Notified) \in Nat
  BY MessageQueueAssumption, FS_Subset, FS_CardinalityType DEF Notified
<1>2. ASSUME NEW c
      PROVE  /\ IsFiniteSet(Notified \ {c})
             /\ Cardinality(Notified \ {c}) \in Nat
             /\ Cardinality(Notified \ {c}) >= Cardinality(Notified) - 1
  <2>1. /\ IsFiniteSet(Notified \ {c})
        /\ Cardinality(Notified \ {c}) =
             IF c \in Notified THEN Cardinality(Notified) - 1 ELSE Cardinality(Notified)
    BY <1>1, FS_RemoveElement
  <2> QED
    BY <1>1, <2>1, FS_CardinalityType
<1> QED
  BY <1>1, <1>2

(* The objects known are those accounted for, as numbers.                  *)
LEMMA DataNumbers ==
  ASSUME DataOK
  PROVE  /\ MaxPuts \in Nat /\ Len(queue) \in Nat /\ Objects(queue) \in Nat
         /\ puts \in 0 .. MaxPuts /\ allocated \in 0 .. MaxPuts
         /\ freed \in 0 .. MaxPuts /\ handed \in 0 .. MaxPuts
         /\ Objects(queue) + freed + handed <= allocated
         /\ ~abort_request => Objects(queue) + freed + handed = allocated
BY MessageQueueAssumption, ObjectsFinite DEF DataOK, ObjectsAccounted

(* Nothing queued, freed or handed out: the data is as good as before.     *)
LEMMA SameData ==
  ASSUME DataOK, UNCHANGED <<queue, abort_request, puts, objectVars>>
  PROVE  DataOK' /\ Len(queue') = Len(queue)
BY DEF DataOK, ObjectsAccounted, objectVars, Objects

-----------------------------------------------------------------------------
(* Each operation keeps the invariant. *)

(* A thread that is woken leaves the sleepers.                             *)
LEMMA WakeCalls ==
  ASSUME CallOK, NEW c \in Waiting, wait' = [wait EXCEPT ![c] = "notified"],
         UNCHANGED <<timeout, ret>>
  PROVE  /\ CallOK'
         /\ Waiting' \subseteq Waiting
         /\ Cardinality(Notified') = Cardinality(Notified) + 1
<1>1. c \in Getters /\ wait[c] = "waiting"
  BY DEF Waiting
<1>2. Waiting' \subseteq Waiting /\ Notified' = Notified \cup {c} /\ c \notin Notified
  BY <1>1 DEF Waiting, Notified, CallOK
<1>3. Cardinality(Notified') = Cardinality(Notified) + 1
  BY <1>2, NotifiedFinite, FS_AddElement
<1>4. NoResultYet'
  BY <1>1 DEF NoResultYet, CallOK
<1> QED
  BY <1>2, <1>3, <1>4 DEF CallOK

(* Threads that stay where they are.                                       *)
LEMMA SameCalls ==
  ASSUME CallOK, UNCHANGED callVars
  PROVE  CallOK' /\ Waiting' = Waiting /\ Notified' = Notified
BY DEF CallOK, NoResultYet, callVars, Waiting, Notified

(* A notice put adds one message, with its object, and wakes one thread    *)
(* for it, if one sleeps; a notice refused loses the object.               *)
LEMMA NotifyKeeps ==
  ASSUME DataOK, CallOK, NoLostWakeup, NEW msg \in Message, Notify(msg)
  PROVE  DataOK' /\ CallOK' /\ NoLostWakeup'
<1> DEFINE more == IF msg.obj THEN 1 ELSE 0
<1>0. /\ msg.obj \in BOOLEAN /\ more \in 0 .. 1
      /\ abort_request' = abort_request /\ timeout' = timeout /\ ret' = ret
      /\ freed' = freed /\ handed' = handed
  BY DEF Notify, Message
<1>1. allocated' = allocated + more /\ allocated' \in 0 .. MaxPuts
  <2>1. CASE msg.obj
    BY <2>1, DataNumbers DEF Notify
  <2>2. CASE ~msg.obj
    <3>1. allocated' = allocated /\ more = 0
      BY <2>2 DEF Notify
    <3> QED
      BY <3>1, DataNumbers
  <2> QED
    BY <1>0, <2>1, <2>2
<1> HIDE DEF more
<1>2. CASE abort_request
  <2>1. queue' = queue /\ wait' = wait /\ puts' = puts
    BY <1>2 DEF Notify
  <2>2. Objects(queue)' = Objects(queue)
    BY <2>1 DEF Objects
  <2>3. ObjectsAccounted'
    BY <1>0, <1>1, <1>2, <2>2, DataNumbers DEF ObjectsAccounted
  <2>4. DataOK'
    BY <1>0, <1>1, <2>1, <2>3 DEF DataOK
  <2>5. CallOK'
    BY <1>0, <2>1, SameCalls DEF callVars
  <2> QED
    BY <1>0, <1>2, <2>4, <2>5 DEF NoLostWakeup
<1>3. CASE ~abort_request
  <2>1. /\ queue' = Append(queue, msg) /\ puts' = puts + 1 /\ puts < MaxPuts
        /\ NotifyOne
    BY <1>3 DEF Notify
  <2>2. /\ queue' \in Seq(Message) /\ Len(queue') = Len(queue) + 1
        /\ Objects(queue') = Objects(queue) + more
    BY <2>1, ObjectsAppend DEF DataOK, more
  <2>3. ObjectsAccounted'
    <3>1. /\ Objects(queue') + freed + handed = allocated'
          /\ Objects(queue') + freed + handed <= allocated'
      BY <1>0, <1>1, <1>3, <2>2, DataNumbers
    <3>2. Objects(queue)' = Objects(queue')
      BY DEF Objects
    <3> QED
      BY <1>0, <3>1, <3>2 DEF ObjectsAccounted
  <2>4. puts' \in 0 .. MaxPuts
    BY <2>1, DataNumbers
  <2>5. DataOK'
    BY <1>0, <1>1, <2>2, <2>3, <2>4 DEF DataOK
  <2>6. CASE Waiting = {}
    <3>1. wait' = wait
      BY <2>1, <2>6 DEF NotifyOne
    <3>2. CallOK' /\ Waiting' = {}
      BY <1>0, <2>6, <3>1, SameCalls DEF callVars
    <3> QED
      BY <2>5, <3>2 DEF NoLostWakeup
  <2>7. CASE Waiting # {}
    <3>1. PICK c \in Waiting : wait' = [wait EXCEPT ![c] = "notified"]
      BY <2>1, <2>7 DEF NotifyOne
    <3>2. CallOK' /\ Cardinality(Notified') = Cardinality(Notified) + 1
      BY <1>0, <3>1, WakeCalls
    <3>3. Len(queue) <= Cardinality(Notified)
      BY <1>3, <2>7 DEF NoLostWakeup
    <3>4. Len(queue') <= Cardinality(Notified')
      BY <2>2, <3>2, <3>3, NotifiedFinite, DataNumbers
    <3> QED
      BY <2>5, <3>2, <3>4 DEF NoLostWakeup
  <2> QED
    BY <2>6, <2>7
<1> QED
  BY <1>2, <1>3

(* A spurious wake-up makes one more thread run, and none fewer.           *)
LEMMA WakeSpuriouslyKeeps ==
  ASSUME DataOK, CallOK, NoLostWakeup, NEW c \in Getters, WakeSpuriously(c)
  PROVE  DataOK' /\ CallOK' /\ NoLostWakeup'
<1>1. /\ c \in Waiting /\ wait' = [wait EXCEPT ![c] = "notified"]
      /\ UNCHANGED <<queue, abort_request, puts, objectVars>>
      /\ UNCHANGED <<timeout, ret>>
  BY DEF WakeSpuriously, Waiting
<1>2. CallOK' /\ Cardinality(Notified') = Cardinality(Notified) + 1
  BY <1>1, WakeCalls
<1>3. DataOK' /\ Len(queue') = Len(queue) /\ abort_request' = abort_request
  BY <1>1, SameData
<1>4. ~abort_request => Len(queue') <= Cardinality(Notified')
  BY <1>1, <1>2, <1>3, NotifiedFinite, DataNumbers DEF NoLostWakeup
<1> QED
  BY <1>2, <1>3, <1>4 DEF NoLostWakeup

(* A timeout ends a sleep; no woken thread is lost by it.                  *)
LEMMA ExpireKeeps ==
  ASSUME DataOK, CallOK, NoLostWakeup, NEW c \in Getters, Expire(c)
  PROVE  DataOK' /\ CallOK' /\ NoLostWakeup'
<1>1. /\ wait[c] = "waiting" /\ wait' = [wait EXCEPT ![c] = "expired"]
      /\ UNCHANGED <<queue, abort_request, puts, objectVars>>
      /\ timeout' = timeout /\ ret' = ret
  BY DEF Expire
<1>2. Waiting' \subseteq Waiting /\ Notified' = Notified
  BY <1>1 DEF Waiting, Notified, CallOK
<1>3. CallOK'
  BY <1>1 DEF NoResultYet, CallOK
<1>4. DataOK' /\ Len(queue') = Len(queue) /\ abort_request' = abort_request
  BY <1>1, SameData
<1> QED
  BY <1>2, <1>3, <1>4 DEF NoLostWakeup

(* A call returns: its thread is neither asleep nor woken any more.        *)
LEMMA ReturnCalls ==
  ASSUME CallOK, NEW c \in Getters, NEW r \in {"message", "empty", "abort"},
         Return(c, r), timeout' \in [Getters -> {"forever", "timed", "poll"}]
  PROVE  /\ CallOK'
         /\ Waiting' \subseteq Waiting /\ Notified' = Notified \ {c}
<1>1. wait' = [wait EXCEPT ![c] = "none"] /\ ret' = [ret EXCEPT ![c] = r]
  BY DEF Return
<1>2. NoResultYet'
  BY <1>1 DEF NoResultYet, CallOK
<1>3. Waiting' \subseteq Waiting /\ Notified' = Notified \ {c}
  BY <1>1 DEF Waiting, Notified, CallOK
<1> QED
  BY <1>1, <1>2, <1>3 DEF CallOK

(* A get that sees the abort.                                              *)
LEMMA GetAbortKeeps ==
  ASSUME DataOK, CallOK, NEW c \in Getters, GetAbort(c),
         timeout' \in [Getters -> {"forever", "timed", "poll"}],
         UNCHANGED <<abort_request, puts>>
  PROVE  DataOK' /\ CallOK' /\ NoLostWakeup'
<1>1. DataOK'
  BY SameData DEF GetAbort
<1>2. CallOK'
  BY ReturnCalls DEF GetAbort
<1>3. NoLostWakeup'
  BY DEF GetAbort, NoLostWakeup
<1> QED
  BY <1>1, <1>2, <1>3

(* A get that takes a message takes its own wake-up with it, and the       *)
(* object.                                                                 *)
LEMMA GetMessageKeeps ==
  ASSUME DataOK, CallOK, NoLostWakeup, NEW c \in Getters, GetMessage(c),
         timeout' \in [Getters -> {"forever", "timed", "poll"}],
         UNCHANGED <<abort_request, puts>>
  PROVE  DataOK' /\ CallOK' /\ NoLostWakeup'
<1> DEFINE first == Objects(<<Head(queue)>>)
<1>1. /\ ~abort_request /\ queue # <<>> /\ queue' = Tail(queue)
      /\ handed' = handed + first /\ Return(c, "message")
      /\ allocated' = allocated /\ freed' = freed
  BY DEF GetMessage
<1>2. /\ queue' \in Seq(Message) /\ Len(queue) # 0 /\ Len(queue') = Len(queue) - 1
      /\ first \in Nat /\ Objects(queue) = first + Objects(queue')
      /\ Objects(queue') \in Nat
  BY <1>1, ObjectsTail, ObjectsFinite DEF DataOK
<1> HIDE DEF first
<1>3. /\ Objects(queue') + freed' + handed' = allocated'
      /\ handed' \in 0 .. MaxPuts
  BY <1>1, <1>2, DataNumbers
<1>4. ObjectsAccounted'
  <2>1. Objects(queue)' = Objects(queue')
    BY DEF Objects
  <2>2. allocated' \in Int
    BY <1>1, DataNumbers
  <2> QED
    BY <1>3, <2>1, <2>2 DEF ObjectsAccounted
<1>5. DataOK'
  BY <1>1, <1>2, <1>3, <1>4 DEF DataOK
<1>6. CallOK' /\ Waiting' \subseteq Waiting /\ Notified' = Notified \ {c}
  BY <1>1, ReturnCalls
<1>7. ASSUME Waiting' # {} PROVE Len(queue') <= Cardinality(Notified')
  <2>1. Len(queue) <= Cardinality(Notified)
    BY <1>1, <1>6, <1>7 DEF NoLostWakeup
  <2>2. /\ Cardinality(Notified \ {c}) \in Nat /\ Cardinality(Notified) \in Nat
        /\ Cardinality(Notified \ {c}) >= Cardinality(Notified) - 1
    BY NotifiedFinite
  <2> QED
    BY <1>2, <1>6, <2>1, <2>2, DataNumbers
<1> QED
  BY <1>5, <1>6, <1>7 DEF NoLostWakeup

(* An empty queue needs nobody.                                            *)
LEMMA NobodyNeeded ==
  ASSUME queue' = <<>>
  PROVE  NoLostWakeup'
<1>1. Len(queue') = 0
  BY EmptySeq
<1>2. IsFiniteSet(Notified')
  BY MessageQueueAssumption, FS_Subset DEF Notified
<1>3. Cardinality(Notified') \in Nat
  BY <1>2, FS_CardinalityType
<1> QED
  BY <1>1, <1>3 DEF NoLostWakeup

(* A get that reports "nothing", ...                                       *)
LEMMA GetNothingKeeps ==
  ASSUME DataOK, CallOK, NEW c \in Getters, GetNothing(c), queue = <<>>,
         timeout' \in [Getters -> {"forever", "timed", "poll"}],
         UNCHANGED <<abort_request, puts>>
  PROVE  DataOK' /\ CallOK' /\ NoLostWakeup'
<1>1. Return(c, "empty") /\ queue' = queue /\ UNCHANGED objectVars
  BY DEF GetNothing
<1>2. DataOK'
  BY <1>1, SameData
<1>3. CallOK'
  BY <1>1, ReturnCalls
<1> QED
  BY <1>1, <1>2, <1>3, NobodyNeeded

(* ... or goes to sleep.                                                   *)
LEMMA SleepKeeps ==
  ASSUME DataOK, CallOK, NEW c \in Getters, Sleep(c), queue = <<>>,
         timeout' \in [Getters -> {"forever", "timed", "poll"}],
         UNCHANGED <<abort_request, puts>>
  PROVE  DataOK' /\ CallOK' /\ NoLostWakeup'
<1>1. /\ wait' = [wait EXCEPT ![c] = "waiting"] /\ ret' = [ret EXCEPT ![c] = "none"]
      /\ queue' = queue /\ UNCHANGED objectVars
  BY DEF Sleep
<1>2. DataOK'
  BY <1>1, SameData
<1>3. NoResultYet'
  BY <1>1 DEF NoResultYet, CallOK
<1>4. CallOK'
  BY <1>1, <1>3 DEF CallOK
<1> QED
  BY <1>1, <1>2, <1>4, NobodyNeeded

(* What a step of a get does, at its start or after a wait.                *)
LEMMA GetSteps ==
  ASSUME CallOK, NEW c \in Getters,
         (\E t \in {"forever", "timed", "poll"} : GetStart(c, t)) \/ GetResume(c)
  PROVE  /\ timeout' \in [Getters -> {"forever", "timed", "poll"}]
         /\ UNCHANGED <<abort_request, puts>>
         /\ \/ GetAbort(c)
            \/ GetMessage(c)
            \/ queue = <<>> /\ GetNothing(c)
            \/ queue = <<>> /\ ~abort_request /\ Sleep(c)
<1>1. CASE \E t \in {"forever", "timed", "poll"} : GetStart(c, t)
  BY <1>1 DEF GetStart, CallOK
<1>2. CASE GetResume(c)
  BY <1>2 DEF GetResume, CallOK
<1> QED
  BY <1>1, <1>2

LEMMA GetKeeps ==
  ASSUME DataOK, CallOK, NoLostWakeup, NEW c \in Getters,
         (\E t \in {"forever", "timed", "poll"} : GetStart(c, t)) \/ GetResume(c)
  PROVE  DataOK' /\ CallOK' /\ NoLostWakeup'
BY GetSteps, GetAbortKeeps, GetMessageKeeps, GetNothingKeeps, SleepKeeps

(* What remove leaves: the messages of other types; their objects and the  *)
(* ones it frees are all there were.                                       *)
LEMMA RemoveObjects ==
  ASSUME NEW w, queue \in Seq(Message),
         NEW left, left = Subsequence(queue, DOMAIN queue \ OfType(w)),
         NEW gone, gone = Cardinality({i \in OfType(w) : queue[i].obj})
  PROVE  /\ left \in Seq(Message) /\ Len(left) \in Nat /\ Len(left) <= Len(queue)
         /\ gone \in Nat /\ Objects(left) \in Nat
         /\ Objects(queue) = Objects(left) + gone
<1> DEFINE kept == {i \in DOMAIN queue \ OfType(w) : queue[i].obj}
           dropped == {i \in OfType(w) : queue[i].obj}
           all == {i \in DOMAIN queue : queue[i].obj}
<1>1. /\ left \in Seq(Message) /\ Len(left) <= Len(queue)
      /\ Objects(left) = Cardinality(kept)
  <2>1. DOMAIN queue \ OfType(w) \in SUBSET (DOMAIN queue)
    OBVIOUS
  <2> QED
    BY <2>1, ObjectsSubsequence
<1>2. kept \cup dropped = all /\ kept \cap dropped = {}
  BY DEF OfType
<1>3. /\ kept \in SUBSET (DOMAIN queue) /\ dropped \in SUBSET (DOMAIN queue)
      /\ all \in SUBSET (DOMAIN queue)
  BY DEF OfType
<1>4. Objects(queue) = Cardinality(all) /\ gone = Cardinality(dropped)
  BY DEF Objects
<1> HIDE DEF kept, dropped, all
<1>5. /\ IsFiniteSet(kept) /\ IsFiniteSet(dropped)
      /\ Cardinality(kept) \in Nat /\ Cardinality(dropped) \in Nat
  BY <1>3, ObjectsFinite
<1>6. Cardinality(all) = Cardinality(kept) + Cardinality(dropped) - Cardinality(kept \cap dropped)
  BY <1>2, <1>5, FS_Union
<1>7. Cardinality(kept \cap dropped) = 0
  BY <1>2, FS_EmptySet
<1>8. Len(left) \in Nat
  BY <1>1, LenProperties
<1> QED
  BY <1>1, <1>4, <1>5, <1>6, <1>7, <1>8

(* Messages leave without a getter: their objects are freed, and those     *)
(* that stay still have a thread each that was woken for them.             *)
LEMMA LeaveKeeps ==
  ASSUME DataOK, CallOK, NoLostWakeup, NEW gone \in Nat,
         queue' \in Seq(Message), Len(queue') \in Nat, Len(queue') <= Len(queue),
         Objects(queue') \in Nat, Objects(queue) = Objects(queue') + gone,
         freed' = freed + gone,
         UNCHANGED <<abort_request, puts, callVars, allocated, handed>>
  PROVE  DataOK' /\ CallOK' /\ NoLostWakeup'
<1>1. Objects(queue') + freed' + handed' = Objects(queue) + freed + handed
  BY DataNumbers
<1>2. freed' \in 0 .. MaxPuts
  BY DataNumbers
<1>3. ObjectsAccounted'
  <2>1. Objects(queue)' = Objects(queue')
    BY DEF Objects
  <2> QED
    BY <1>1, <2>1, DataNumbers DEF ObjectsAccounted
<1>4. DataOK'
  BY <1>2, <1>3 DEF DataOK
<1>5. CallOK' /\ Waiting' = Waiting /\ Notified' = Notified
  BY SameCalls
<1>6. NoLostWakeup'
  <2>1. ASSUME ~abort_request, Waiting # {} PROVE Len(queue') <= Cardinality(Notified')
    <3>1. Len(queue) <= Cardinality(Notified)
      BY <2>1 DEF NoLostWakeup
    <3> QED
      BY <1>5, <3>1, NotifiedFinite, DataNumbers
  <2> QED
    BY <1>5, <2>1 DEF NoLostWakeup
<1> QED
  BY <1>4, <1>5, <1>6

LEMMA RemoveKeeps ==
  ASSUME DataOK, CallOK, NoLostWakeup, NEW w \in What, Remove(w)
  PROVE  DataOK' /\ CallOK' /\ NoLostWakeup'
<1>1. CASE abort_request
  <2>1. UNCHANGED <<queue, abort_request, puts, objectVars, callVars>>
    BY <1>1 DEF Remove, objectVars
  <2> QED
    BY <1>1, <2>1, SameData, SameCalls DEF NoLostWakeup
<1>2. CASE ~abort_request
  <2> DEFINE left == Subsequence(queue, DOMAIN queue \ OfType(w))
             gone == Cardinality({i \in OfType(w) : queue[i].obj})
  <2>1. /\ queue' = left /\ freed' = freed + gone
        /\ UNCHANGED <<abort_request, puts, callVars, allocated, handed>>
    BY <1>2 DEF Remove
  <2>2. /\ left \in Seq(Message) /\ Len(left) \in Nat /\ Len(left) <= Len(queue)
        /\ gone \in Nat /\ Objects(left) \in Nat
        /\ Objects(queue) = Objects(left) + gone
    BY RemoveObjects DEF DataOK
  <2> HIDE DEF left, gone
  <2> QED
    BY <2>1, <2>2, LeaveKeeps
<1> QED
  BY <1>1, <1>2

LEMMA FlushKeeps ==
  ASSUME DataOK, CallOK, NoLostWakeup, Flush
  PROVE  DataOK' /\ CallOK' /\ NoLostWakeup'
<1>1. /\ queue' = <<>> /\ freed' = freed + Objects(queue)
      /\ UNCHANGED <<abort_request, puts, callVars, allocated, handed>>
  BY DEF Flush
<1>2. queue' \in Seq(Message) /\ Len(queue') = 0
  BY <1>1, EmptySeq
<1>3. Objects(queue') = 0
  <2>1. {i \in DOMAIN queue' : queue'[i].obj} = {}
    BY <1>1, <1>2, ObjectsFinite
  <2> QED
    BY <2>1, FS_EmptySet DEF Objects
<1>4. Objects(queue) \in Nat /\ Len(queue) \in Nat
  BY DataNumbers
<1> QED
  BY <1>1, <1>2, <1>3, <1>4, LeaveKeeps

LEMMA AbortKeeps ==
  ASSUME DataOK, CallOK, Abort
  PROVE  DataOK' /\ CallOK' /\ NoLostWakeup'
<1>1. /\ abort_request' = TRUE /\ UNCHANGED <<queue, puts, callVars, objectVars>>
  BY DEF Abort
<1>2. CallOK'
  BY <1>1, SameCalls
<1>3. ObjectsAccounted'
  BY <1>1 DEF DataOK, ObjectsAccounted, objectVars, Objects
<1>4. DataOK'
  BY <1>1, <1>3 DEF DataOK, objectVars
<1> QED
  BY <1>1, <1>2, <1>4 DEF NoLostWakeup

-----------------------------------------------------------------------------
(* The invariant. *)

(* It holds of a new queue ...                                             *)
LEMMA InitIInv == Init => IInv
<1> SUFFICES ASSUME Init PROVE DataOK /\ CallOK /\ NoLostWakeup
  BY IInvParts
<1> USE DEF Init
<1>1. queue \in Seq(Message) /\ DOMAIN queue = {} /\ MaxPuts \in Nat
  BY EmptySeq, LenProperties, MessageQueueAssumption
<1>2. Objects(queue) = 0
  <2>1. {i \in DOMAIN queue : queue[i].obj} = {}
    BY <1>1
  <2> QED
    BY <2>1, FS_EmptySet DEF Objects
<1>3. DataOK
  <2>1. ObjectsAccounted
    BY <1>2 DEF ObjectsAccounted
  <2>2. 0 \in 0 .. MaxPuts
    BY <1>1
  <2>3. {puts, allocated, freed, handed} \subseteq 0 .. MaxPuts
    BY <2>2
  <2> QED
    BY <1>1, <2>1, <2>3 DEF DataOK
<1>4. CallOK
  BY DEF CallOK, NoResultYet
<1>5. Waiting = {}
  BY DEF Waiting
<1> QED
  BY <1>3, <1>4, <1>5 DEF NoLostWakeup

(* ... and every step keeps it.                                            *)
LEMMA NextIInv == IInv /\ [Next]_msgVars => IInv'
<1>0. DataOK' /\ CallOK' /\ NoLostWakeup' => IInv'
  BY DEF IInv, TypeOK, DataOK, CallOK
<1> SUFFICES ASSUME DataOK, CallOK, NoLostWakeup, [Next]_msgVars
             PROVE  DataOK' /\ CallOK' /\ NoLostWakeup'
  BY <1>0, IInvParts
<1>1. ASSUME NEW msg \in Message, Notify(msg) PROVE DataOK' /\ CallOK' /\ NoLostWakeup'
  BY <1>1, NotifyKeeps
<1>2. ASSUME NEW c \in Getters,
             (\E t \in {"forever", "timed", "poll"} : GetStart(c, t)) \/ GetResume(c)
      PROVE  DataOK' /\ CallOK' /\ NoLostWakeup'
  BY <1>2, GetKeeps
<1>3. ASSUME NEW c \in Getters, Expire(c) PROVE DataOK' /\ CallOK' /\ NoLostWakeup'
  BY <1>3, ExpireKeeps
<1>4. ASSUME NEW c \in Getters, WakeSpuriously(c)
      PROVE  DataOK' /\ CallOK' /\ NoLostWakeup'
  BY <1>4, WakeSpuriouslyKeeps
<1>5. ASSUME NEW w \in What, Remove(w) PROVE DataOK' /\ CallOK' /\ NoLostWakeup'
  BY <1>5, RemoveKeeps
<1>6. ASSUME Flush PROVE DataOK' /\ CallOK' /\ NoLostWakeup'
  BY <1>6, FlushKeeps
<1>7. ASSUME Abort PROVE DataOK' /\ CallOK' /\ NoLostWakeup'
  BY <1>7, AbortKeeps
<1>8. ASSUME UNCHANGED msgVars PROVE DataOK' /\ CallOK' /\ NoLostWakeup'
  <2>1. /\ UNCHANGED <<queue, abort_request, puts, objectVars>> /\ UNCHANGED callVars
    BY <1>8 DEF msgVars
  <2> QED
    BY <2>1, SameData, SameCalls DEF NoLostWakeup
<1> QED
  BY <1>1, <1>2, <1>3, <1>4, <1>5, <1>6, <1>7, <1>8 DEF Next

(* However notices, gets, removals, flushes, timeouts and the abort        *)
(* interleave, the inductive invariant holds.                              *)
THEOREM Invariance == SafeSpec => []IInv
<1> QED
  BY InitIInv, NextIInv, PTL DEF SafeSpec

(* Type correctness; no object counter exceeds what was allocated.         *)
THEOREM TypeCorrect == SafeSpec => []TypeOK
<1>1. IInv => TypeOK
  BY DEF IInv
<1> QED
  BY <1>1, Invariance, PTL

(* Until an abort, notify_one leaves no message to a getter that nobody    *)
(* wakes.                                                                  *)
THEOREM NoWakeupIsLost == SafeSpec => []NoLostWakeup
<1>1. IInv => NoLostWakeup
  BY DEF IInv
<1> QED
  BY <1>1, Invariance, PTL

(* Until an abort each object allocated is in one place; none is ever      *)
(* freed twice, or freed and handed out.                                   *)
THEOREM ObjectsAreAccounted == SafeSpec => []ObjectsAccounted
<1>1. IInv => ObjectsAccounted
  BY DEF IInv
<1> QED
  BY <1>1, Invariance, PTL

-----------------------------------------------------------------------------
(* MessageQueue implements MessageChannel, step by step. *)

(* A new queue is a new channel.                                           *)
LEMMA InitImplements == Init => Channel!Init
BY DEF Init, Channel!Init

(* What the callers of the channel look like is decided by wait and        *)
(* timeout, and by no difference between being asleep and being woken.     *)
LEMMA SameCallers ==
  ASSUME wait \in [Getters -> {"none", "waiting", "notified", "expired"}],
         timeout' = timeout,
         wait' \in [Getters -> {"none", "waiting", "notified", "expired"}],
         \A c \in Getters : wait'[c] = "none" <=> wait[c] = "none"
  PROVE  [c \in Getters |-> IF wait[c] = "none" THEN "idle" ELSE timeout[c]]'
           = [c \in Getters |-> IF wait[c] = "none" THEN "idle" ELSE timeout[c]]
OBVIOUS

(* A return answers the caller of the channel.                             *)
LEMMA ReturnAnswers ==
  ASSUME CallOK, NEW c \in Getters, NEW r, Return(c, r),
         NEW t, timeout' = [timeout EXCEPT ![c] = t]
  PROVE  Channel!Answer(c, r)
BY DEF Return, Channel!Answer, CallOK

(* The timeout a step of a get leaves is the one it was called with.       *)
LEMMA GetTimeout ==
  ASSUME CallOK, NEW c \in Getters,
         (\E t \in {"forever", "timed", "poll"} : GetStart(c, t)) \/ GetResume(c)
  PROVE  \E t \in {"forever", "timed", "poll"} :
            /\ timeout' = [timeout EXCEPT ![c] = t]
            /\ \/ wait[c] = "none" /\ GetStart(c, t)
               \/ wait[c] # "none" /\ t = timeout[c] /\ GetResume(c)
<1>1. CASE \E t \in {"forever", "timed", "poll"} : GetStart(c, t)
  BY <1>1 DEF GetStart
<1>2. CASE GetResume(c)
  <2>1. timeout' = [timeout EXCEPT ![c] = timeout[c]]
    BY <1>2 DEF GetResume, CallOK
  <2>2. timeout[c] \in {"forever", "timed", "poll"} /\ wait[c] # "none"
    BY <1>2 DEF GetResume, CallOK
  <2> QED
    BY <1>2, <2>1, <2>2
<1> QED
  BY <1>1, <1>2

(* A step of a get receives, is refused, polls, gives up, blocks or does   *)
(* nothing that the channel knows of.                                      *)
LEMMA GetImplements ==
  ASSUME DataOK, CallOK, NEW c \in Getters,
         (\E t \in {"forever", "timed", "poll"} : GetStart(c, t)) \/ GetResume(c)
  PROVE  Channel!Next \/ UNCHANGED Channel!chanVars
<1>1. PICK t \in {"forever", "timed", "poll"} :
        /\ timeout' = [timeout EXCEPT ![c] = t]
        /\ \/ wait[c] = "none" /\ GetStart(c, t)
           \/ wait[c] # "none" /\ t = timeout[c] /\ GetResume(c)
  BY GetTimeout
<1>2. abort_request' = abort_request
  BY GetSteps
<1>3. CASE GetAbort(c)
  <2>1. abort_request /\ Return(c, "abort") /\ queue' = queue
    BY <1>3 DEF GetAbort
  <2>2. Channel!Refuse(c)
    BY <1>1, <1>2, <2>1, ReturnAnswers DEF Channel!Refuse
  <2> QED
    BY <2>2 DEF Channel!Next
<1>4. CASE GetMessage(c)
  <2>1. ~abort_request /\ queue # <<>> /\ queue' = Tail(queue) /\ Return(c, "message")
    BY <1>4 DEF GetMessage
  <2>2. Channel!Receive(c)
    BY <1>1, <1>2, <2>1, ReturnAnswers DEF Channel!Receive
  <2> QED
    BY <2>2 DEF Channel!Next
<1>5. CASE wait[c] = "none" /\ ~abort_request /\ queue = <<>> /\ GetNothing(c)
  <2>1. Return(c, "empty") /\ queue' = queue
    BY <1>5 DEF GetNothing
  <2>2. Channel!Poll(c)
    BY <1>1, <1>2, <1>5, <2>1, ReturnAnswers DEF Channel!Poll
  <2> QED
    BY <2>2 DEF Channel!Next
<1>6. CASE wait[c] # "none" /\ timeout[c] = "timed" /\ queue = <<>> /\ GetNothing(c)
  <2>1. Return(c, "empty") /\ queue' = queue
    BY <1>6 DEF GetNothing
  <2>2. Channel!GiveUp(c)
    BY <1>1, <1>2, <1>6, <2>1, ReturnAnswers DEF Channel!GiveUp
  <2> QED
    BY <2>2 DEF Channel!Next
<1>7. CASE wait[c] = "none" /\ t # "poll" /\ ~abort_request /\ queue = <<>> /\ Sleep(c)
  <2>1. /\ wait' = [wait EXCEPT ![c] = "waiting"] /\ ret' = [ret EXCEPT ![c] = "none"]
        /\ queue' = queue
    BY <1>7 DEF Sleep
  <2>2. t \in {"timed", "forever"}
    BY <1>7
  <2>3. [d \in Getters |-> IF wait[d] = "none" THEN "idle" ELSE timeout[d]]'
          = [[d \in Getters |-> IF wait[d] = "none" THEN "idle" ELSE timeout[d]] EXCEPT ![c] = t]
    BY <1>1, <2>1 DEF CallOK
  <2>4. Channel!Block(c, t)
    BY <1>2, <1>7, <2>1, <2>3 DEF Channel!Block
  <2> QED
    BY <2>2, <2>4 DEF Channel!Next
<1>8. CASE wait[c] # "none" /\ Sleep(c)
  <2>1. /\ wait' = [wait EXCEPT ![c] = "waiting"] /\ ret' = [ret EXCEPT ![c] = "none"]
        /\ queue' = queue
    BY <1>8 DEF Sleep
  <2>2. ret' = ret
    BY <1>8, <2>1 DEF CallOK, NoResultYet
  <2>3. timeout' = timeout
    BY <1>1, <1>8 DEF GetResume
  <2>4. [d \in Getters |-> IF wait[d] = "none" THEN "idle" ELSE timeout[d]]'
          = [d \in Getters |-> IF wait[d] = "none" THEN "idle" ELSE timeout[d]]
    BY <1>8, <2>1, <2>3, SameCallers DEF CallOK
  <2> QED
    BY <1>2, <2>1, <2>2, <2>4 DEF Channel!chanVars
<1>9. CASE wait[c] = "none" /\ GetStart(c, t)
  BY <1>3, <1>4, <1>5, <1>7, <1>9 DEF GetStart
<1>10. CASE wait[c] # "none" /\ GetResume(c)
  BY <1>3, <1>4, <1>6, <1>8, <1>10 DEF GetResume
<1> QED
  BY <1>1, <1>9, <1>10

(* Removing the messages of a type withdraws them.                         *)
LEMMA RemoveImplements ==
  ASSUME DataOK, NEW w \in What, Remove(w)
  PROVE  Channel!Next \/ UNCHANGED Channel!chanVars
<1>1. UNCHANGED <<abort_request, wait, timeout, ret>>
  BY DEF Remove, callVars
<1>2. CASE abort_request
  BY <1>1, <1>2 DEF Remove, Channel!chanVars
<1>3. CASE ~abort_request
  <2> DEFINE msg == [what |-> w, obj |-> TRUE]
             I == {i \in DOMAIN queue : queue[i].what # msg.what}
             at == InOrder(I)
  <2>1. msg \in Message /\ msg.what = w
    BY DEF Message
  <2>2. DOMAIN queue \ OfType(w) = I
    BY <2>1 DEF OfType
  <2>3. queue' = [n \in 1 .. Cardinality(I) |-> queue[at[n]]]
    BY <1>3, <2>2 DEF Remove, Subsequence
  <2>4. I \in SUBSET (1 .. Len(queue)) /\ Len(queue) \in Nat
    BY ObjectsFinite DEF DataOK
  <2> HIDE DEF I, msg
  <2>5. /\ at \in [1 .. Cardinality(I) -> I]
        /\ \A m, n \in 1 .. Cardinality(I) : m < n => at[m] < at[n]
    BY <2>4, InOrderExists
  <2> HIDE DEF at
  <2>6. /\ \A m, n \in DOMAIN at : m < n => at[m] < at[n]
        /\ queue' = [n \in DOMAIN at |-> queue[at[n]]]
    BY <2>3, <2>5
  <2>7. \A i \in I : \E n \in DOMAIN at : at[n] = i
    BY <2>4, <2>5, InOrderIsOnto DEF at
  <2>8. Cardinality(I) \in 0 .. Len(queue)
    BY <2>4, PositionsFinite
  <2>9. Channel!Withdraw
    BY <1>1, <1>3, <2>1, <2>5, <2>6, <2>7, <2>8 DEF Channel!Withdraw, I
  <2> QED
    BY <2>9 DEF Channel!Next
<1> QED
  BY <1>2, <1>3

(* A notice is sent, or refused by a closed channel.                       *)
LEMMA NotifyImplements ==
  ASSUME CallOK, NEW msg \in Message, Notify(msg)
  PROVE  Channel!Next \/ UNCHANGED Channel!chanVars
<1>1. abort_request' = abort_request /\ timeout' = timeout /\ ret' = ret
  BY DEF Notify
<1>2. CASE abort_request
  BY <1>1, <1>2 DEF Notify, Channel!chanVars
<1>3. CASE ~abort_request
  <2>1. queue' = Append(queue, msg) /\ NotifyOne
    BY <1>3 DEF Notify
  <2>2. [d \in Getters |-> IF wait[d] = "none" THEN "idle" ELSE timeout[d]]'
          = [d \in Getters |-> IF wait[d] = "none" THEN "idle" ELSE timeout[d]]
    BY <1>1, <2>1 DEF NotifyOne, Waiting, CallOK
  <2>3. Channel!Put
    BY <1>1, <1>3, <2>1, <2>2 DEF Channel!Put
  <2> QED
    BY <2>3 DEF Channel!Next
<1> QED
  BY <1>2, <1>3

(* Every step of the queue is a step of the channel, or none.              *)
LEMMA NextImplements ==
  IInv /\ [Next]_msgVars => [Channel!Next]_(Channel!chanVars)
<1> SUFFICES ASSUME DataOK, CallOK, [Next]_msgVars
             PROVE  Channel!Next \/ UNCHANGED Channel!chanVars
  BY IInvParts
<1>1. ASSUME NEW msg \in Message, Notify(msg)
      PROVE  Channel!Next \/ UNCHANGED Channel!chanVars
  BY <1>1, NotifyImplements
<1>2. ASSUME NEW c \in Getters,
             (\E t \in {"forever", "timed", "poll"} : GetStart(c, t)) \/ GetResume(c)
      PROVE  Channel!Next \/ UNCHANGED Channel!chanVars
  BY <1>2, GetImplements
<1>3. ASSUME NEW c \in Getters, Expire(c) \/ WakeSpuriously(c)
      PROVE  UNCHANGED Channel!chanVars
  <2>1. /\ wait[c] = "waiting"
        /\ \E w \in {"notified", "expired"} : wait' = [wait EXCEPT ![c] = w]
        /\ UNCHANGED <<queue, abort_request, timeout, ret>>
    BY <1>3 DEF Expire, WakeSpuriously
  <2>2. [d \in Getters |-> IF wait[d] = "none" THEN "idle" ELSE timeout[d]]'
          = [d \in Getters |-> IF wait[d] = "none" THEN "idle" ELSE timeout[d]]
    BY <2>1 DEF CallOK
  <2> QED
    BY <2>1, <2>2 DEF Channel!chanVars
<1>4. ASSUME NEW w \in What, Remove(w) PROVE Channel!Next \/ UNCHANGED Channel!chanVars
  BY <1>4, RemoveImplements
<1>5. ASSUME Flush PROVE Channel!Next
  <2>1. Channel!Clear
    BY <1>5 DEF Flush, Channel!Clear, callVars
  <2> QED
    BY <2>1 DEF Channel!Next
<1>6. ASSUME Abort PROVE Channel!Next
  <2>1. Channel!Close
    BY <1>6 DEF Abort, Channel!Close, callVars
  <2> QED
    BY <2>1 DEF Channel!Next
<1>7. ASSUME UNCHANGED msgVars PROVE UNCHANGED Channel!chanVars
  BY <1>7 DEF msgVars, callVars, Channel!chanVars
<1> QED
  BY <1>1, <1>2, <1>3, <1>4, <1>5, <1>6, <1>7 DEF Next

(* The safety part of ImplementsChannel: behind the mutex and the          *)
(* condition variable, messages come out in order and once, "nothing       *)
(* there" is true when it is said, and an abort is reported only after     *)
(* one.                                                                    *)
THEOREM TakesChannelSteps == SafeSpec => Channel!SafeSpec
<1> QED
  BY InitImplements, NextImplements, Invariance, PTL DEF SafeSpec, Channel!SafeSpec
==============================================================================
