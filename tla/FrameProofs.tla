------------------------------ MODULE FrameProofs ------------------------------
(***************************************************************************)
(* For any delay of the codecs, any number of frames and of failing calls: *)
(* no frame is lost but by a call that failed, and both dump files read    *)
(* back as what was pushed.                                                *)
(***************************************************************************)
EXTENDS EncodingProofs, SequenceTheorems, FiniteSetTheorems,
        WellFoundedInduction

(* Frames o pushed, frames h held by the codec, n frames delivered and     *)
(* those that are gone: the account of one media.                          *)
Rising(o) == \A i, j \in 1 .. Len(o) : i < j => o[i] < o[j]
Before(o, h) == \A i \in 1 .. Len(o), j \in 1 .. Len(h) : o[i] < h[j]
Within(o, n) == \A i \in 1 .. Len(o) : o[i] \in 1 .. n
Holds(o, f) == \E i \in 1 .. Len(o) : o[i] = f

Account(o, h, n, gone) ==
  /\ Rising(o) /\ Rising(h) /\ Before(o, h)
  /\ Within(o, n) /\ Within(h, n)
  /\ gone \subseteq 1 .. n
  /\ \A f \in 1 .. n : f \in gone <=> ~Holds(o, f) /\ ~Holds(h, f)

(* Lengths and elements after Append and Tail. *)
LEMMA Appended ==
  ASSUME NEW o \in Seq(Nat), NEW f \in Nat
  PROVE  /\ Append(o, f) \in Seq(Nat) /\ Len(o) \in Nat
         /\ Len(Append(o, f)) = Len(o) + 1
         /\ Append(o, f)[Len(o) + 1] = f
         /\ \A i \in 1 .. Len(o) : Append(o, f)[i] = o[i] /\ o[i] \in Nat
  BY AppendProperties

LEMMA Tailed ==
  ASSUME NEW h \in Seq(Nat), h # <<>>
  PROVE  /\ Tail(h) \in Seq(Nat) /\ Len(h) \in Nat /\ Len(h) >= 1
         /\ Len(Tail(h)) = Len(h) - 1
         /\ Head(h) = h[1] /\ Head(h) \in Nat
         /\ \A i \in 1 .. Len(h) : h[i] \in Nat
         /\ \A i \in 1 .. Len(Tail(h)) : Tail(h)[i] = h[i + 1]
  BY HeadTailProperties, EmptySeq

(* What is appended to a rising sequence. *)
LEMMA AppendedRises ==
  ASSUME NEW o \in Seq(Nat), NEW f \in Nat
  PROVE  /\ Rising(o) /\ (\A i \in 1 .. Len(o) : o[i] < f) => Rising(Append(o, f))
         /\ \A g : Holds(Append(o, f), g) <=> Holds(o, g) \/ g = f
<1> DEFINE a == Append(o, f)
<1>1. /\ Len(o) \in Nat /\ Len(a) = Len(o) + 1 /\ a[Len(o) + 1] = f
      /\ \A i \in 1 .. Len(o) : a[i] = o[i] /\ o[i] \in Nat
  BY Appended
<1> HIDE DEF a
<1>2. ASSUME Rising(o), \A i \in 1 .. Len(o) : o[i] < f
      PROVE  Rising(a)
  <2> SUFFICES ASSUME NEW i \in 1 .. Len(a), NEW j \in 1 .. Len(a), i < j
               PROVE  a[i] < a[j]
    BY DEF Rising
  <2>1. i \in 1 .. Len(o)
    BY <1>1
  <2>2. CASE j = Len(o) + 1
    BY <1>1, <1>2, <2>1, <2>2
  <2>3. CASE j \in 1 .. Len(o)
    BY <1>1, <1>2, <2>1, <2>3 DEF Rising
  <2> QED
    BY <1>1, <2>2, <2>3
<1>3. ASSUME NEW g
      PROVE  Holds(a, g) <=> Holds(o, g) \/ g = f
  <2>1. ASSUME Holds(o, g)
        PROVE  Holds(a, g)
    BY <1>1, <2>1 DEF Holds
  <2>2. ASSUME g = f
        PROVE  Holds(a, g)
    BY <1>1, <2>2 DEF Holds
  <2>3. ASSUME Holds(a, g), g # f
        PROVE  Holds(o, g)
    <3>1. PICK i \in 1 .. Len(a) : a[i] = g
      BY <2>3 DEF Holds
    <3>2. i \in 1 .. Len(o)
      BY <1>1, <2>3, <3>1
    <3> QED
      BY <1>1, <3>1, <3>2 DEF Holds
  <2> QED
    BY <2>1, <2>2, <2>3
<1> QED
  BY <1>2, <1>3 DEF a

(* What is left of a rising sequence, and what is taken off it. *)
LEMMA TailRises ==
  ASSUME NEW h \in Seq(Nat), h # <<>>, Rising(h)
  PROVE  /\ Rising(Tail(h))
         /\ \A i \in 1 .. Len(Tail(h)) : Head(h) < Tail(h)[i]
         /\ \A g : Holds(h, g) <=> Holds(Tail(h), g) \/ g = Head(h)
         /\ ~Holds(Tail(h), Head(h))
<1> DEFINE t == Tail(h)
           x == Head(h)
<1>1. /\ Len(h) \in Nat /\ Len(h) >= 1 /\ Len(t) = Len(h) - 1 /\ x = h[1] /\ x \in Nat
      /\ \A i \in 1 .. Len(h) : h[i] \in Nat
      /\ \A i \in 1 .. Len(t) : t[i] = h[i + 1]
  BY Tailed
<1> HIDE DEF t, x
<1>2. Rising(t)
  <2> SUFFICES ASSUME NEW i \in 1 .. Len(t), NEW j \in 1 .. Len(t), i < j
               PROVE  t[i] < t[j]
    BY DEF Rising
  <2>1. i + 1 \in 1 .. Len(h) /\ j + 1 \in 1 .. Len(h) /\ i + 1 < j + 1
    BY <1>1
  <2>2. h[i + 1] < h[j + 1]
    BY <2>1 DEF Rising
  <2> QED
    BY <1>1, <2>2
<1>3. ASSUME NEW i \in 1 .. Len(t)
      PROVE  x < t[i]
  <2>1. 1 \in 1 .. Len(h) /\ i + 1 \in 1 .. Len(h) /\ 1 < i + 1
    BY <1>1
  <2>2. h[1] < h[i + 1]
    BY <2>1 DEF Rising
  <2> QED
    BY <1>1, <2>2
<1>4. ASSUME NEW g
      PROVE  Holds(h, g) <=> Holds(t, g) \/ g = x
  <2>1. ASSUME Holds(t, g)
        PROVE  Holds(h, g)
    <3>1. PICK i \in 1 .. Len(t) : t[i] = g
      BY <2>1 DEF Holds
    <3>2. i + 1 \in 1 .. Len(h) /\ h[i + 1] = g
      BY <1>1, <3>1
    <3> QED
      BY <3>2 DEF Holds
  <2>2. ASSUME g = x
        PROVE  Holds(h, g)
    BY <1>1, <2>2 DEF Holds
  <2>3. ASSUME Holds(h, g), g # x
        PROVE  Holds(t, g)
    <3>1. PICK i \in 1 .. Len(h) : h[i] = g
      BY <2>3 DEF Holds
    <3>2. i - 1 \in 1 .. Len(t) /\ (i - 1) + 1 = i
      BY <1>1, <2>3, <3>1
    <3>3. t[i - 1] = g
      BY <1>1, <3>1, <3>2
    <3> QED
      BY <3>2, <3>3 DEF Holds
  <2> QED
    BY <2>1, <2>2, <2>3
<1>5. ~Holds(t, x)
  <2> SUFFICES ASSUME NEW i \in 1 .. Len(t), t[i] = x
               PROVE  FALSE
    BY DEF Holds
  <2>1. x < x
    BY <1>3
  <2> QED
    BY <1>1, <2>1
<1> QED
  BY <1>2, <1>3, <1>4, <1>5 DEF t, x

-----------------------------------------------------------------------------
(* A frame goes into the codec ... *)
LEMMA FrameHeld ==
  ASSUME NEW o \in Seq(Nat), NEW h \in Seq(Nat), NEW n \in Nat, NEW gone,
         Account(o, h, n, gone)
  PROVE  Account(o, Append(h, n + 1), n + 1, gone)
<1> DEFINE h2 == Append(h, n + 1)
<1>1. /\ Len(h) \in Nat /\ Len(h2) = Len(h) + 1 /\ h2[Len(h) + 1] = n + 1
      /\ \A i \in 1 .. Len(h) : h2[i] = h[i] /\ h[i] \in Nat
  BY Appended
<1>2. \A i \in 1 .. Len(h) : h[i] \in 1 .. n
  BY DEF Account, Within
<1>3. /\ Rising(h2)
      /\ \A g : Holds(h2, g) <=> Holds(h, g) \/ g = n + 1
  <2>1. Rising(h) /\ (\A i \in 1 .. Len(h) : h[i] < n + 1) /\ n + 1 \in Nat
    BY <1>2 DEF Account
  <2> QED
    BY <2>1, AppendedRises
<1> HIDE DEF h2
<1>4. Len(o) \in Nat /\ \A i \in 1 .. Len(o) : o[i] \in 1 .. n
  BY DEF Account, Within
<1>5. Before(o, h2)
  <2> SUFFICES ASSUME NEW i \in 1 .. Len(o), NEW j \in 1 .. Len(h2)
               PROVE  o[i] < h2[j]
    BY DEF Before
  <2>1. CASE j = Len(h) + 1
    BY <1>1, <1>4, <2>1
  <2>2. CASE j \in 1 .. Len(h)
    BY <1>1, <2>2 DEF Account, Before
  <2> QED
    BY <1>1, <2>1, <2>2
<1>6. Within(o, n + 1)
  BY <1>4 DEF Within
<1>7. Within(h2, n + 1)
  <2> SUFFICES ASSUME NEW i \in 1 .. Len(h2)
               PROVE  h2[i] \in 1 .. n + 1
    BY DEF Within
  <2>1. i = Len(h) + 1 \/ i \in 1 .. Len(h)
    BY <1>1
  <2> QED
    BY <1>1, <1>2, <2>1
<1>8. ~Holds(o, n + 1)
  BY <1>4 DEF Holds
<1>9. gone \subseteq 1 .. n + 1
  BY DEF Account
<1>10. ASSUME NEW f \in 1 .. n + 1
       PROVE  f \in gone <=> ~Holds(o, f) /\ ~Holds(h2, f)
  <2>1. CASE f = n + 1
    <3>1. f \notin gone
      BY <2>1 DEF Account
    <3> QED
      BY <1>3, <2>1, <3>1
  <2>2. CASE f \in 1 .. n
    BY <1>3, <2>2 DEF Account
  <2> QED
    BY <2>1, <2>2
<1> QED
  BY <1>3, <1>5, <1>6, <1>7, <1>9, <1>10 DEF Account, h2

(* ... or is lost before it gets there. *)
LEMMA FrameLost ==
  ASSUME NEW o \in Seq(Nat), NEW h \in Seq(Nat), NEW n \in Nat, NEW gone,
         Account(o, h, n, gone)
  PROVE  Account(o, h, n + 1, gone \cup {n + 1})
<1>1. Within(o, n + 1) /\ Within(h, n + 1)
  BY DEF Account, Within
<1>2. ~Holds(o, n + 1) /\ ~Holds(h, n + 1)
  BY DEF Account, Within, Holds
<1>3. gone \cup {n + 1} \subseteq 1 .. n + 1
  BY DEF Account
<1>4. ASSUME NEW f \in 1 .. n + 1
      PROVE  f \in gone \cup {n + 1} <=> ~Holds(o, f) /\ ~Holds(h, f)
  <2>1. CASE f = n + 1
    BY <1>2, <2>1
  <2>2. CASE f \in 1 .. n
    BY <2>2 DEF Account
  <2> QED
    BY <2>1, <2>2
<1> QED
  BY <1>1, <1>3, <1>4 DEF Account

(* The oldest frame held comes out and is lost ... *)
LEMMA HeadLost ==
  ASSUME NEW o \in Seq(Nat), NEW h \in Seq(Nat), NEW n \in Nat, NEW gone,
         Account(o, h, n, gone), h # <<>>
  PROVE  Account(o, Tail(h), n, gone \cup {Head(h)})
<1> DEFINE t == Tail(h)
           x == Head(h)
<1>1. /\ Len(h) \in Nat /\ Len(h) >= 1 /\ Len(t) = Len(h) - 1 /\ x = h[1] /\ x \in Nat
      /\ \A i \in 1 .. Len(t) : t[i] = h[i + 1]
  BY Tailed
<1>2. /\ Rising(t)
      /\ \A g : Holds(h, g) <=> Holds(t, g) \/ g = x
      /\ ~Holds(t, x)
  BY TailRises DEF Account
<1> HIDE DEF t, x
<1>3. Before(o, t)
  <2> SUFFICES ASSUME NEW i \in 1 .. Len(o), NEW j \in 1 .. Len(t)
               PROVE  o[i] < t[j]
    BY DEF Before
  <2>1. j + 1 \in 1 .. Len(h)
    BY <1>1
  <2> QED
    BY <1>1, <2>1 DEF Account, Before
<1>4. Within(t, n) /\ x \in 1 .. n
  BY <1>1 DEF Account, Within
<1>5. ~Holds(o, x)
  <2> SUFFICES ASSUME NEW i \in 1 .. Len(o), o[i] = x
               PROVE  FALSE
    BY DEF Holds
  <2>1. o[i] < h[1]
    BY <1>1 DEF Account, Before
  <2> QED
    BY <1>1, <2>1
<1>6. gone \cup {x} \subseteq 1 .. n
  BY <1>4 DEF Account
<1>7. ASSUME NEW f \in 1 .. n
      PROVE  f \in gone \cup {x} <=> ~Holds(o, f) /\ ~Holds(t, f)
  BY <1>2, <1>5 DEF Account
<1> QED
  BY <1>2, <1>3, <1>4, <1>6, <1>7 DEF Account, t, x

(* ... or goes to the pusher in a packet. *)
LEMMA HeadPushed ==
  ASSUME NEW o \in Seq(Nat), NEW h \in Seq(Nat), NEW n \in Nat, NEW gone,
         Account(o, h, n, gone), h # <<>>
  PROVE  Account(Append(o, Head(h)), Tail(h), n, gone)
<1> DEFINE t == Tail(h)
           x == Head(h)
           o2 == Append(o, x)
<1>1. /\ Len(h) \in Nat /\ Len(h) >= 1 /\ Len(t) = Len(h) - 1 /\ x = h[1] /\ x \in Nat
      /\ \A i \in 1 .. Len(t) : t[i] = h[i + 1]
  BY Tailed
<1>2. /\ Rising(t)
      /\ \A i \in 1 .. Len(t) : x < t[i]
      /\ \A g : Holds(h, g) <=> Holds(t, g) \/ g = x
  BY TailRises DEF Account
<1>3. /\ Len(o) \in Nat /\ Len(o2) = Len(o) + 1 /\ o2[Len(o) + 1] = x
      /\ \A i \in 1 .. Len(o) : o2[i] = o[i] /\ o[i] \in Nat
  BY Appended, <1>1
<1>4. \A i \in 1 .. Len(o) : o[i] < x
  BY <1>1 DEF Account, Before
<1>5. /\ Rising(o2)
      /\ \A g : Holds(o2, g) <=> Holds(o, g) \/ g = x
  BY AppendedRises, <1>1, <1>4 DEF Account
<1> HIDE DEF t, x, o2
<1>6. Before(o2, t)
  <2> SUFFICES ASSUME NEW i \in 1 .. Len(o2), NEW j \in 1 .. Len(t)
               PROVE  o2[i] < t[j]
    BY DEF Before
  <2>1. CASE i = Len(o) + 1
    BY <1>2, <1>3, <2>1
  <2>2. CASE i \in 1 .. Len(o)
    <3>1. o[i] < h[j + 1]
      BY <1>1, <2>2 DEF Account, Before
    <3> QED
      BY <1>1, <1>3, <2>2, <3>1
  <2> QED
    BY <1>3, <2>1, <2>2
<1>7. Within(t, n) /\ x \in 1 .. n
  BY <1>1 DEF Account, Within
<1>8. Within(o2, n)
  <2> SUFFICES ASSUME NEW i \in 1 .. Len(o2)
               PROVE  o2[i] \in 1 .. n
    BY DEF Within
  <2>1. i = Len(o) + 1 \/ i \in 1 .. Len(o)
    BY <1>3
  <2>2. CASE i \in 1 .. Len(o)
    BY <1>3, <2>2 DEF Account, Within
  <2> QED
    BY <1>3, <1>7, <2>1, <2>2
<1>9. ASSUME NEW f \in 1 .. n
      PROVE  f \in gone <=> ~Holds(o2, f) /\ ~Holds(t, f)
  BY <1>2, <1>5 DEF Account
<1>10. gone \subseteq 1 .. n
  BY DEF Account
<1> QED
  BY <1>2, <1>5, <1>6, <1>7, <1>8, <1>9, <1>10 DEF Account, t, x, o2

-----------------------------------------------------------------------------
(* The frames of the packets pushed. *)
AnyPacket == [frame : Nat, size : PacketSizes]

(* The fields of a packet. *)
LEMMA PacketType ==
  ASSUME NEW p \in AnyPacket
  PROVE  p.frame \in Nat /\ p.size \in PacketSizes
  BY DEF AnyPacket

(* The frames of packets are a sequence of the same length ... *)
LEMMA FramesOfType ==
  ASSUME NEW s \in Seq(AnyPacket)
  PROVE  FramesOf(s) \in Seq(Nat) /\ Len(FramesOf(s)) = Len(s) /\ Len(s) \in Nat
<1>1. \A i \in 1 .. Len(s) : s[i].frame \in Nat
  <2>1. \A i \in 1 .. Len(s) : s[i] \in AnyPacket
    BY ElementOfSeq
  <2> QED
    BY <2>1 DEF AnyPacket
<1>2. DOMAIN s = 1 .. Len(s) /\ Len(s) \in Nat
  OBVIOUS
<1> QED
  BY <1>1, <1>2, LenProperties DEF FramesOf

(* ... and one more packet is one more frame. *)
LEMMA FramesOfAppend ==
  ASSUME NEW s \in Seq(AnyPacket), NEW p \in AnyPacket
  PROVE  FramesOf(Append(s, p)) = Append(FramesOf(s), p.frame)
<1> DEFINE a == FramesOf(Append(s, p))
           b == Append(FramesOf(s), p.frame)
<1>1. p.frame \in Nat /\ FramesOf(s) \in Seq(Nat) /\ Len(FramesOf(s)) = Len(s)
  BY FramesOfType DEF AnyPacket
<1>2. Append(s, p) \in Seq(AnyPacket) /\ Len(Append(s, p)) = Len(s) + 1
  OBVIOUS
<1>3. a \in Seq(Nat) /\ Len(a) = Len(s) + 1
  BY <1>2, FramesOfType
<1>4. b \in Seq(Nat) /\ Len(b) = Len(s) + 1
  BY <1>1
<1>5. ASSUME NEW i \in 1 .. Len(s) + 1
      PROVE  a[i] = b[i]
  <2>1. a[i] = Append(s, p)[i].frame
    BY <1>2 DEF FramesOf
  <2>2. CASE i = Len(s) + 1
    BY <1>1, <2>1, <2>2
  <2>3. CASE i \in 1 .. Len(s)
    <3>1. b[i] = FramesOf(s)[i] /\ Append(s, p)[i] = s[i]
      BY <1>1, <2>3
    <3> QED
      BY <2>1, <2>3, <3>1 DEF FramesOf
  <2>4. i = Len(s) + 1 \/ i \in 1 .. Len(s)
    BY <1>2, LenProperties
  <2> QED
    BY <2>2, <2>3, <2>4
<1> HIDE DEF a, b
<1>6. a = b
  BY <1>3, <1>4, <1>5, SeqEqual
<1> QED
  BY <1>6 DEF a, b

-----------------------------------------------------------------------------
(* What holds of one media between two callbacks. *)
Settled(m) ==
  /\ codec[m] = [inside |-> codec[m].inside, out |-> <<>>]
  /\ codec[m].inside \in Seq(Nat) /\ Len(codec[m].inside) <= Delay[m]
  /\ stream[m] \in Seq(AnyPacket)
  /\ frames[m] \in Nat
  /\ Account(FramesOf(stream[m]), codec[m].inside, frames[m], lost[m])

Functions ==
  /\ frames = [m \in Media |-> frames[m]] /\ codec = [m \in Media |-> codec[m]]
  /\ stream = [m \in Media |-> stream[m]] /\ lost = [m \in Media |-> lost[m]]

Losses == Cardinality(lost["audio"]) + Cardinality(lost["video"])

AccountInv ==
  /\ IInv /\ Functions
  /\ \A m \in Media : Settled(m)
  /\ errors \in Nat /\ Losses <= errors

(* The account of one media in the terms of FramesAccounted. *)
LEMMA SettledAccounted ==
  ASSUME NEW m \in Media, Settled(m)
  PROVE  LET out  == FramesOf(stream[m])
             held == codec[m].inside
         IN  /\ codec[m].out = <<>>
             /\ Len(held) <= Delay[m]
             /\ \A i \in 1 .. Len(out \o held) - 1 :
                  (out \o held)[i] < (out \o held)[i + 1]
             /\ lost[m] = (1 .. frames[m]) \ {(out \o held)[i] :
                                            i \in DOMAIN (out \o held)}
<1> DEFINE o == FramesOf(stream[m])
           h == codec[m].inside
           c == o \o h
           n == frames[m]
<1>1. o \in Seq(Nat) /\ h \in Seq(Nat) /\ n \in Nat /\ Account(o, h, n, lost[m])
  BY FramesOfType DEF Settled
<1>2. codec[m].out = <<>> /\ Len(h) <= Delay[m]
  BY DEF Settled
<1> HIDE DEF o, h, n
<1>3. /\ Len(o) \in Nat /\ Len(h) \in Nat /\ Len(c) = Len(o) + Len(h)
      /\ DOMAIN c = 1 .. Len(c)
      /\ \A i \in 1 .. Len(c) :
           c[i] = IF i <= Len(o) THEN o[i] ELSE h[i - Len(o)]
  BY <1>1, ConcatProperties
<1> HIDE DEF c
<1>4. ASSUME NEW i \in 1 .. Len(c) - 1
      PROVE  c[i] < c[i + 1]
  <2>1. CASE i + 1 <= Len(o)
    <3>1. c[i] = o[i] /\ c[i + 1] = o[i + 1] /\ i \in 1 .. Len(o) /\ i + 1 \in 1 .. Len(o)
      BY <1>3, <2>1
    <3> QED
      BY <1>1, <3>1 DEF Account, Rising
  <2>2. CASE i = Len(o)
    <3>1. c[i] = o[i] /\ c[i + 1] = h[1] /\ i \in 1 .. Len(o) /\ 1 \in 1 .. Len(h)
      BY <1>3, <2>2
    <3> QED
      BY <1>1, <3>1 DEF Account, Before
  <2>3. CASE i > Len(o)
    <3> DEFINE j == i - Len(o)
    <3>1. c[i] = h[j] /\ c[i + 1] = h[j + 1] /\ j \in 1 .. Len(h) /\ j + 1 \in 1 .. Len(h)
      BY <1>3, <2>3
    <3>2. j < j + 1
      BY <3>1
    <3> HIDE DEF j
    <3> QED
      BY <1>1, <3>1, <3>2 DEF Account, Rising
  <2> QED
    BY <1>3, <2>1, <2>2, <2>3
<1>5. ASSUME NEW f
      PROVE  f \in {c[i] : i \in DOMAIN c} <=> Holds(o, f) \/ Holds(h, f)
  <2>1. ASSUME f \in {c[i] : i \in DOMAIN c}
        PROVE  Holds(o, f) \/ Holds(h, f)
    <3>1. PICK i \in 1 .. Len(c) : c[i] = f
      BY <1>3, <2>1
    <3>2. CASE i <= Len(o)
      BY <1>3, <3>1, <3>2 DEF Holds
    <3>3. CASE i > Len(o)
      <4>1. i - Len(o) \in 1 .. Len(h) /\ h[i - Len(o)] = f
        BY <1>3, <3>1, <3>3
      <4> QED
        BY <4>1 DEF Holds
    <3> QED
      BY <1>3, <3>2, <3>3
  <2>2. ASSUME Holds(o, f)
        PROVE  f \in {c[i] : i \in DOMAIN c}
    <3>1. PICK i \in 1 .. Len(o) : o[i] = f
      BY <2>2 DEF Holds
    <3>2. i \in DOMAIN c /\ c[i] = f
      BY <1>3, <3>1
    <3> QED
      BY <3>2
  <2>3. ASSUME Holds(h, f)
        PROVE  f \in {c[i] : i \in DOMAIN c}
    <3>1. PICK i \in 1 .. Len(h) : h[i] = f
      BY <2>3 DEF Holds
    <3>2. i + Len(o) \in 1 .. Len(c) /\ ~(i + Len(o) <= Len(o)) /\ (i + Len(o)) - Len(o) = i
      BY <1>3
    <3>3. i + Len(o) \in DOMAIN c /\ c[i + Len(o)] = f
      BY <1>3, <3>1, <3>2
    <3> QED
      BY <3>3
  <2> QED
    BY <2>1, <2>2, <2>3
<1>6. lost[m] = (1 .. n) \ {c[i] : i \in DOMAIN c}
  BY <1>1, <1>5 DEF Account
<1> QED
  BY <1>2, <1>4, <1>6 DEF o, h, c, n

-----------------------------------------------------------------------------
(* A set of natural numbers has a least. *)
LEMMA Least ==
  ASSUME NEW S, S \subseteq Nat, S # {}
  PROVE  \E k \in S : \A j \in S : k <= j
<1> DEFINE R == {ss \in Nat \X Nat : ss[1] < ss[2]}
<1>1. IsWellFoundedOn(R, Nat)
  BY NatLessThanWellFounded DEF OpToRel
<1> HIDE DEF R
<1>2. PICK k \in S : \A j \in S : <<j, k>> \notin R
  BY <1>1, WFMin
<1>3. ASSUME NEW j \in S
      PROVE  k <= j
  <2>1. <<j, k>> \notin R
    BY <1>2
  <2>2. ~(j < k)
    BY <2>1 DEF R
  <2> QED
    BY <2>2
<1> QED
  BY <1>3

(* A sequence cut before and after four elements is put together again. *)
LEMMA CutJoins ==
  ASSUME NEW B, NEW d \in Seq(B), NEW k \in Nat, k + 4 <= Len(d), Len(d) \in Nat
  PROVE  /\ SubSeq(d, 1, k) \in Seq(B) /\ SubSeq(d, k + 5, Len(d)) \in Seq(B)
         /\ (SubSeq(d, 1, k) \o SubSeq(d, k + 1, k + 4)) \o SubSeq(d, k + 5, Len(d)) = d
<1>1. SubSeq(d, 1, k) \o SubSeq(d, k + 1, k + 4) = SubSeq(d, 1, k + 4)
  <2>1. 1 \in 1 .. Len(d) + 1 /\ k \in 1 - 1 .. Len(d) /\ k + 4 \in k .. Len(d)
    OBVIOUS
  <2> QED
    BY <2>1, ConcatAdjacentSubSeq
<1>2. SubSeq(d, 1, k + 4) \o SubSeq(d, (k + 4) + 1, Len(d)) = SubSeq(d, 1, Len(d))
  <2>1. 1 \in 1 .. Len(d) + 1 /\ k + 4 \in 1 - 1 .. Len(d) /\ Len(d) \in k + 4 .. Len(d)
    OBVIOUS
  <2> QED
    BY <2>1, ConcatAdjacentSubSeq
<1>3. (k + 4) + 1 = k + 5 /\ SubSeq(d, 1, Len(d)) = d
  BY SubSeqFull
<1>4. \A i \in 1 .. Len(d) : d[i] \in B
  BY ElementOfSeq
<1>5. SubSeq(d, 1, k) \in Seq(B)
  <2>1. \A i \in 1 .. k : d[i] \in B
    BY <1>4
  <2> QED
    BY <2>1, SubSeqProperties
<1>6. SubSeq(d, k + 5, Len(d)) \in Seq(B)
  <2>1. \A i \in k + 5 .. Len(d) : d[i] \in B
    BY <1>4
  <2> QED
    BY <2>1, SubSeqProperties
<1> QED
  BY <1>1, <1>2, <1>3, <1>5, <1>6

(* The sps and pps cut out of the extradata make up the extradata, even    *)
(* when one of them has a start code in it.                                *)
LEMMA SplitJoins ==
  ASSUME NEW sps \in Seq(0 .. 255), NEW pps \in Seq(0 .. 255)
  PROVE  LET x == Extradata(sps, pps)
         IN  Extradata(Split(x)[1], Split(x)[2]) = x
<1> DEFINE B == 0 .. 255
           code == StartCode
           x == Extradata(sps, pps)
           e == sps \o code
           r == e \o pps
           d == SubSeq(x, 5, Len(x))
           at == Len(sps)
           found == {i \in 1 .. Len(d) - 3 : SubSeq(d, i, i + 3) = code}
           first == CHOOSE i \in found : \A j \in found : i <= j
<1>0. sps \in Seq(B) /\ pps \in Seq(B)
  OBVIOUS
<1>1. code \in Seq(B) /\ Len(code) = 4
  BY DEF StartCode
<1>2. x = ((code \o sps) \o code) \o pps
  BY DEF Extradata
<1>7. Split(x) = <<SubSeq(d, 1, first - 1), SubSeq(d, first + 4, Len(d))>>
  BY DEF Split
<1> HIDE DEF B, code, x, d
<1>3. x = code \o r /\ r \in Seq(B)
  <2>1. (code \o sps) \o code = code \o (sps \o code)
    BY <1>0, <1>1, ConcatAssociative
  <2>2. sps \o code \in Seq(B)
    BY <1>0, <1>1, ConcatProperties
  <2>3. (code \o (sps \o code)) \o pps = code \o ((sps \o code) \o pps)
    BY <1>0, <1>1, <2>2, ConcatAssociative
  <2>4. r \in Seq(B)
    BY <1>0, <2>2, ConcatProperties
  <2> QED
    BY <1>2, <2>1, <2>3, <2>4
<1> HIDE DEF at
<1> HIDE DEF e
<1>5. /\ at \in Nat /\ Len(r) \in Nat /\ at + 4 <= Len(r)
      /\ SubSeq(r, at + 1, at + 4) = code
  <2>1. e \in Seq(B) /\ Len(e) = at + 4 /\ at \in Nat /\ Len(pps) \in Nat
    <3>1. e \in Seq(B) /\ Len(e) = Len(sps) + Len(code)
      BY <1>0, <1>1, ConcatProperties DEF e
    <3>2. Len(sps) \in Nat /\ Len(pps) \in Nat
      BY LenProperties
    <3> QED
      BY <1>1, <3>1, <3>2 DEF at
  <2>2. SubSeq(e, at + 1, at + 4) = code
    <3>1. at + 1 \in at + 1 .. at + Len(code) /\ at + 4 \in at + 1 .. at + Len(code)
      BY <1>1, <2>1
    <3>2. SubSeq(e, at + 1, at + 4) = SubSeq(code, (at + 1) - at, (at + 4) - at)
      BY <1>0, <1>1, <3>1, SubSeqOfConcat2 DEF at, e
    <3>3. (at + 1) - at = 1 /\ (at + 4) - at = Len(code)
      BY <1>1, <2>1
    <3> QED
      BY <1>1, <3>2, <3>3, SubSeqFull
  <2>3. SubSeq(r, at + 1, at + 4) = SubSeq(e, at + 1, at + 4)
    <3>1. at + 1 \in 1 .. Len(e) /\ at + 4 \in 1 .. Len(e)
      BY <2>1
    <3> QED
      BY <1>0, <2>1, <3>1, SubSeqOfConcat1
  <2>4. Len(r) = Len(e) + Len(pps)
    BY <1>0, <2>1, ConcatProperties
  <2> HIDE DEF r
  <2>5. Len(r) \in Nat /\ at + 4 <= Len(r)
    BY <2>1, <2>4
  <2> QED
    BY <2>1, <2>2, <2>3, <2>5
<1> HIDE DEF r
<1>4. d = r
  <2>1. Len(x) = 4 + Len(r)
    <3>1. Len(code \o r) = Len(code) + Len(r)
      BY <1>1, <1>3, ConcatProperties
    <3> QED
      BY <1>1, <1>3, <3>1
  <2>2. 5 \in Len(code) + 1 .. Len(code) + Len(r)
        /\ Len(x) \in Len(code) + 1 .. Len(code) + Len(r)
    BY <1>1, <1>5, <2>1
  <2>3. d = SubSeq(r, 5 - Len(code), Len(x) - Len(code))
    BY <1>1, <1>3, <2>2, SubSeqOfConcat2 DEF d
  <2>4. 5 - Len(code) = 1 /\ Len(x) - Len(code) = Len(r)
    BY <1>1, <1>5, <2>1
  <2> QED
    BY <1>3, <2>3, <2>4, SubSeqFull
<1>6. first \in found
  <2>1. at + 1 \in 1 .. Len(d) - 3 /\ (at + 1) + 3 = at + 4
    BY <1>4, <1>5
  <2>2. at + 1 \in found
    BY <1>4, <1>5, <2>1
  <2>3. found \subseteq Nat
    OBVIOUS
  <2> HIDE DEF found
  <2> QED
    BY <2>2, <2>3, Least
<1> HIDE DEF first
<1>8. first \in 1 .. Len(d) - 3 /\ SubSeq(d, first, first + 3) = code
  BY <1>6
<1> DEFINE k == first - 1
           p == SubSeq(d, 1, first - 1)
           q == SubSeq(d, first + 4, Len(d))
<1>9. /\ k \in Nat /\ k + 4 <= Len(d) /\ Len(d) \in Nat
      /\ first = k + 1 /\ first + 3 = k + 4 /\ first + 4 = k + 5
  BY <1>4, <1>5, <1>8
<1>10. p \in Seq(B) /\ q \in Seq(B) /\ (p \o code) \o q = d
  <2> HIDE DEF k
  <2>1. d \in Seq(B)
    BY <1>3, <1>4
  <2>2. p = SubSeq(d, 1, k) /\ q = SubSeq(d, k + 5, Len(d))
        /\ code = SubSeq(d, k + 1, k + 4)
    BY <1>8, <1>9 DEF k
  <2> HIDE DEF p, q
  <2> QED
    BY <1>9, <2>1, <2>2, CutJoins
<1> HIDE DEF p, q
<1>11. p \in Seq(B) /\ q \in Seq(B)
  BY <1>10
<1>12. Extradata(p, q) = x
  <2>1. Extradata(p, q) = ((code \o p) \o code) \o q
    BY DEF Extradata, code
  <2>2. (code \o p) \o code = code \o (p \o code)
    BY <1>1, <1>11, ConcatAssociative
  <2>3. p \o code \in Seq(B)
    BY <1>1, <1>10, ConcatProperties
  <2>4. (code \o (p \o code)) \o q = code \o ((p \o code) \o q)
    <3> DEFINE t == p \o code
    <3>1. t \in Seq(B)
      BY <2>3
    <3> HIDE DEF t
    <3>2. (code \o t) \o q = code \o (t \o q)
      BY <1>1, <1>11, <3>1, ConcatAssociative
    <3> QED
      BY <3>2 DEF t
  <2> QED
    BY <1>3, <1>4, <1>10, <2>1, <2>2, <2>4
<1> QED
  BY <1>7, <1>12 DEF p, q, x

-----------------------------------------------------------------------------
(* What a callback comes to while nothing is ready in the codec: the frame *)
(* is refused, taken, or takes the place of the oldest one, whose packet   *)
(* is dropped or pushed.                                                   *)
Into(m) == Append(codec[m].inside, frames[m] + 1)

CodecHolds(m, h) == codec' = [codec EXCEPT ![m] = [inside |-> h, out |-> <<>>]]

Dropped(m, f) ==
  /\ lost' = [lost EXCEPT ![m] = @ \cup {f}]
  /\ errors' = errors + 1
  /\ UNCHANGED <<file, stream>>

FrameRefused(m) ==
  CodecHolds(m, codec[m].inside) /\ Dropped(m, frames[m] + 1)

FrameTaken(m) ==
  /\ Len(Into(m)) <= Delay[m] /\ CodecHolds(m, Into(m))
  /\ errors' \in {errors, errors + 1}
  /\ UNCHANGED <<lost, file, stream>>

PacketDropped(m) ==
  /\ ~(Len(Into(m)) <= Delay[m]) /\ CodecHolds(m, Tail(Into(m)))
  /\ Dropped(m, Head(Into(m)))

PacketPushed(m) ==
  /\ ~(Len(Into(m)) <= Delay[m]) /\ CodecHolds(m, Tail(Into(m)))
  /\ \E s \in PacketSizes :
       LET p == [frame |-> Head(Into(m)), size |-> s]
       IN  /\ stream' = [stream EXCEPT ![m] = Append(@, p)]
           /\ Write(m, IF m = "audio" THEN <<AdtsHeader(part.aac, s), p>>
                       ELSE <<p>>)
  /\ UNCHANGED <<lost, errors>>

Effect(m) ==
  /\ stage = "running" /\ frames' = [frames EXCEPT ![m] = @ + 1]
  /\ UNCHANGED config
  /\ FrameRefused(m) \/ FrameTaken(m) \/ PacketDropped(m) \/ PacketPushed(m)

(* The outcomes of Encode. *)
LEMMA EncodeOutcome ==
  ASSUME NEW m \in Media, Settled(m), SizeAccepted(m), NEW f, f = frames[m] + 1,
         NEW o \in Encode(m, f)
  PROVE  \/ /\ o.codec = [inside |-> codec[m].inside, out |-> <<>>]
            /\ o.packet = <<>> /\ o.gone = {f} /\ o.failed = 1
         \/ /\ Len(Into(m)) <= Delay[m]
            /\ o.codec = [inside |-> Into(m), out |-> <<>>]
            /\ o.packet = <<>> /\ o.gone = {} /\ o.failed \in {0, 1}
         \/ /\ ~(Len(Into(m)) <= Delay[m])
            /\ o.codec = [inside |-> Tail(Into(m)), out |-> <<>>]
            /\ \/ /\ o.packet = <<>> /\ o.gone = {Head(Into(m))} /\ o.failed = 1
               \/ /\ \E s \in PacketSizes :
                       o.packet = <<[frame |-> Head(Into(m)), size |-> s]>>
                  /\ o.gone = {} /\ o.failed = 0
<1> DEFINE c == codec[m]
<1>1. c = [inside |-> c.inside, out |-> <<>>] /\ ~Refuses(c)
  BY DEF Settled, Refuses
<1>2. ASSUME NEW s, Len(Into(m)) <= Delay[m]
      PROVE  Sent(c, m, f, s) = [inside |-> Into(m), out |-> <<>>]
  <2>1. Sent(c, m, f, s) = [c EXCEPT !.inside = Into(m)]
    BY <1>2 DEF Sent, Into
  <2> QED
    BY <1>1, <2>1
<1>3. ASSUME NEW s, ~(Len(Into(m)) <= Delay[m])
      PROVE  Sent(c, m, f, s) =
               [inside |-> Tail(Into(m)),
                out |-> <<[frame |-> Head(Into(m)), size |-> s]>>]
  BY <1>3 DEF Sent, Into
<1>4. \/ \E s \in PacketSizes : o = Exchange(m, f, s)
      \/ o = NotSent(m, f)
      \/ \E s \in PacketSizes : o = NotReceived(m, f, s)
  BY DEF Encode
<1>5. CASE o = NotSent(m, f)
  BY <1>1, <1>5 DEF NotSent, Outcome
<1>6. ASSUME NEW s \in PacketSizes, o = Exchange(m, f, s)
      PROVE  /\ o.codec = Received(Sent(c, m, f, s))
             /\ o.packet = Sent(c, m, f, s).out /\ o.gone = {} /\ o.failed = 0
  BY <1>1, <1>6 DEF Exchange, Outcome
<1>7. ASSUME NEW s \in PacketSizes, o = NotReceived(m, f, s)
      PROVE  LET sent == Sent(c, m, f, s)
             IN  /\ o.codec = Received(sent) /\ o.packet = <<>> /\ o.failed = 1
                 /\ o.gone = {sent.out[i].frame : i \in DOMAIN sent.out}
  BY <1>7 DEF NotReceived, Outcome
<1> HIDE DEF c
<1>8. ASSUME NEW h, NEW out
      PROVE  Received([inside |-> h, out |-> out]) = [inside |-> h, out |-> <<>>]
  BY DEF Received
<1>9. CASE Len(Into(m)) <= Delay[m]
  <2>1. ASSUME NEW s \in PacketSizes, o = Exchange(m, f, s)
        PROVE  /\ o.codec = [inside |-> Into(m), out |-> <<>>]
               /\ o.packet = <<>> /\ o.gone = {} /\ o.failed = 0
    BY <1>2, <1>6, <1>8, <1>9, <2>1
  <2>2. ASSUME NEW s \in PacketSizes, o = NotReceived(m, f, s)
        PROVE  /\ o.codec = [inside |-> Into(m), out |-> <<>>]
               /\ o.packet = <<>> /\ o.gone = {} /\ o.failed = 1
    <3>1. Sent(c, m, f, s).out = <<>>
      BY <1>2, <1>9
    <3>2. o.gone = {}
      BY <1>7, <2>2, <3>1
    <3> QED
      BY <1>2, <1>7, <1>8, <1>9, <2>2, <3>2
  <2> QED
    BY <1>4, <1>5, <1>9, <2>1, <2>2
<1>10. CASE ~(Len(Into(m)) <= Delay[m])
  <2> DEFINE p(s) == [frame |-> Head(Into(m)), size |-> s]
  <2>1. ASSUME NEW s
        PROVE  /\ Sent(c, m, f, s).out = <<p(s)>>
               /\ Received(Sent(c, m, f, s)) = [inside |-> Tail(Into(m)), out |-> <<>>]
               /\ p(s).frame = Head(Into(m))
    <3>1. Sent(c, m, f, s) = [inside |-> Tail(Into(m)), out |-> <<p(s)>>]
      BY <1>3, <1>10
    <3>2. p(s).frame = Head(Into(m))
      OBVIOUS
    <3> HIDE DEF p
    <3>3. Sent(c, m, f, s).out = <<p(s)>>
      BY <3>1
    <3>4. Received(Sent(c, m, f, s)) = [inside |-> Tail(Into(m)), out |-> <<>>]
      BY <1>8, <3>1, Zenon
    <3> QED
      BY <3>2, <3>3, <3>4
  <2>2. \A s \in PacketSizes : <<p(s)>> = <<[frame |-> Head(Into(m)), size |-> s]>>
    OBVIOUS
  <2> HIDE DEF p
  <2>3. ASSUME NEW s \in PacketSizes, o = Exchange(m, f, s)
        PROVE  /\ o.codec = [inside |-> Tail(Into(m)), out |-> <<>>]
               /\ o.packet = <<[frame |-> Head(Into(m)), size |-> s]>>
               /\ o.gone = {} /\ o.failed = 0
    <3>1. o.packet = <<p(s)>>
      BY <1>6, <2>1, <2>3
    <3> QED
      BY <1>6, <2>1, <2>2, <2>3, <3>1, Zenon
  <2>4. ASSUME NEW s \in PacketSizes, o = NotReceived(m, f, s)
        PROVE  /\ o.codec = [inside |-> Tail(Into(m)), out |-> <<>>]
               /\ o.packet = <<>> /\ o.gone = {Head(Into(m))} /\ o.failed = 1
    <3> DEFINE out == Sent(c, m, f, s).out
    <3>1. DOMAIN <<p(s)>> = {1} /\ <<p(s)>>[1] = p(s)
      OBVIOUS
    <3>2. DOMAIN out = {1} /\ out[1].frame = Head(Into(m))
      BY <2>1, <3>1
    <3>3. o.gone = {out[i].frame : i \in DOMAIN out}
      BY <1>7, <2>4
    <3> HIDE DEF out
    <3>4. o.gone = {Head(Into(m))}
      BY <3>2, <3>3
    <3> QED
      BY <1>7, <2>1, <2>4, <3>4, Zenon
  <2> QED
    BY <1>4, <1>5, <1>10, <2>3, <2>4, Zenon
<1> QED
  BY <1>9, <1>10

(* The size and the rate are never refused: what the components were given *)
(* fits.                                                                   *)
LEMMA NeverRefused ==
  ASSUME IInv, stage = "running"
  PROVE  /\ \A m \in Media : SizeAccepted(m)
         /\ HasFreqIdx(part.aac.sample_rate)
         /\ part.aac.channels \in 1 .. 8
<1>1. part.yuv.buf_size = ImageSize(part.h264.width, part.h264.height)
  BY Fits DEF BuffersFit
<1>2. /\ part["aac"].sample_rate = Members.sample_rate
      /\ part["aac"].channels = Members.channels
      /\ AacOpens(Members.sample_rate, Members.channels)
  BY DEF IInv, Kept, Has
<1> QED
  BY <1>1, <1>2 DEF SizeAccepted, HasFreqIdx, AacOpens

(* The rest of a callback, for each outcome of Encode. *)
LEMMA CallbackEffect ==
  ASSUME AccountInv, NEW m \in Media,
         (m = "audio" /\ PcmCallback) \/ (m = "video" /\ YuvCallback)
  PROVE  Effect(m)
<1> DEFINE f == frames[m] + 1
<1>1. /\ stage = "running" /\ UNCHANGED config
      /\ frames' = [frames EXCEPT ![m] = @ + 1] /\ frames'[m] = f
  BY DEF PcmCallback, YuvCallback, Deliver, AccountInv, Functions
<1>2. Settled(m) /\ SizeAccepted(m)
  BY <1>1, NeverRefused DEF AccountInv
<1>3. HasFreqIdx(part.aac.sample_rate)
  BY <1>1, NeverRefused DEF AccountInv
<1>4. \/ Abandon(m)
      \/ \E o \in Encode(m, f) :
           /\ codec' = [codec EXCEPT ![m] = o.codec]
           /\ NoPacket(m, o) \/ NoFile(m, o) \/ DumpAndPush(m, o)
  BY <1>1, <1>3 DEF PcmCallback, YuvCallback, NoHeader
<1>5. CASE Abandon(m)
  <2>1. /\ lost' = [lost EXCEPT ![m] = @ \cup {f}]
        /\ errors' = errors + 1 /\ UNCHANGED <<codec, file, stream>>
    BY <1>1, <1>5 DEF Abandon, Lose
  <2>2. codec' = [codec EXCEPT ![m] = [inside |-> codec[m].inside, out |-> <<>>]]
    BY <1>2, <2>1 DEF AccountInv, Functions, Settled
  <2> QED
    BY <1>1, <2>1, <2>2 DEF Effect, FrameRefused, CodecHolds, Dropped
<1>6. ASSUME NEW o \in Encode(m, f), codec' = [codec EXCEPT ![m] = o.codec],
             NoPacket(m, o) \/ NoFile(m, o) \/ DumpAndPush(m, o)
      PROVE  Effect(m)
  <2> DEFINE Pushable == \E s \in PacketSizes :
                           o.packet = <<[frame |-> Head(Into(m)), size |-> s]>>
  <2>1. \/ /\ o.codec = [inside |-> codec[m].inside, out |-> <<>>]
           /\ o.packet = <<>> /\ o.gone = {f} /\ o.failed = 1
        \/ /\ Len(Into(m)) <= Delay[m]
           /\ o.codec = [inside |-> Into(m), out |-> <<>>]
           /\ o.packet = <<>> /\ o.gone = {} /\ o.failed \in {0, 1}
        \/ /\ ~(Len(Into(m)) <= Delay[m])
           /\ o.codec = [inside |-> Tail(Into(m)), out |-> <<>>]
           /\ \/ /\ o.packet = <<>> /\ o.gone = {Head(Into(m))} /\ o.failed = 1
              \/ Pushable /\ o.gone = {} /\ o.failed = 0
    BY <1>2, EncodeOutcome
  <2>2. ASSUME o.packet = <<>>
        PROVE  /\ lost' = [lost EXCEPT ![m] = @ \cup o.gone]
               /\ errors' = errors + o.failed /\ UNCHANGED <<file, stream>>
    BY <1>6, <2>2 DEF NoPacket, NoFile, DumpAndPush, Lose
  <2> HIDE DEF Pushable
  <2>3. CASE /\ o.codec = [inside |-> codec[m].inside, out |-> <<>>]
             /\ o.packet = <<>> /\ o.gone = {f} /\ o.failed = 1
    BY <1>1, <1>6, <2>2, <2>3 DEF Effect, FrameRefused, CodecHolds, Dropped
  <2>4. CASE /\ Len(Into(m)) <= Delay[m]
             /\ o.codec = [inside |-> Into(m), out |-> <<>>]
             /\ o.packet = <<>> /\ o.gone = {} /\ o.failed \in {0, 1}
    <3>1. lost' = lost
      BY <2>2, <2>4 DEF AccountInv, Functions
    <3>2. errors' \in {errors, errors + 1}
      BY <2>2, <2>4 DEF AccountInv
    <3> QED
      BY <1>1, <1>6, <2>2, <2>4, <3>1, <3>2 DEF Effect, FrameTaken, CodecHolds
  <2>5. CASE /\ ~(Len(Into(m)) <= Delay[m])
             /\ o.codec = [inside |-> Tail(Into(m)), out |-> <<>>]
             /\ o.packet = <<>> /\ o.gone = {Head(Into(m))} /\ o.failed = 1
    BY <1>1, <1>6, <2>2, <2>5 DEF Effect, PacketDropped, CodecHolds, Dropped
  <2>6. CASE /\ ~(Len(Into(m)) <= Delay[m])
             /\ o.codec = [inside |-> Tail(Into(m)), out |-> <<>>]
             /\ Pushable /\ o.gone = {} /\ o.failed = 0
    <3>1. PICK s \in PacketSizes :
            o.packet = <<[frame |-> Head(Into(m)), size |-> s]>>
      BY <2>6 DEF Pushable
    <3> DEFINE p == [frame |-> Head(Into(m)), size |-> s]
    <3>2. o.packet # <<>> /\ o.packet[1] = p
      BY <3>1
    <3>3. p.frame = Head(Into(m)) /\ p.size = s
      OBVIOUS
    <3> HIDE DEF p
    <3>4. CASE NoFile(m, o)
      BY <1>1, <1>6, <2>6, <3>2, <3>3, <3>4
         DEF NoFile, Lose, Effect, PacketDropped, CodecHolds, Dropped
    <3>5. CASE DumpAndPush(m, o)
      <4>1. /\ stream' = [stream EXCEPT ![m] = Append(@, p)]
            /\ UNCHANGED <<lost, errors>>
        BY <3>2, <3>5 DEF DumpAndPush, Push
      <4>2. Write(m, IF m = "audio" THEN <<AdtsHeader(part.aac, s), p>> ELSE <<p>>)
        BY <3>2, <3>3, <3>5 DEF DumpAndPush
      <4>3. PacketPushed(m)
        BY <1>6, <2>6, <4>1, <4>2 DEF PacketPushed, CodecHolds, p
      <4> QED
        BY <1>1, <4>3 DEF Effect
    <3>6. ~NoPacket(m, o)
      BY <3>2 DEF NoPacket
    <3> QED
      BY <1>6, <3>4, <3>5, <3>6
  <2> QED
    BY <2>1, <2>3, <2>4, <2>5, <2>6
<1> QED
  BY <1>4, <1>5, <1>6

-----------------------------------------------------------------------------
(* A frame dropped is one loss for one call that failed. *)
LEMMA LossesCounted ==
  ASSUME AccountInv, NEW m \in Media, NEW f, Dropped(m, f)
  PROVE  errors' \in Nat /\ Losses' <= errors'
<1>1. /\ lost' = [lost EXCEPT ![m] = @ \cup {f}] /\ errors' = errors + 1
      /\ errors \in Nat /\ Losses <= errors
  BY DEF Dropped, AccountInv
<1>2. \A k \in Media : IsFiniteSet(lost[k]) /\ Cardinality(lost[k]) \in Nat
  <2> SUFFICES ASSUME NEW k \in Media
               PROVE  IsFiniteSet(lost[k])
    BY FS_CardinalityType
  <2>1. frames[k] \in Nat /\ lost[k] \subseteq 1 .. frames[k]
    BY DEF AccountInv, Settled, Account
  <2>2. IsFiniteSet(1 .. frames[k])
    BY <2>1, FS_Interval
  <2> QED
    BY <2>1, <2>2, FS_Subset
<1>3. /\ Cardinality(lost[m] \cup {f}) \in Nat
      /\ Cardinality(lost[m] \cup {f}) <= Cardinality(lost[m]) + 1
  <2>1. /\ IsFiniteSet(lost[m] \cup {f})
        /\ Cardinality(lost[m] \cup {f}) =
             IF f \in lost[m] THEN Cardinality(lost[m]) ELSE Cardinality(lost[m]) + 1
    BY <1>2, FS_AddElement
  <2> QED
    BY <1>2, <2>1
<1>4. /\ lost'[m] = lost[m] \cup {f}
      /\ \A k \in Media \ {m} : lost'[k] = lost[k]
  BY <1>1 DEF AccountInv, Functions
<1>5. CASE m = "audio"
  <2>1. lost'["audio"] = lost["audio"] \cup {f} /\ lost'["video"] = lost["video"]
    BY <1>4, <1>5 DEF Media
  <2>2. /\ Losses = Cardinality(lost[m]) + Cardinality(lost["video"])
        /\ Losses' = Cardinality(lost[m] \cup {f}) + Cardinality(lost["video"])
    <3>1. \A x, y \in Nat : x + y = y + x
      OBVIOUS
    <3>2. "video" \in Media
      BY DEF Media
    <3> QED
      BY <1>2, <1>3, <1>5, <2>1, <3>1, <3>2 DEF Losses
  <2>3. Cardinality(lost["video"]) \in Nat /\ Cardinality(lost[m]) \in Nat
    BY <1>2 DEF Media
  <2> QED
    BY <1>1, <1>3, <2>2, <2>3
<1>6. CASE m = "video"
  <2>1. lost'["video"] = lost["video"] \cup {f} /\ lost'["audio"] = lost["audio"]
    BY <1>4, <1>6 DEF Media
  <2>2. /\ Losses = Cardinality(lost[m]) + Cardinality(lost["audio"])
        /\ Losses' = Cardinality(lost[m] \cup {f}) + Cardinality(lost["audio"])
    <3>1. \A x, y \in Nat : x + y = y + x
      OBVIOUS
    <3>2. "audio" \in Media
      BY DEF Media
    <3> QED
      BY <1>2, <1>3, <1>6, <2>1, <3>1, <3>2 DEF Losses
  <2>3. Cardinality(lost["audio"]) \in Nat /\ Cardinality(lost[m]) \in Nat
    BY <1>2 DEF Media
  <2> QED
    BY <1>1, <1>3, <2>2, <2>3
<1> QED
  BY <1>5, <1>6 DEF Media

(* A callback settles its media and leaves the other alone. *)
LEMMA EffectSettles ==
  ASSUME AccountInv, NEW m \in Media, Effect(m)
  PROVE  /\ Functions' /\ (\A k \in Media : Settled(k)')
         /\ errors' \in Nat /\ Losses' <= errors'
<1> DEFINE h == codec[m].inside
           o == FramesOf(stream[m])
           n == frames[m]
           h1 == Append(h, n + 1)
<1>1. /\ h \in Seq(Nat) /\ o \in Seq(Nat) /\ n \in Nat
      /\ stream[m] \in Seq(AnyPacket) /\ Len(h) <= Delay[m]
      /\ Account(o, h, n, lost[m])
  BY FramesOfType DEF AccountInv, Settled
<1>2. /\ h1 \in Seq(Nat) /\ Len(h1) = Len(h) + 1 /\ Len(h) \in Nat
      /\ h1 # <<>> /\ Into(m) = h1 /\ Delay[m] \in Nat
      /\ Head(h1) \in Nat /\ Tail(h1) \in Seq(Nat) /\ Len(Tail(h1)) = Len(h)
  <2>1. h1 \in Seq(Nat) /\ Len(h1) = Len(h) + 1 /\ Len(h) \in Nat
    BY <1>1, Appended
  <2>2. h1 # <<>>
    BY <2>1 DEF h1
  <2>3. Head(h1) \in Nat /\ Tail(h1) \in Seq(Nat) /\ Len(Tail(h1)) = Len(h1) - 1
    BY <2>1, <2>2, Tailed
  <2>4. Into(m) = h1 /\ Delay[m] \in Nat
    BY EncodingAssumption DEF Into
  <2> HIDE DEF h1
  <2> QED
    BY <2>1, <2>2, <2>3, <2>4
<1>3. Functions /\ \A k \in Media : Settled(k)
  BY DEF AccountInv
<1>4. frames' = [frames EXCEPT ![m] = n + 1]
  BY DEF Effect
<1>5. ASSUME NEW h2 \in Seq(Nat), NEW s2 \in Seq(AnyPacket), NEW gone,
             CodecHolds(m, h2), Len(h2) <= Delay[m],
             stream' = [stream EXCEPT ![m] = s2],
             lost' = [lost EXCEPT ![m] = gone],
             Account(FramesOf(s2), h2, n + 1, gone)
      PROVE  Functions' /\ \A k \in Media : Settled(k)'
  <2>1. Functions'
    BY <1>3, <1>4, <1>5 DEF Functions, CodecHolds
  <2>2. /\ codec'[m] = [inside |-> h2, out |-> <<>>] /\ frames'[m] = n + 1
        /\ stream'[m] = s2 /\ lost'[m] = gone
    BY <1>3, <1>4, <1>5 DEF Functions, CodecHolds
  <2>3. Settled(m)'
    <3>1. codec'[m].inside = h2 /\ n + 1 \in Nat
      BY <1>1, <2>2
    <3> QED
      BY <1>5, <2>2, <3>1 DEF Settled, FramesOf
  <2>4. ASSUME NEW k \in Media, k # m
        PROVE  Settled(k)'
    <3>1. /\ codec'[k] = codec[k] /\ frames'[k] = frames[k]
          /\ stream'[k] = stream[k] /\ lost'[k] = lost[k]
      BY <1>3, <1>4, <1>5, <2>4 DEF Functions, CodecHolds
    <3> QED
      BY <1>3, <3>1 DEF Settled, FramesOf
  <2> QED
    BY <2>1, <2>3, <2>4
<1>6. /\ stream = [stream EXCEPT ![m] = stream[m]]
      /\ lost = [lost EXCEPT ![m] = lost[m]]
  BY <1>3 DEF Functions
<1> HIDE DEF h1, o, n
<1>7. n + 1 \in Nat
  BY <1>1
<1>8. Account(o, h1, n + 1, lost[m])
  BY <1>1, FrameHeld DEF h1
<1>9. CASE FrameRefused(m)
  <2>1. Account(o, h, n + 1, lost[m] \cup {n + 1})
    BY <1>1, FrameLost
  <2>2. /\ CodecHolds(m, h) /\ stream' = stream
        /\ lost' = [lost EXCEPT ![m] = lost[m] \cup {n + 1}]
    BY <1>9 DEF FrameRefused, Dropped, n
  <2>3. Functions' /\ \A k \in Media : Settled(k)'
    BY <1>1, <1>5, <1>6, <2>1, <2>2 DEF o
  <2>4. errors' \in Nat /\ Losses' <= errors'
    BY <1>9, LossesCounted DEF FrameRefused
  <2> QED
    BY <2>3, <2>4
<1>10. CASE FrameTaken(m)
  <2>1. /\ CodecHolds(m, h1) /\ Len(h1) <= Delay[m] /\ stream' = stream /\ lost' = lost
        /\ errors' \in {errors, errors + 1}
    BY <1>2, <1>10 DEF FrameTaken
  <2>2. Functions' /\ \A k \in Media : Settled(k)'
    BY <1>1, <1>2, <1>5, <1>6, <1>8, <2>1 DEF o
  <2>3. errors' \in Nat /\ Losses' <= errors'
    <3>1. Losses' = Losses /\ errors \in Nat /\ Losses <= errors
      BY <2>1 DEF Losses, AccountInv
    <3>2. Losses \in Nat
      <4>1. \A k \in Media : Cardinality(lost[k]) \in Nat
        <5> SUFFICES ASSUME NEW k \in Media
                     PROVE  IsFiniteSet(lost[k])
          BY FS_CardinalityType
        <5>1. frames[k] \in Nat /\ lost[k] \subseteq 1 .. frames[k]
          BY <1>3 DEF Settled, Account
        <5>2. IsFiniteSet(1 .. frames[k])
          BY <5>1, FS_Interval
        <5> QED
          BY <5>1, <5>2, FS_Subset
      <4> QED
        BY <4>1 DEF Losses, Media
    <3> QED
      BY <2>1, <3>1, <3>2
  <2> QED
    BY <2>2, <2>3
<1>11. CASE PacketDropped(m)
  <2>1. Account(o, Tail(h1), n + 1, lost[m] \cup {Head(h1)})
    BY <1>1, <1>2, <1>8, <1>7, HeadLost
  <2>2. /\ CodecHolds(m, Tail(h1)) /\ stream' = stream
        /\ lost' = [lost EXCEPT ![m] = lost[m] \cup {Head(h1)}]
    BY <1>2, <1>11 DEF PacketDropped, Dropped
  <2>3. Functions' /\ \A k \in Media : Settled(k)'
    BY <1>1, <1>2, <1>5, <1>6, <2>1, <2>2 DEF o
  <2>4. errors' \in Nat /\ Losses' <= errors'
    BY <1>11, LossesCounted DEF PacketDropped
  <2> QED
    BY <2>3, <2>4
<1>12. CASE PacketPushed(m)
  <2>1. PICK s \in PacketSizes :
          stream' = [stream EXCEPT ![m] = Append(@, [frame |-> Head(h1), size |-> s])]
    BY <1>2, <1>12 DEF PacketPushed
  <2> DEFINE p == [frame |-> Head(h1), size |-> s]
  <2>2. p \in AnyPacket /\ p.frame = Head(h1)
    BY <1>2 DEF AnyPacket
  <2>3. stream' = [stream EXCEPT ![m] = Append(stream[m], p)]
    BY <2>1
  <2> HIDE DEF p
  <2>4. /\ Append(stream[m], p) \in Seq(AnyPacket)
        /\ FramesOf(Append(stream[m], p)) = Append(o, Head(h1))
    <3>1. Append(stream[m], p) \in Seq(AnyPacket)
      BY <1>1, <2>2, AppendProperties
    <3> QED
      BY <1>1, <2>2, <3>1, FramesOfAppend DEF o
  <2>5. Account(Append(o, Head(h1)), Tail(h1), n + 1, lost[m])
    BY <1>1, <1>2, <1>8, <1>7, HeadPushed
  <2>6. CodecHolds(m, Tail(h1)) /\ lost' = lost /\ errors' = errors
    BY <1>2, <1>12 DEF PacketPushed
  <2>7. Functions' /\ \A k \in Media : Settled(k)'
    BY <1>1, <1>2, <1>5, <1>6, <2>3, <2>4, <2>5, <2>6
  <2>8. errors' \in Nat /\ Losses' <= errors'
    BY <2>6 DEF Losses, AccountInv
  <2> QED
    BY <2>7, <2>8
<1> QED
  BY <1>9, <1>10, <1>11, <1>12 DEF Effect

-----------------------------------------------------------------------------
(* No frame has been delivered when main begins. *)
LEMMA InitAccount == EncodingInit => AccountInv
<1> SUFFICES ASSUME EncodingInit
             PROVE  AccountInv
  OBVIOUS
<1>1. /\ frames = [m \in Media |-> 0] /\ lost = [m \in Media |-> {}]
      /\ codec = [m \in Media |-> [inside |-> <<>>, out |-> <<>>]]
      /\ stream = [m \in Media |-> <<>>] /\ errors = 0
  BY DEF EncodingInit
<1>2. Account(<<>>, <<>>, 0, {})
  BY DEF Account, Rising, Before, Within, Holds
<1>3. ASSUME NEW m \in Media
      PROVE  Settled(m)
  <2>1. FramesOf(<<>>) = <<>>
    BY DEF FramesOf
  <2>2. /\ <<>> \in Seq(AnyPacket) /\ <<>> \in Seq(Nat)
        /\ Len(<<>>) <= Delay[m] /\ 0 \in Nat
    BY EncodingAssumption
  <2> QED
    BY <1>1, <1>2, <2>1, <2>2 DEF Settled
<1>4. errors \in Nat /\ Losses <= errors
  <2>1. Losses = 0 + 0
    BY <1>1, FS_EmptySet DEF Losses, Media
  <2> QED
    BY <1>1, <2>1
<1>5. Functions
  BY <1>1 DEF Functions
<1> QED
  BY <1>3, <1>4, <1>5, InitIInv DEF AccountInv

(* Configuration leaves the account alone; a callback keeps it. *)
LEMMA NextAccount == AccountInv /\ [EncodingNext]_<<config, encoding>> => AccountInv'
<1> SUFFICES ASSUME AccountInv, [EncodingNext]_<<config, encoding>>
             PROVE  AccountInv'
  OBVIOUS
<1>1. IInv'
  BY NextIInv DEF AccountInv
<1>2. CASE PcmCallback \/ YuvCallback
  <2>1. PICK m \in Media :
          (m = "audio" /\ PcmCallback) \/ (m = "video" /\ YuvCallback)
    BY <1>2 DEF Media
  <2>2. Effect(m)
    BY <2>1, CallbackEffect
  <2> QED
    BY <1>1, <2>2, EffectSettles DEF AccountInv
<1>3. CASE UNCHANGED encoding
  <2>1. UNCHANGED <<frames, codec, stream, lost, errors>>
    BY <1>3 DEF encoding
  <2>2. Functions' /\ errors' \in Nat /\ Losses' <= errors'
    BY <2>1 DEF AccountInv, Functions, Losses
  <2>3. \A m \in Media : Settled(m)'
    BY <2>1 DEF AccountInv, Settled, FramesOf
  <2> QED
    BY <1>1, <2>2, <2>3 DEF AccountInv
<1> QED
  BY <1>2, <1>3 DEF EncodingNext, encoding

(* One send and one receive a frame are enough, for any delay of the codec *)
(* and any number of calls that fail: between callbacks no packet is left  *)
(* in a codec, packets go out in the order of their frames, and a frame is *)
(* missing only for a call that failed.                                    *)
THEOREM FramesAlwaysAccounted == EncodingSpec => []FramesAccounted
<1>1. AccountInv => FramesAccounted
  <2> SUFFICES ASSUME AccountInv
               PROVE  FramesAccounted
    OBVIOUS
  <2>1. \A m \in Media : Settled(m)
    BY DEF AccountInv
  <2>2. Cardinality(lost["audio"]) + Cardinality(lost["video"]) <= errors
    BY DEF AccountInv, Losses
  <2> QED
    BY <2>1, <2>2, SettledAccounted DEF FramesAccounted
<1> QED
  BY <1>1, InitAccount, NextAccount, PTL DEF EncodingSpec

-----------------------------------------------------------------------------
(* What else the type says: the stage, the bounds of an instance, and that *)
(* a file with something in it is open.                                    *)
Bounds ==
  /\ stage \in {"main", "audio_encoder", "video_encoder", "audio_frame",
                "pusher", "audio_capturer", "video_capturer", "running",
                "failed"}
  /\ \A m \in Media : frames[m] <= MaxFrames
  /\ errors <= MaxErrors
  /\ file = [m \in Media |-> file[m]]
  /\ \A m \in Media : file[m].data # <<>> => file[m].open

(* No call counts as failed that the bound does not allow to fail.         *)
LEMMA FailureCounted ==
  ASSUME NEW m \in Media, NEW f, NEW o \in Encode(m, f), errors \in Nat,
         errors <= MaxErrors
  PROVE  errors + o.failed <= MaxErrors
<1>1. CASE \/ o = Outcome(codec[m], <<>>, {f}, 0)
           \/ \E s \in PacketSizes : o = Exchange(m, f, s)
  <2>1. o.failed = 0
    BY <1>1 DEF Exchange, Outcome
  <2> QED
    BY <2>1, EncodingAssumption
<1>2. CASE /\ errors # MaxErrors
           /\ o = NotSent(m, f) \/ \E s \in PacketSizes : o = NotReceived(m, f, s)
  <2>1. o.failed = 1
    BY <1>2 DEF NotSent, NotReceived, Outcome
  <2> QED
    BY <1>2, <2>1, EncodingAssumption
<1> QED
  BY <1>1, <1>2 DEF Encode

(* A file is opened by what is written to it.                              *)
LEMMA WriteOpens ==
  ASSUME Bounds, NEW m \in Media, NEW entries, Write(m, entries)
  PROVE  /\ file' = [k \in Media |-> file'[k]]
         /\ \A k \in Media : file'[k].data # <<>> => file'[k].open
<1>1. file' = [file EXCEPT ![m] = [open |-> TRUE,
                                   data |-> file[m].data \o Preamble(m) \o entries]]
  BY DEF Write
<1>2. /\ file'[m].open = TRUE
      /\ \A k \in Media \ {m} : file'[k] = file[k]
  BY <1>1 DEF Bounds
<1>3. file' = [k \in Media |-> file'[k]]
  BY <1>1 DEF Bounds
<1> QED
  BY <1>2, <1>3 DEF Bounds

LEMMA NextBounds ==
  AccountInv /\ Bounds /\ [EncodingNext]_<<config, encoding>> => Bounds'
<1> SUFFICES ASSUME AccountInv, Bounds, [EncodingNext]_<<config, encoding>>
             PROVE  Bounds'
  OBVIOUS
<1>1. CASE UNCHANGED <<config, encoding>>
  BY <1>1 DEF Bounds, config, encoding
<1>2. CASE Configure /\ UNCHANGED encoding
  <2>1. stage' \in {"main", "audio_encoder", "video_encoder", "audio_frame",
                    "pusher", "audio_capturer", "video_capturer", "running",
                    "failed"}
    BY <1>2 DEF Configure, Choose, SetOwn, InitAudioEncoder, InitVideoEncoder,
       InitAudioFrame, InitPusher, InitAudioCapturer, InitVideoCapturer, Fail, Build,
       Bounds
  <2> QED
    BY <1>2, <2>1 DEF Bounds, encoding
<1>3. ASSUME NEW m \in Media, (m = "audio" /\ PcmCallback) \/ (m = "video" /\ YuvCallback)
      PROVE  Bounds'
  <2>1. /\ stage' = stage /\ frames[m] < MaxFrames
        /\ frames' = [frames EXCEPT ![m] = @ + 1]
    BY <1>3 DEF PcmCallback, YuvCallback, Deliver, config
  <2>2. \A k \in Media : frames'[k] <= MaxFrames
    <3>1. /\ frames = [k \in Media |-> frames[k]]
          /\ \A k \in Media : frames[k] \in Nat /\ frames[k] <= MaxFrames
      BY DEF AccountInv, Functions, Settled, Bounds
    <3> QED
      BY <2>1, <3>1, EncodingAssumption
  <2>3. errors \in Nat /\ errors <= MaxErrors /\ MaxErrors \in Nat
    BY EncodingAssumption DEF AccountInv, Bounds
  <2>4. \/ Abandon(m)
        \/ \E o \in Encode(m, frames'[m]) :
              \/ NoPacket(m, o) \/ NoFile(m, o) \/ DumpAndPush(m, o)
              \/ NoHeader(o) /\ m = "audio"
    BY <1>3 DEF PcmCallback, YuvCallback
  <2>5. CASE Abandon(m)
    <3>1. errors' <= MaxErrors /\ file' = file
      BY <2>3, <2>5 DEF Abandon
    <3> QED
      BY <2>1, <2>2, <3>1 DEF Bounds
  <2>6. ASSUME NEW o \in Encode(m, frames'[m]), NoPacket(m, o) \/ NoFile(m, o)
        PROVE  Bounds'
    <3>1. errors + o.failed <= MaxErrors
      BY <2>3, FailureCounted
    <3>2. errors' <= MaxErrors /\ file' = file
      BY <2>3, <2>6, <3>1 DEF NoPacket, NoFile
    <3> QED
      BY <2>1, <2>2, <3>2 DEF Bounds
  <2>7. ASSUME NEW entries, Write(m, entries), errors' = errors
        PROVE  Bounds'
    <3>1. /\ file' = [k \in Media |-> file'[k]]
          /\ \A k \in Media : file'[k].data # <<>> => file'[k].open
      BY <2>7, WriteOpens
    <3> QED
      BY <2>1, <2>2, <2>3, <2>7, <3>1 DEF Bounds
  <2>8. ASSUME NEW o, DumpAndPush(m, o) \/ (NoHeader(o) /\ m = "audio")
        PROVE  \E entries : Write(m, entries) /\ errors' = errors
    BY <2>8 DEF NoHeader, DumpAndPush, Push
  <2> QED
    BY <2>4, <2>5, <2>6, <2>7, <2>8
<1> QED
  BY <1>1, <1>2, <1>3 DEF EncodingNext, Media

(* Every variable has its type: no frame is counted, sent or lost that was *)
(* not delivered, and a dump file is open from its first entry on.         *)
THEOREM TypeCorrect == EncodingSpec => []TypeOK
<1>1. EncodingInit => Bounds
  BY EncodingAssumption DEF EncodingInit, Init, Bounds
<1>2. AccountInv /\ Bounds => TypeOK
  <2> SUFFICES ASSUME AccountInv, Bounds PROVE TypeOK
    OBVIOUS
  <2>1. DOMAIN part = Parts
    BY DEF AccountInv, IInv
  <2>2. errors \in 0 .. MaxErrors
    BY EncodingAssumption DEF AccountInv, Bounds
  <2>3. ASSUME NEW m \in Media
        PROVE  /\ frames[m] \in 0 .. MaxFrames /\ lost[m] \subseteq 1 .. MaxFrames
               /\ \A i \in DOMAIN stream[m] : stream[m][i] \in Packet
    <3>1. /\ Settled(m) /\ frames[m] \in Nat /\ frames[m] <= MaxFrames /\ MaxFrames \in Nat
      BY EncodingAssumption DEF AccountInv, Settled, Bounds
    <3>2. 1 .. frames[m] \subseteq 1 .. MaxFrames
      BY <3>1
    <3>3. lost[m] \subseteq 1 .. frames[m] /\ Within(FramesOf(stream[m]), frames[m])
      BY <3>1 DEF Settled, Account
    <3>4. ASSUME NEW i \in DOMAIN stream[m]
          PROVE  stream[m][i] \in Packet
      <4>1. stream[m] \in Seq(AnyPacket)
        BY <3>1 DEF Settled
      <4>2. i \in 1 .. Len(stream[m]) /\ stream[m][i] \in AnyPacket
        BY <4>1, ElementOfSeq, LenProperties
      <4>3. stream[m][i].frame \in 1 .. frames[m]
        BY <3>3, <4>1, <4>2, FramesOfType DEF Within, FramesOf
      <4> QED
        BY <3>2, <4>2, <4>3 DEF AnyPacket, Packet
    <3> QED
      BY <3>1, <3>2, <3>3, <3>4
  <2> QED
    BY <2>1, <2>2, <2>3 DEF TypeOK, Bounds, AccountInv, Functions
<1> QED
  BY <1>1, <1>2, InitAccount, NextAccount, NextBounds, PTL DEF EncodingSpec

-----------------------------------------------------------------------------
(* What is in the dump files: headers are sequences of bytes. *)
Entry == Seq(Int) \cup AnyPacket

ParamsKept ==
  Has("h264") =>
    /\ part["h264"].params = Split(part["h264"].extradata)
    /\ \E set \in ParamSets : part["h264"].extradata = Extradata(set[1], set[2])

NothingYet ==
  stage # "running" =>
    /\ \A m \in Media : stream[m] = <<>>
    /\ \A m \in Media : file[m].data = <<>> /\ ~file[m].open

AudioDump ==
  LET d == file["audio"].data
      n == Len(stream["audio"])
  IN  /\ d \in Seq(Entry) /\ Len(d) = 2 * n
      /\ \A i \in 1 .. n :
           /\ d[2 * i] = stream["audio"][i]
           /\ d[2 * i - 1] = AdtsHeader(part.aac, stream["audio"][i].size)

VideoDump ==
  /\ ~file["video"].open => stream["video"] = <<>>
  /\ file["video"].data =
       IF file["video"].open THEN <<part.h264.extradata>> \o stream["video"]
       ELSE <<>>

DumpInv ==
  /\ AccountInv /\ ParamsKept /\ NothingYet
  /\ file = [m \in Media |-> file[m]]
  /\ AudioDump /\ VideoDump

(* The extradata is that of one of the codec's parameter sets. *)
LEMMA ParamsStay ==
  ASSUME IInv, ParamsKept, [EncodingNext]_<<config, encoding>>
  PROVE  ParamsKept'
<1>1. CASE UNCHANGED config
  BY <1>1 DEF config, ParamsKept, Has
<1>2. CASE Choose \/ SetOwn \/ Fail
  <2>1. stage' \in {"main", "audio_encoder", "failed"}
    BY <1>2 DEF Choose, SetOwn, Fail
  <2> QED
    BY <2>1 DEF ParamsKept, Has
<1>3. CASE InitAudioEncoder /\ ~Fail
  <2>1. stage' = "video_encoder"
    BY <1>3 DEF InitAudioEncoder, Build
  <2> QED
    BY <2>1 DEF ParamsKept, Has
<1>4. CASE InitVideoEncoder /\ ~Fail
  <2> DEFINE made(set) == [width |-> Members.width, height |-> Members.height,
                           fps |-> Members.fps,
                           extradata |-> Extradata(set[1], set[2]),
                           params |-> Split(Extradata(set[1], set[2]))]
  <2>1. PICK set \in ParamSets : Build("h264", made(set), "audio_frame")
    BY <1>4 DEF InitVideoEncoder, GetProperty
  <2>2. part'["h264"] = made(set)
    BY <2>1 DEF Build, IInv, Parts
  <2>3. /\ made(set).extradata = Extradata(set[1], set[2])
        /\ made(set).params = Split(Extradata(set[1], set[2]))
    OBVIOUS
  <2> HIDE DEF made
  <2>4. /\ part'["h264"].extradata = Extradata(set[1], set[2])
        /\ part'["h264"].params = Split(Extradata(set[1], set[2]))
    BY <2>2, <2>3
  <2> QED
    BY <2>4 DEF ParamsKept
<1>5. CASE (InitAudioFrame \/ InitPusher \/ InitAudioCapturer \/ InitVideoCapturer)
           /\ ~Fail
  <2>1. /\ stage \in {"audio_frame", "pusher", "audio_capturer", "video_capturer"}
        /\ \E name \in {"frame", "pusher", "pcm", "yuv"} : \E made, next :
             part' = [part EXCEPT ![name] = made]
    BY <1>5 DEF InitAudioFrame, InitPusher, InitAudioCapturer, InitVideoCapturer, Build
  <2>2. part'["h264"] = part["h264"] /\ Has("h264")
    BY <2>1 DEF IInv, Parts, Has
  <2> QED
    BY <2>2 DEF ParamsKept
<1> QED
  BY <1>1, <1>2, <1>3, <1>4, <1>5
     DEF EncodingNext, Configure, PcmCallback, YuvCallback, Deliver, config

(* Two entries are written behind what is there. *)
LEMMA TwoWritten ==
  ASSUME NEW d \in Seq(Entry), NEW x \in Entry, NEW y \in Entry
  PROVE  LET e == d \o <<>> \o <<x, y>>
         IN  /\ e \in Seq(Entry) /\ Len(d) \in Nat /\ Len(e) = Len(d) + 2
             /\ \A i \in 1 .. Len(d) : e[i] = d[i]
             /\ e[Len(d) + 1] = x /\ e[Len(d) + 2] = y
<1> DEFINE two == <<x, y>>
           e == d \o two
<1>1. d \o <<>> = d
  BY ConcatEmptySeq
<1>2. two \in Seq(Entry) /\ Len(two) = 2 /\ two[1] = x /\ two[2] = y
  OBVIOUS
<1> HIDE DEF two
<1>3. /\ e \in Seq(Entry) /\ Len(e) = Len(d) + Len(two) /\ Len(d) \in Nat
      /\ \A i \in 1 .. Len(d) + Len(two) :
           e[i] = IF i <= Len(d) THEN d[i] ELSE two[i - Len(d)]
  BY <1>2, ConcatProperties, LenProperties
<1> HIDE DEF e
<1>4. e[Len(d) + 1] = x /\ e[Len(d) + 2] = y
  <2>1. e[Len(d) + 1] = two[1]
    BY <1>2, <1>3
  <2>2. e[Len(d) + 2] = two[2]
    BY <1>2, <1>3
  <2> QED
    BY <1>2, <2>1, <2>2
<1>5. \A i \in 1 .. Len(d) : e[i] = d[i]
  BY <1>2, <1>3
<1> QED
  BY <1>1, <1>2, <1>3, <1>4, <1>5 DEF e, two

(* A header is bytes. *)
LEMMA HeaderEntry ==
  ASSUME IInv, stage = "running", NEW s \in Int
  PROVE  AdtsHeader(part.aac, s) \in Entry
<1>1. HasFreqIdx(part.aac.sample_rate) /\ part.aac.channels \in 1 .. 8
  BY NeverRefused
<1>2. FreqIdx(part.aac.sample_rate) \in Int
  <2>1. DOMAIN Rates \subseteq Int
    BY DEF Rates
  <2>2. (CHOOSE i \in DOMAIN Rates : Rates[i] = part.aac.sample_rate) \in DOMAIN Rates
    BY <1>1 DEF HasFreqIdx
  <2> QED
    BY <2>1, <2>2 DEF FreqIdx
<1> DEFINE frequency == FreqIdx(part.aac.sample_rate)
           channels  == part.aac.channels
           length    == FrameLength(s)
           h1 == Byte(64 + frequency * 4 + channels \div 4)
           h2 == Byte((channels % 4) * 64 + length \div 2048)
           h3 == (length % 2048) \div 8
           h4 == (length % 8) * 32 + 31
<1>3. length \in Int
  BY DEF FrameLength
<1>4. AdtsHeader(part.aac, s) = <<h1, h2, h3, h4>>
  BY DEF AdtsHeader
<1> HIDE DEF frequency, channels, length
<1>5. h1 \in Int /\ h2 \in Int /\ h3 \in Int /\ h4 \in Int
  BY <1>1, <1>2, <1>3 DEF Byte, frequency, channels
<1> HIDE DEF h1, h2, h3, h4
<1> QED
  BY <1>4, <1>5 DEF Entry

(* The files are not open when main begins. *)
LEMMA InitDump == EncodingInit => DumpInv
<1> SUFFICES ASSUME EncodingInit
             PROVE  DumpInv
  OBVIOUS
<1>1. /\ stage = "main" /\ stream = [m \in Media |-> <<>>]
      /\ file = [m \in Media |-> [open |-> FALSE, data |-> <<>>]]
  BY DEF EncodingInit, Init
<1>2. ParamsKept
  BY <1>1 DEF ParamsKept, Has
<1>3. \A m \in Media : file[m].data = <<>> /\ ~file[m].open /\ stream[m] = <<>>
  BY <1>1
<1>4. AudioDump
  <2>1. <<>> \in Seq(Entry) /\ Len(<<>>) = 0 /\ Len(<<>>) = 2 * Len(<<>>)
    OBVIOUS
  <2>2. file["audio"].data = <<>> /\ stream["audio"] = <<>> /\ 1 .. Len(<<>>) = {}
    BY <1>3 DEF Media
  <2> QED
    BY <2>1, <2>2 DEF AudioDump
<1>5. NothingYet /\ VideoDump
  BY <1>3 DEF NothingYet, VideoDump, Media
<1>6. file = [m \in Media |-> file[m]]
  BY <1>1
<1> QED
  BY <1>2, <1>4, <1>5, <1>6, InitAccount DEF DumpInv

(* A packet of audio is written behind its header. *)
LEMMA AudioWritten ==
  ASSUME DumpInv, AccountInv', stage = "running", part' = part,
         NEW s \in PacketSizes, PacketSizes \subseteq Int, NEW f \in Nat,
         LET p == [frame |-> f, size |-> s]
         IN  /\ stream' = [stream EXCEPT !["audio"] = Append(@, p)]
             /\ Write("audio", <<AdtsHeader(part.aac, s), p>>)
  PROVE  AudioDump' /\ file' = [m \in Media |-> file'[m]] /\ VideoDump'
<1> DEFINE p == [frame |-> f, size |-> s]
           d == file["audio"].data
           packets == stream["audio"]
           n == Len(packets)
           x == AdtsHeader(part.aac, s)
           d2 == d \o <<>> \o <<x, p>>
<1>1. p \in AnyPacket /\ p \in Entry /\ x \in Entry /\ p.size = s
  BY HeaderEntry DEF AnyPacket, Entry, DumpInv, AccountInv
<1>2. /\ "audio" \in Media /\ "video" \in Media
      /\ file = [m \in Media |-> file[m]] /\ stream = [m \in Media |-> stream[m]]
      /\ packets \in Seq(AnyPacket)
  BY DEF Media, DumpInv, AccountInv, Functions, Settled
<1>3. Preamble("audio") = <<>>
  BY DEF Preamble
<1>4. /\ file' = [file EXCEPT !["audio"] = [open |-> TRUE, data |-> d2]]
      /\ stream' = [stream EXCEPT !["audio"] = Append(packets, p)]
  BY <1>3 DEF Write
<1>5. /\ d \in Seq(Entry) /\ Len(d) = 2 * n
      /\ \A i \in 1 .. n : /\ d[2 * i] = packets[i]
                           /\ d[2 * i - 1] = AdtsHeader(part.aac, packets[i].size)
  BY DEF DumpInv, AudioDump
<1>6. /\ d2 \in Seq(Entry) /\ Len(d) \in Nat /\ Len(d2) = Len(d) + 2
      /\ \A i \in 1 .. Len(d) : d2[i] = d[i]
      /\ d2[Len(d) + 1] = x /\ d2[Len(d) + 2] = p
  <2> HIDE DEF x, p, d
  <2> QED
    BY <1>1, <1>5, TwoWritten
<1>7. /\ Len(Append(packets, p)) = n + 1 /\ n \in Nat
      /\ \A i \in 1 .. n : Append(packets, p)[i] = packets[i]
      /\ Append(packets, p)[n + 1] = p
  <2> HIDE DEF p, packets
  <2> QED
    BY <1>1, <1>2, AppendProperties, LenProperties
<1>8. /\ file'["audio"].data = d2 /\ stream'["audio"] = Append(packets, p)
      /\ file'["video"] = file["video"] /\ stream'["video"] = stream["video"]
      /\ file' = [m \in Media |-> file'[m]]
  <2> HIDE DEF d2, p
  <2> QED
    BY <1>2, <1>4
<1> HIDE DEF d, d2, packets, n, p, x
<1>9. ASSUME NEW i \in 1 .. n + 1
      PROVE  /\ d2[2 * i] = Append(packets, p)[i]
             /\ d2[2 * i - 1] = AdtsHeader(part.aac, Append(packets, p)[i].size)
  <2>1. CASE i = n + 1
    <3>1. 2 * i = Len(d) + 2 /\ 2 * i - 1 = Len(d) + 1
      BY <1>5, <1>7, <2>1 DEF n
    <3> QED
      BY <1>1, <1>6, <1>7, <2>1, <3>1 DEF x
  <2>2. CASE i \in 1 .. n
    <3>1. 2 * i \in 1 .. Len(d) /\ 2 * i - 1 \in 1 .. Len(d)
      BY <1>5, <1>7, <2>2 DEF n
    <3> QED
      BY <1>5, <1>6, <1>7, <2>2, <3>1
  <2> QED
    BY <1>7, <2>1, <2>2
<1>10. AudioDump'
  <2>1. Len(d2) = 2 * (n + 1)
    BY <1>5, <1>6, <1>7
  <2> QED
    BY <1>6, <1>7, <1>8, <1>9, <2>1 DEF AudioDump
<1>11. VideoDump'
  BY <1>8 DEF VideoDump, DumpInv
<1> QED
  BY <1>8, <1>10, <1>11

(* A packet of video is written behind what is there, the first behind the *)
(* parameter sets.                                                         *)
LEMMA VideoWritten ==
  ASSUME DumpInv, stage = "running", part' = part,
         NEW s \in PacketSizes, NEW f \in Nat,
         LET p == [frame |-> f, size |-> s]
         IN  /\ stream' = [stream EXCEPT !["video"] = Append(@, p)]
             /\ Write("video", <<p>>)
  PROVE  AudioDump' /\ file' = [m \in Media |-> file'[m]] /\ VideoDump'
<1> DEFINE p == [frame |-> f, size |-> s]
           d == file["video"].data
           packets == stream["video"]
           x == part.h264.extradata
           S == {x} \cup AnyPacket
           d2 == d \o Preamble("video") \o <<p>>
<1>1. p \in AnyPacket /\ p \in S /\ x \in S
  BY DEF AnyPacket
<1>2. /\ "audio" \in Media /\ "video" \in Media
      /\ file = [m \in Media |-> file[m]] /\ stream = [m \in Media |-> stream[m]]
      /\ packets \in Seq(AnyPacket)
  BY DEF Media, DumpInv, AccountInv, Functions, Settled
<1>3. Extradata(part.h264.params[1], part.h264.params[2]) = x
  <2>1. /\ part.h264.params = Split(x)
        /\ \E set \in ParamSets : x = Extradata(set[1], set[2])
    BY DEF DumpInv, ParamsKept, Has
  <2>2. PICK set \in ParamSets : x = Extradata(set[1], set[2])
    BY <2>1
  <2>3. set[1] \in Seq(0 .. 255) /\ set[2] \in Seq(0 .. 255)
    BY ConfigurationAssumption
  <2> HIDE DEF x
  <2>4. Extradata(Split(x)[1], Split(x)[2]) = x
    BY <2>2, <2>3, SplitJoins
  <2> QED
    BY <2>1, <2>4
<1>4. /\ file' = [file EXCEPT !["video"] = [open |-> TRUE, data |-> d2]]
      /\ stream' = [stream EXCEPT !["video"] = Append(packets, p)]
  BY DEF Write
<1>5. /\ file'["video"].data = d2 /\ file'["video"].open
      /\ stream'["video"] = Append(packets, p)
      /\ file'["audio"] = file["audio"] /\ stream'["audio"] = stream["audio"]
      /\ file' = [m \in Media |-> file'[m]]
  <2> HIDE DEF d2, p
  <2> QED
    BY <1>2, <1>4
<1>6. AudioDump'
  BY <1>5 DEF DumpInv, AudioDump
<1>7. packets \in Seq(S) /\ <<x>> \in Seq(S) /\ <<p>> \in Seq(S)
      /\ Append(packets, p) = packets \o <<p>>
  <2>1. packets \in Seq(S)
    <3> HIDE DEF packets
    <3> QED
      BY <1>2, SeqMonotonic
  <2>2. <<x>> \in Seq(S) /\ <<p>> \in Seq(S)
    <3> HIDE DEF x, p, S
    <3> QED
      BY <1>1
  <2> HIDE DEF p, packets, S
  <2> QED
    BY <1>1, <2>1, <2>2, AppendIsConcat
<1>8. d2 = <<x>> \o Append(packets, p)
  <2>1. CASE file["video"].open
    <3>1. Preamble("video") = <<>> /\ d = <<x>> \o packets
      BY <2>1 DEF Preamble, DumpInv, VideoDump
    <3>2. (<<x>> \o packets) \o <<p>> = <<x>> \o (packets \o <<p>>)
      <4> HIDE DEF p, packets, x, S
      <4> QED
        BY <1>7, ConcatAssociative
    <3>3. (<<x>> \o packets) \o <<>> = <<x>> \o packets
      <4> HIDE DEF p, packets, x, S
      <4>1. <<x>> \o packets \in Seq(S)
        BY <1>7, ConcatProperties
      <4> QED
        BY <4>1, ConcatEmptySeq
    <3> HIDE DEF p, packets, x, d
    <3> QED
      BY <1>7, <3>1, <3>2, <3>3
  <2>2. CASE ~file["video"].open
    <3>1. Preamble("video") = <<x>> /\ d = <<>> /\ packets = <<>>
      BY <1>3, <2>2 DEF Preamble, DumpInv, VideoDump
    <3>2. <<>> \o <<x>> = <<x>> /\ <<>> \o <<p>> = <<p>>
      <4> HIDE DEF p, packets, x, S
      <4> QED
        BY <1>7, ConcatEmptySeq
    <3> HIDE DEF p, packets, x, d
    <3> QED
      BY <1>7, <3>1, <3>2
  <2> QED
    BY <2>1, <2>2
<1>9. VideoDump'
  <2> HIDE DEF d2, p, packets
  <2> QED
    BY <1>5, <1>8 DEF VideoDump
<1> QED
  BY <1>5, <1>6, <1>9

(* A packet pushed is a packet written; a packet dropped is neither. *)
LEMMA NextDump ==
  ASSUME PacketSizes \subseteq Int
  PROVE  DumpInv /\ [EncodingNext]_<<config, encoding>> => DumpInv'
<1> SUFFICES ASSUME DumpInv, [EncodingNext]_<<config, encoding>>
             PROVE  DumpInv'
  OBVIOUS
<1>1. AccountInv' /\ ParamsKept'
  BY NextAccount, ParamsStay DEF DumpInv, AccountInv
<1>2. CASE UNCHANGED <<config, encoding>>
  <2>1. UNCHANGED <<stage, part, file, stream>>
    BY <1>2 DEF config, encoding
  <2> QED
    BY <1>1, <2>1 DEF DumpInv, NothingYet, AudioDump, VideoDump
<1>3. CASE Configure /\ UNCHANGED encoding
  <2>1. stage # "running" /\ UNCHANGED <<file, stream>>
    BY <1>3 DEF Configure, encoding, Choose, SetOwn, InitAudioEncoder,
       InitVideoEncoder, InitAudioFrame, InitPusher, InitAudioCapturer,
       InitVideoCapturer
  <2>2. \A m \in Media : stream'[m] = <<>> /\ file'[m].data = <<>> /\ ~file'[m].open
    BY <2>1 DEF DumpInv, NothingYet
  <2>3. NothingYet' /\ VideoDump'
    BY <2>2 DEF NothingYet, VideoDump, Media
  <2>4. AudioDump'
    <3>1. <<>> \in Seq(Entry) /\ Len(<<>>) = 0 /\ Len(<<>>) = 2 * Len(<<>>)
      OBVIOUS
    <3>2. file'["audio"].data = <<>> /\ stream'["audio"] = <<>> /\ 1 .. Len(<<>>) = {}
      BY <2>2 DEF Media
    <3> QED
      BY <3>1, <3>2 DEF AudioDump
  <2> QED
    BY <1>1, <2>1, <2>3, <2>4 DEF DumpInv
<1>4. CASE PcmCallback \/ YuvCallback
  <2>1. PICK m \in Media :
          (m = "audio" /\ PcmCallback) \/ (m = "video" /\ YuvCallback)
    BY <1>4 DEF Media
  <2>2. Effect(m)
    BY <2>1, CallbackEffect DEF DumpInv
  <2>3. stage = "running" /\ stage' = "running" /\ part' = part
    BY <2>2 DEF Effect, config
  <2>4. NothingYet'
    BY <2>3 DEF NothingYet
  <2>5. CASE UNCHANGED <<file, stream>>
    BY <1>1, <2>3, <2>4, <2>5 DEF DumpInv, AudioDump, VideoDump
  <2>6. CASE PacketPushed(m)
    <3>1. PICK s \in PacketSizes :
            LET p == [frame |-> Head(Into(m)), size |-> s]
            IN  /\ stream' = [stream EXCEPT ![m] = Append(@, p)]
                /\ Write(m, IF m = "audio" THEN <<AdtsHeader(part.aac, s), p>>
                            ELSE <<p>>)
      BY <2>6 DEF PacketPushed
    <3>2. Head(Into(m)) \in Nat
      <4>0. Settled(m)
        BY DEF DumpInv, AccountInv
      <4>1. codec[m].inside \in Seq(Nat) /\ frames[m] + 1 \in Nat
        BY <4>0 DEF Settled
      <4>2. Into(m) \in Seq(Nat) /\ Into(m) # <<>>
        <5>1. /\ Into(m) \in Seq(Nat) /\ Len(codec[m].inside) \in Nat
              /\ Len(Into(m)) = Len(codec[m].inside) + 1
          BY <4>1, Appended DEF Into
        <5> QED
          BY <5>1
      <4> QED
        BY <4>2, Tailed
    <3>3. CASE m = "audio"
      BY <1>1, <2>3, <2>4, <3>1, <3>2, <3>3, AudioWritten DEF DumpInv
    <3>4. CASE m = "video"
      BY <1>1, <2>3, <2>4, <3>1, <3>2, <3>4, VideoWritten DEF DumpInv
    <3> QED
      BY <3>3, <3>4 DEF Media
  <2> QED
    BY <2>2, <2>5, <2>6 DEF Effect, FrameRefused, FrameTaken, PacketDropped, Dropped
<1> QED
  BY <1>2, <1>3, <1>4 DEF EncodingNext

(* A header written for a packet says what the encoder is set to. *)
LEMMA HeaderFound ==
  ASSUME IInv, stage = "running", NEW s \in Countable, part.aac.channels < 8
  PROVE  ReadAdts(AdtsHeader(part.aac, s)) =
           [rate |-> part.aac.sample_rate, channels |-> part.aac.channels, size |-> s]
<1>1. HasFreqIdx(part.aac.sample_rate) /\ part.aac.channels \in 0 .. 7
  BY NeverRefused
<1>2. PICK k \in 1 .. 13 : /\ FreqIdx(part.aac.sample_rate) = k - 1
                           /\ Rates[k] = part.aac.sample_rate
  <2> DEFINE at == CHOOSE i \in DOMAIN Rates : Rates[i] = part.aac.sample_rate
  <2>1. at \in DOMAIN Rates /\ Rates[at] = part.aac.sample_rate
    BY <1>1 DEF HasFreqIdx
  <2>2. DOMAIN Rates = 1 .. 13
    BY DEF Rates
  <2>3. FreqIdx(part.aac.sample_rate) = at - 1
    BY DEF FreqIdx
  <2> HIDE DEF at
  <2> QED
    BY <2>1, <2>2, <2>3
<1>3. ReadAdts(AdtsHeader(part.aac, s)) =
        [rate |-> Rates[k], channels |-> part.aac.channels, size |-> s]
  <2> DEFINE aac == part.aac
             channels == aac.channels
  <2>1. aac.channels = channels /\ channels \in 0 .. 7
        /\ FreqIdx(aac.sample_rate) = k - 1
    BY <1>1, <1>2
  <2> HIDE DEF aac, channels
  <2>2. ReadAdts(AdtsHeader(aac, s)) =
          [rate |-> Rates[k], channels |-> channels, size |-> s]
    BY <2>1, HeaderReadsBack, Zenon
  <2> QED
    BY <2>2 DEF aac, channels
<1> QED
  BY <1>2, <1>3

(* The files as a reader finds them. *)
LEMMA DumpReads ==
  ASSUME DumpInv, \A s \in PacketSizes : s \in Countable
  PROVE  DumpReadsBack
<1> DEFINE d == file["audio"].data
           n == Len(stream["audio"])
<1>0. AudioDump /\ VideoDump
  BY DEF DumpInv
<1>1. \A i \in 1 .. n :
        /\ d[2 * i] = stream["audio"][i]
        /\ d[2 * i - 1] = AdtsHeader(part.aac, stream["audio"][i].size)
  BY <1>0 DEF AudioDump
<1> HIDE DEF d
<1>4. stream["audio"] \in Seq(AnyPacket) /\ (stream["audio"] # <<>> => stage = "running")
  <2>1. "audio" \in Media
    BY DEF Media
  <2>2. Settled("audio")
    BY <2>1 DEF DumpInv, AccountInv
  <2> QED
    BY <2>1, <2>2 DEF Settled, DumpInv, NothingYet
<1>5. ASSUME NEW i \in 1 .. n, part.aac.channels < 8
      PROVE  ReadAdts(d[2 * i - 1]) =
               [rate |-> part.aac.sample_rate,
                channels |-> part.aac.channels, size |-> d[2 * i].size]
  <2>1. stream["audio"][i] \in AnyPacket /\ stream["audio"] # <<>>
    BY <1>4, ElementOfSeq
  <2>2. stream["audio"][i].size \in Countable
    <3>1. stream["audio"][i].size \in PacketSizes
      BY <2>1, PacketType
    <3> QED
      BY <3>1
  <2>3. IInv /\ stage = "running"
    BY <1>4, <2>1 DEF DumpInv, AccountInv
  <2>4. ReadAdts(AdtsHeader(part.aac, stream["audio"][i].size)) =
          [rate |-> part.aac.sample_rate, channels |-> part.aac.channels,
           size |-> stream["audio"][i].size]
    <3> DEFINE s == stream["audio"][i].size
    <3>1. s \in Countable
      BY <2>2
    <3> HIDE DEF s
    <3>2. ReadAdts(AdtsHeader(part.aac, s)) =
            [rate |-> part.aac.sample_rate, channels |-> part.aac.channels,
             size |-> s]
      BY <1>5, <2>3, <3>1, HeaderFound
    <3> QED
      BY <3>2 DEF s
  <2> HIDE DEF n
  <2> QED
    BY <1>1, <2>4
<1>2. Len(d) = 2 * n
  BY <1>0 DEF AudioDump, d
<1>3. file["video"].data =
        IF file["video"].open THEN <<part.h264.extradata>> \o stream["video"]
        ELSE <<>>
  BY <1>0 DEF VideoDump
<1> QED
  BY <1>1, <1>2, <1>3, <1>5 DEF DumpReadsBack, d

(* Every packet that 13 bits can count with its header is found again in   *)
(* dump.aac, with its rate, channels (but for eight) and size, and         *)
(* dump.h264 is the codec's parameter sets and what was pushed, for any    *)
(* parameter sets.                                                         *)
THEOREM DumpAlwaysReadsBack ==
  ASSUME PacketSizes \subseteq Countable
  PROVE  EncodingSpec => []DumpReadsBack
<1>1. DumpInv => DumpReadsBack
  BY DumpReads
<1>2. PacketSizes \subseteq Int
  BY DEF Countable
<1>3. DumpInv /\ [EncodingNext]_<<config, encoding>> => DumpInv'
  BY <1>2, NextDump
<1> QED
  BY <1>1, <1>3, InitDump, PTL DEF EncodingSpec
===============================================================================
