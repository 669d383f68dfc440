--------------------------- MODULE LiveSourceProofs ---------------------------
(***************************************************************************)
(* For every frame duration, every scale and however the frames come: the  *)
(* pts neither drifts from the clock nor goes back by half a frame.  For   *)
(* every jitter of the threads and a clock that is set back: the pts of a  *)
(* live source increases while its frames are not late, and is corrected   *)
(* once at most.                                                           *)
(***************************************************************************)
EXTENDS LiveSource, TLAPS

-----------------------------------------------------------------------------
(* The publish time by itself: the specification Spec of PublishTime. *)

(* A whole number of milliseconds is what it was, in units and back.       *)
LEMMA WholeOfWhole ==
  ASSUME NEW n \in Nat
  PROVE  n * Scale \in Nat /\ Whole(n * Scale) = n
<1> QED
  BY PublishTimeAssumption DEF Whole

(* More units are not fewer milliseconds.                                  *)
LEMMA WholeMonotone ==
  ASSUME NEW x \in Nat, NEW y \in Nat, x <= y
  PROVE  Whole(x) <= Whole(y)
<1> QED
  BY PublishTimeAssumption DEF Whole

(* What is left of a number when it wraps around.                          *)
LEMMA Wrapped ==
  ASSUME NEW n \in Nat
  PROVE  n % Wrap \in Nat /\ n % Wrap <= n /\ (n < Wrap => n % Wrap = n)
<1> QED
  BY PublishTimeAssumption

(* The whole milliseconds of a natural number of units are one.            *)
LEMMA WholeType ==
  ASSUME NEW x \in Nat
  PROVE  Whole(x) \in Nat
<1> QED
  BY PublishTimeAssumption DEF Whole

(* A call leaves a pts that is the clock's, or within half a frame of it.  *)
LEMMA NextPreFacts ==
  ASSUME TypeOK, NEW m \in Media
  PROVE  /\ Expected(m) \in Nat /\ pre_pts[m] <= Expected(m)
         /\ NextPre(m) \in Nat
         /\ \/ NextPre(m) = Expected(m)
            \/ Whole(NextPre(m)) = now
         /\ \/ Whole(NextPre(m)) = now
            \/ Distance(Whole(NextPre(m)), now) < Threshold(m)
<1>1. /\ Expected(m) \in Nat /\ pre_pts[m] <= Expected(m)
      /\ now \in Nat /\ Whole(Expected(m)) \in Nat
  <2>1. pre_pts[m] \in Nat /\ FrameDuration[m] \in Nat /\ now \in Nat
    BY PublishTimeAssumption DEF TypeOK
  <2>2. Expected(m) \in Nat /\ pre_pts[m] <= Expected(m)
    BY <2>1 DEF Expected
  <2> QED
    BY <2>1, <2>2, WholeType
<1>2. CASE OnTime(m)
  <2>1. NextPre(m) = Expected(m)
    BY <1>2 DEF NextPre
  <2>2. Distance(Whole(Expected(m)), now) = Distance(now, Whole(Expected(m)))
    BY <1>1 DEF Distance
  <2> QED
    BY <1>1, <1>2, <2>1, <2>2 DEF OnTime
<1>3. CASE ~OnTime(m)
  <2>1. NextPre(m) = now * Scale
    BY <1>3 DEF NextPre
  <2> QED
    BY <1>1, <2>1, WholeOfWhole
<1> QED
  BY <1>2, <1>3

(* Every call and every tick keeps the type and the distance to the clock. *)
LEMMA NextIInv == IInv /\ [Next]_vars => IInv'
<1> SUFFICES ASSUME IInv, [Next]_vars
             PROVE  IInv'
  OBVIOUS
<1>1. TypeOK /\ NearClock
  BY DEF IInv
<1>2. CASE Pass \/ SetBack
  <2>1. now' \in Nat
    BY <1>1, <1>2, PublishTimeAssumption DEF Pass, SetBack, TypeOK
  <2>2. UNCHANGED <<pre_pts, pts, last>>
    BY <1>2 DEF Pass, SetBack
  <2>3. TypeOK'
    BY <1>1, <2>1, <2>2 DEF TypeOK
  <2>4. NearClock'
    BY <1>1, <2>2 DEF NearClock
  <2> QED
    BY <2>3, <2>4 DEF IInv
<1>3. ASSUME NEW m \in Media, GetPts(m)
      PROVE  IInv'
  <2>1. /\ NextPre(m) \in Nat
        /\ \/ Whole(NextPre(m)) = now
           \/ Distance(Whole(NextPre(m)), now) < Threshold(m)
    BY <1>1, NextPreFacts
  <2>2. /\ pre_pts' = [pre_pts EXCEPT ![m] = NextPre(m)]
        /\ pts' = [pts EXCEPT ![m] = Whole(NextPre(m)) % Wrap]
        /\ last' = [last EXCEPT ![m] = now]
        /\ now' = now
    BY <1>3 DEF GetPts
  <2>3. Whole(NextPre(m)) % Wrap \in Nat
    BY <2>1, WholeType, Wrapped
  <2>4. TypeOK'
    <3>1. now \in Nat
      BY <1>1 DEF TypeOK
    <3>2. pre_pts' \in [Media -> Nat] /\ pts' \in [Media -> Nat]
          /\ last' \in [Media -> Nat]
      BY <1>1, <2>1, <2>2, <2>3, <3>1 DEF TypeOK
    <3>3. ASSUME NEW n \in Media
          PROVE  pts'[n] = Whole(pre_pts'[n]) % Wrap
      BY <1>1, <2>2, <3>1 DEF TypeOK
    <3> QED
      BY <2>2, <3>1, <3>2, <3>3 DEF TypeOK
  <2>5. NearClock'
    <3>1. ASSUME NEW n \in Media
          PROVE  \/ Whole(pre_pts'[n]) = last'[n]
                 \/ Distance(Whole(pre_pts'[n]), last'[n]) < Threshold(n)
      <4>1. CASE n = m
        BY <1>1, <2>1, <2>2, <4>1 DEF TypeOK
      <4>2. CASE n # m
        BY <1>1, <2>2, <4>2 DEF TypeOK, NearClock
      <4> QED
        BY <4>1, <4>2
    <3> QED
      BY <3>1 DEF NearClock
  <2> QED
    BY <2>4, <2>5 DEF IInv
<1>4. CASE UNCHANGED vars
  BY <1>1, <1>4 DEF IInv, TypeOK, NearClock, vars
<1> QED
  BY <1>2, <1>3, <1>4 DEF Next

(* The first pts is that of instant 0.                                     *)
LEMMA InitIInv == Init => IInv
<1> SUFFICES ASSUME Init PROVE IInv
  OBVIOUS
<1>1. Whole(0) = 0 /\ 0 % Wrap = 0
  BY PublishTimeAssumption DEF Whole
<1> QED
  BY <1>1 DEF Init, IInv, TypeOK, NearClock

-----------------------------------------------------------------------------
(* The pts keeps within half a frame of the clock, however long the        *)
(* session and however irregular the capturers.                            *)
THEOREM PtsNeverDrifts == Spec => []NearClock
<1>1. IInv => NearClock
  BY DEF IInv
<1> QED
  BY InitIInv, NextIInv, <1>1, PTL DEF Spec

(* The type invariant of PublishTime. *)
THEOREM PtsTypeCorrect == Spec => []TypeOK
<1>1. IInv => TypeOK
  BY DEF IInv
<1> QED
  BY InitIInv, NextIInv, <1>1, PTL DEF Spec

(* A call that stamps with the clock does so at or after the call before,  *)
(* whose pts was less than half a frame ahead.                             *)
LEMMA StepBack ==
  IInv /\ [Next]_vars
    => [\A m \in Media :
          Whole(pre_pts[m])' < Wrap /\ pts[m]' < pts[m] /\ last[m] <= now
            => pts[m] - pts[m]' < Threshold(m)]_vars
<1> SUFFICES ASSUME IInv, Next, NEW n \in Media,
                    Whole(pre_pts[n])' < Wrap, pts[n]' < pts[n],
                    last[n] <= now
             PROVE  pts[n] - pts[n]' < Threshold(n)
  OBVIOUS
<1>1. TypeOK /\ NearClock
  BY DEF IInv
<1>2. /\ pts[n] \in Nat /\ last[n] \in Nat /\ now \in Nat
      /\ pre_pts[n] \in Nat /\ pts[n] = Whole(pre_pts[n]) % Wrap
  BY <1>1 DEF TypeOK
<1>3. Whole(pre_pts[n]) \in Nat /\ pts[n] <= Whole(pre_pts[n])
  BY <1>2, WholeType, Wrapped
<1>4. \/ Whole(pre_pts[n]) = last[n]
      \/ Distance(Whole(pre_pts[n]), last[n]) < Threshold(n)
  BY <1>1 DEF NearClock
<1>5. Threshold(n) \in Int
  BY PublishTimeAssumption DEF Threshold, Whole
<1>6. CASE Pass \/ SetBack
  BY <1>2, <1>6 DEF Pass, SetBack
<1>7. ASSUME NEW m \in Media, GetPts(m)
      PROVE  pts[n] - pts[n]' < Threshold(n)
  <2>1. CASE n = m
    <3>1. pre_pts'[n] = NextPre(n) /\ pts'[n] = Whole(NextPre(n)) % Wrap
      BY <1>1, <1>7, <2>1 DEF GetPts, TypeOK
    <3>2. /\ NextPre(n) \in Nat /\ Whole(NextPre(n)) \in Nat
          /\ Expected(n) \in Nat /\ pre_pts[n] <= Expected(n)
          /\ NextPre(n) = Expected(n) \/ Whole(NextPre(n)) = now
      BY <1>1, NextPreFacts, WholeType
    <3>3. pts'[n] = Whole(NextPre(n))
      BY <3>1, <3>2, Wrapped
    <3>4. CASE NextPre(n) = Expected(n)
      <4>1. Whole(pre_pts[n]) <= Whole(NextPre(n))
        BY <1>2, <3>2, <3>4, WholeMonotone
      <4> QED
        BY <1>2, <1>3, <3>2, <3>3, <4>1
    <3>5. CASE Whole(NextPre(n)) = now
      BY <1>2, <1>3, <1>4, <1>5, <3>3, <3>5 DEF Distance
    <3> QED
      BY <3>2, <3>4, <3>5
  <2>2. CASE n # m
    <3>1. pts'[n] = pts[n]
      BY <1>1, <1>7, <2>2 DEF GetPts, TypeOK
    <3> QED
      BY <1>2, <3>1
  <2> QED
    BY <2>1, <2>2
<1> QED
  BY <1>6, <1>7 DEF Next

(* Until it wraps around, and while the clock does not go back, the pts of *)
(* a media never goes back by half a frame.                                *)
THEOREM PtsBacksLittle == Spec => BackLessThanHalf
<1> QED
  BY InitIInv, NextIInv, StepBack, PTL DEF Spec, BackLessThanHalf

-----------------------------------------------------------------------------
(* The live sources: LiveSpec. *)

(* What had been read before the frame that got the last pts.              *)
Before(m) == total[m] - (IF held[m] THEN 2 ELSE 1) * SourceDuration[m]

(* When that frame was due, in units, by the clock that was valid as the   *)
(* loop was entered.                                                       *)
DueTime(m) == begun[m] * Scale + Before(m)

(* A pts that no frame less than half a frame late can be too far off.     *)
Settled(m) ==
  /\ DueTime(m) - Scale < pre_pts[m]
  /\ pre_pts[m] <= DueTime(m) + (Threshold(m) - 2) * Scale

(* The types of a source, and what is true before its first frame.         *)
SourceType(m) ==
  /\ begun[m] \in Nat \cup {0 - 1} /\ total[m] \in Nat
  /\ held[m] \in BOOLEAN /\ first[m] \in BOOLEAN
  /\ prompt[m] \in BOOLEAN /\ timely[m] \in BOOLEAN
  /\ corrected[m] \in 0 .. 2
  /\ first[m] => pre_pts[m] = 0 /\ corrected[m] = 0
  /\ held[m] => begun[m] # 0 - 1 /\ SourceDuration[m] <= total[m]
  /\ ~first[m] => begun[m] # 0 - 1 /\ 0 <= Before(m)

(* The pts is at most a frame ahead of the time at which its frame was     *)
(* due, and a millisecond less if no frame was half a frame late.          *)
Ahead(m) ==
  ~first[m] /\ FrameDuration[m] <= SourceDuration[m] =>
    /\ prompt[m] => pre_pts[m] <= DueTime(m) + FrameDuration[m]
    /\ timely[m] => pre_pts[m] <= DueTime(m) + FrameDuration[m] - Scale

(* Once corrected it is settled. *)
Correction(m) ==
  timely[m] /\ SourceDuration[m] = FrameDuration[m] =>
    corrected[m] <= 1 /\ (corrected[m] = 1 => Settled(m))

(* The variables of LiveSource are functions of the media.                 *)
Shape ==
  /\ DOMAIN begun = Media /\ DOMAIN total = Media /\ DOMAIN held = Media
  /\ DOMAIN first = Media /\ DOMAIN prompt = Media /\ DOMAIN timely = Media
  /\ DOMAIN corrected = Media

SourceOK(m) == SourceType(m) /\ Ahead(m) /\ Correction(m)

(* The inductive invariant. *)
LiveInv == IInv /\ Shape /\ \A m \in Media : SourceOK(m)

-----------------------------------------------------------------------------
(* Milliseconds and units. *)

(* The whole milliseconds, by what they are and not by division.           *)
LEMMA WholeBounds ==
  ASSUME NEW x \in Int
  PROVE  /\ Whole(x) \in Int
         /\ Whole(x) * Scale <= x /\ x < Whole(x) * Scale + Scale
<1> QED
  BY PublishTimeAssumption DEF Whole

(* A number of milliseconds is not above the whole part of another if it   *)
(* is not above it in units, and conversely.                               *)
LEMMA BelowWhole ==
  ASSUME NEW n \in Int, NEW x \in Int
  PROVE  n <= Whole(x) <=> n * Scale <= x
<1>1. Scale \in Nat /\ Scale > 0
  BY PublishTimeAssumption
<1>2. Whole(x) \in Int /\ Whole(x) * Scale <= x /\ x < Whole(x) * Scale + Scale
  BY WholeBounds
<1>3. ASSUME n <= Whole(x)
      PROVE  n * Scale <= x
  <2>1. n * Scale <= Whole(x) * Scale
    BY <1>1, <1>2, <1>3
  <2> QED
    BY <1>1, <1>2, <2>1
<1>4. ASSUME Whole(x) + 1 <= n
      PROVE  x < n * Scale
  <2>1. (Whole(x) + 1) * Scale <= n * Scale
    BY <1>1, <1>2, <1>4
  <2> QED
    BY <1>1, <1>2, <2>1
<1> QED
  BY <1>1, <1>2, <1>3, <1>4

(* Half a frame is half a frame. *)
LEMMA TwoThresholds ==
  ASSUME NEW m \in Media
  PROVE  /\ Threshold(m) \in Nat
         /\ 2 * (Threshold(m) * Scale) <= FrameDuration[m]
<1>1. FrameDuration[m] \in Nat /\ FrameDuration[m] \div 2 \in Nat
      /\ 2 * (FrameDuration[m] \div 2) <= FrameDuration[m]
  BY PublishTimeAssumption
<1>2. Threshold(m) \in Nat
  BY <1>1, WholeType DEF Threshold
<1>3. Threshold(m) * Scale <= FrameDuration[m] \div 2
  BY <1>1, WholeBounds DEF Threshold
<1> QED
  BY <1>1, <1>2, <1>3, PublishTimeAssumption

-----------------------------------------------------------------------------
(* The call that gives a frame its pts. *)

(* When the frame in hand was due. *)
NextDue(m) == begun[m] * Scale + total[m] - SourceDuration[m]

(* The numbers of a frame in hand. *)
LEMMA InHand ==
  ASSUME TypeOK, NEW m \in Media, SourceType(m), held[m]
  PROVE  /\ now \in Nat /\ pre_pts[m] \in Nat /\ Scale \in Nat /\ 0 < Scale
         /\ FrameDuration[m] \in Nat /\ SourceDuration[m] \in Nat
         /\ NextDue(m) \in Nat
         /\ Lateness(m) = now - Whole(NextDue(m))
         /\ Expected(m) = pre_pts[m] + FrameDuration[m]
         /\ ~first[m] => DueTime(m) = NextDue(m) - SourceDuration[m]
<1>1. /\ now \in Nat /\ pre_pts[m] \in Nat /\ Scale \in Nat /\ 0 < Scale
      /\ FrameDuration[m] \in Nat /\ SourceDuration[m] \in Nat
      /\ begun[m] \in Nat /\ total[m] \in Nat
      /\ SourceDuration[m] <= total[m]
  BY PublishTimeAssumption, LiveSourceAssumption DEF TypeOK, SourceType
<1>2. begun[m] * Scale \in Nat
  BY <1>1
<1> DEFINE x == total[m] - SourceDuration[m]
<1>3. x \in Nat
  BY <1>1
<1>4. NextDue(m) = begun[m] * Scale + x /\ NextDue(m) \in Nat
  BY <1>1, <1>2 DEF NextDue
<1>5. /\ Whole(x) \in Int /\ Whole(x) * Scale <= x
      /\ x < Whole(x) * Scale + Scale
  BY <1>3, WholeBounds
<1>6. begun[m] + Whole(x) <= Whole(NextDue(m))
  <2>1. (begun[m] + Whole(x)) * Scale <= NextDue(m)
    BY <1>1, <1>2, <1>3, <1>4, <1>5
  <2> QED
    BY <1>1, <1>4, <1>5, <2>1, BelowWhole
<1>7. ~(begun[m] + Whole(x) + 1 <= Whole(NextDue(m)))
  <2>1. ~((begun[m] + Whole(x) + 1) * Scale <= NextDue(m))
    BY <1>1, <1>2, <1>3, <1>4, <1>5
  <2> QED
    BY <1>1, <1>4, <1>5, <2>1, BelowWhole
<1>8. Whole(NextDue(m)) \in Int
  BY <1>4, WholeBounds
<1>9. Lateness(m) = now - Whole(NextDue(m))
  BY <1>1, <1>5, <1>6, <1>7, <1>8 DEF Lateness
<1>10. DueTime(m) = NextDue(m) - SourceDuration[m]
  BY <1>1, <1>2, <1>4 DEF DueTime, Before
<1> QED
  BY <1>1, <1>4, <1>9, <1>10 DEF Expected

(* What a clock reading is worth in units, and how late a frame is.        *)
LEMMA Readings ==
  ASSUME TypeOK, NEW m \in Media, SourceType(m), held[m]
  PROVE  /\ InFrame(m) => /\ NextDue(m) - Scale < now * Scale
                          /\ now * Scale <= NextDue(m) + FrameDuration[m] - Scale
         /\ InHalf(m) => /\ NextDue(m) - Scale < now * Scale
                         /\ now * Scale <= NextDue(m) + Threshold(m) * Scale
                                             - 2 * Scale
<1> DEFINE w == Whole(NextDue(m))
           f == Whole(FrameDuration[m])
<1>1. /\ now \in Nat /\ Scale \in Nat /\ 0 < Scale /\ NextDue(m) \in Nat
      /\ FrameDuration[m] \in Nat /\ Lateness(m) = now - w
  BY InHand
<1>2. w \in Int /\ w * Scale <= NextDue(m) /\ NextDue(m) < w * Scale + Scale
  BY <1>1, WholeBounds
<1>3. f \in Int /\ f * Scale <= FrameDuration[m]
  BY <1>1, WholeBounds
<1>4. Threshold(m) \in Nat
  BY TwoThresholds
<1> HIDE DEF w, f
<1>5. ASSUME 0 <= now - w
      PROVE  w * Scale <= now * Scale
  BY <1>1, <1>2, <1>5
<1>6. ASSUME InFrame(m)
      PROVE  0 <= now - w /\ now * Scale <= w * Scale + f * Scale - Scale
  <2>1. 0 <= now - w /\ now <= w + f - 1
    BY <1>1, <1>2, <1>3, <1>6 DEF InFrame, f
  <2>2. now * Scale <= (w + f - 1) * Scale
    BY <1>1, <1>2, <1>3, <2>1
  <2> QED
    BY <1>1, <1>2, <1>3, <2>1, <2>2
<1>7. ASSUME InHalf(m)
      PROVE  0 <= now - w
             /\ now * Scale <= w * Scale + Threshold(m) * Scale - 2 * Scale
  <2>1. 0 <= now - w /\ now <= w + Threshold(m) - 2
    BY <1>1, <1>2, <1>4, <1>7 DEF InHalf
  <2>2. now * Scale <= (w + Threshold(m) - 2) * Scale
    BY <1>1, <1>2, <1>4, <2>1
  <2> QED
    BY <1>1, <1>2, <1>4, <2>1, <2>2
<1>8. now * Scale \in Int /\ w * Scale \in Int /\ f * Scale \in Int
      /\ Threshold(m) * Scale \in Int
  BY <1>1, <1>2, <1>3, <1>4
<1> QED
  BY <1>1, <1>2, <1>3, <1>5, <1>6, <1>7, <1>8

(* A clock that runs up to a frame's pts leaves no pts of the first frame  *)
(* ahead: if it is on time and not half a frame late, the loop had begun.  *)
LEMMA FirstOnTime ==
  ASSUME TypeOK, NEW m \in Media, SourceType(m), held[m], first[m], OnTime(m),
         InHalf(m)
  PROVE  Scale <= NextDue(m)
<1>0. pre_pts[m] = 0
  BY DEF SourceType
<1>1. /\ now \in Nat /\ Scale \in Nat /\ 0 < Scale /\ NextDue(m) \in Nat
      /\ FrameDuration[m] \in Nat
      /\ Lateness(m) = now - Whole(NextDue(m))
      /\ Expected(m) = FrameDuration[m]
  BY <1>0, InHand
<1>2. /\ Threshold(m) \in Nat
      /\ 2 * (Threshold(m) * Scale) <= FrameDuration[m]
  BY TwoThresholds
<1>3. 2 * Threshold(m) <= Whole(FrameDuration[m])
  <2>1. (2 * Threshold(m)) * Scale <= FrameDuration[m]
    BY <1>1, <1>2
  <2> QED
    BY <1>1, <1>2, <2>1, BelowWhole
<1>4. Whole(FrameDuration[m]) \in Int /\ Whole(NextDue(m)) \in Int
  BY <1>1, WholeBounds
<1>5. Threshold(m) < now
  BY <1>1, <1>2, <1>3, <1>4 DEF OnTime, Distance
<1>6. now - Whole(NextDue(m)) <= Threshold(m) - 2
  BY <1>1, <1>2, <1>4 DEF InHalf
<1>7. 1 <= Whole(NextDue(m))
  BY <1>1, <1>2, <1>4, <1>5, <1>6
<1> QED
  BY <1>1, <1>7, BelowWhole

(* The new pts is no further ahead of its frame than the old one was.      *)
LEMMA StampAhead ==
  ASSUME TypeOK, NEW m \in Media, SourceType(m), held[m], Ahead(m),
         FrameDuration[m] <= SourceDuration[m]
  PROVE  /\ prompt[m] /\ InFrame(m)
              => NextPre(m) <= NextDue(m) + FrameDuration[m]
         /\ timely[m] /\ InHalf(m)
              => NextPre(m) <= NextDue(m) + FrameDuration[m] - Scale
<1>1. /\ now \in Nat /\ pre_pts[m] \in Nat /\ Scale \in Nat /\ 0 < Scale
      /\ FrameDuration[m] \in Nat /\ SourceDuration[m] \in Nat
      /\ NextDue(m) \in Nat
      /\ Expected(m) = pre_pts[m] + FrameDuration[m]
      /\ ~first[m] => DueTime(m) = NextDue(m) - SourceDuration[m]
      /\ first[m] => pre_pts[m] = 0
  BY InHand DEF SourceType
<1>2. CASE ~OnTime(m)
  <2>1. NextPre(m) = now * Scale /\ now * Scale \in Int
    BY <1>1, <1>2 DEF NextPre
  <2>2. /\ Threshold(m) * Scale \in Nat
        /\ 2 * (Threshold(m) * Scale) <= FrameDuration[m]
    BY <1>1, TwoThresholds
  <2> QED
    BY <1>1, <2>1, <2>2, Readings
<1>3. CASE OnTime(m) /\ first[m]
  <2>1. NextPre(m) = FrameDuration[m]
    BY <1>1, <1>3 DEF NextPre
  <2> QED
    BY <1>1, <1>3, <2>1, FirstOnTime
<1>4. CASE OnTime(m) /\ ~first[m]
  <2>1. NextPre(m) = pre_pts[m] + FrameDuration[m]
    BY <1>1, <1>4 DEF NextPre
  <2>2. /\ prompt[m] => pre_pts[m] <= DueTime(m) + FrameDuration[m]
        /\ timely[m] => pre_pts[m] <= DueTime(m) + FrameDuration[m] - Scale
    BY <1>4 DEF Ahead
  <2> QED
    BY <1>1, <1>4, <2>1, <2>2
<1> QED
  BY <1>2, <1>3, <1>4

(* And it is not smaller than the old one, or larger.                      *)
LEMMA StampIncreases ==
  ASSUME TypeOK, NEW m \in Media, SourceType(m), held[m], ~first[m], Ahead(m),
         FrameDuration[m] <= SourceDuration[m]
  PROVE  /\ prompt[m] /\ InFrame(m) => Whole(pre_pts[m]) <= Whole(NextPre(m))
         /\ timely[m] /\ InHalf(m) => Whole(pre_pts[m]) < Whole(NextPre(m))
<1>1. /\ now \in Nat /\ pre_pts[m] \in Nat /\ Scale \in Nat /\ 0 < Scale
      /\ FrameDuration[m] \in Nat /\ SourceDuration[m] \in Nat
      /\ NextDue(m) \in Nat
      /\ Expected(m) = pre_pts[m] + FrameDuration[m]
      /\ DueTime(m) = NextDue(m) - SourceDuration[m]
  BY InHand
<1> DEFINE w == Whole(pre_pts[m])
<1>2. w \in Int /\ w * Scale <= pre_pts[m] /\ w * Scale \in Int
  BY <1>1, WholeBounds
<1> HIDE DEF w
<1>3. CASE OnTime(m)
  <2>1. NextPre(m) = pre_pts[m] + FrameDuration[m]
    BY <1>1, <1>3 DEF NextPre
  <2>2. Threshold(m) \in Nat /\ 2 * (Threshold(m) * Scale) <= FrameDuration[m]
    BY TwoThresholds
  <2>3. 1 <= Threshold(m)
    <3>1. Whole(Expected(m)) \in Int
      BY <1>1, WholeBounds
    <3> QED
      BY <1>1, <1>3, <2>2, <3>1 DEF OnTime, Distance
  <2>4. Scale <= Threshold(m) * Scale /\ Threshold(m) * Scale \in Int
    BY <1>1, <2>2, <2>3
  <2>5. (w + 1) * Scale <= NextPre(m)
    BY <1>1, <1>2, <2>1, <2>2, <2>4
  <2>6. w + 1 <= Whole(NextPre(m)) /\ Whole(NextPre(m)) \in Int
    BY <1>1, <1>2, <2>1, <2>5, BelowWhole, WholeBounds
  <2> QED
    BY <1>2, <2>6 DEF w
<1>4. CASE ~OnTime(m)
  <2>1. Whole(NextPre(m)) = now
    BY <1>1, <1>4, WholeOfWhole DEF NextPre
  <2>2. ASSUME prompt[m], InFrame(m)
        PROVE  w <= now
    <3>1. w * Scale < (now + 1) * Scale
      BY <1>1, <1>2, <2>2, Readings DEF Ahead
    <3> QED
      BY <1>1, <1>2, <3>1
  <2>3. ASSUME timely[m], InHalf(m)
        PROVE  w < now
    <3>1. w * Scale < now * Scale
      BY <1>1, <1>2, <2>3, Readings DEF Ahead
    <3> QED
      BY <1>1, <1>2, <3>1
  <2> QED
    BY <2>1, <2>2, <2>3 DEF w
<1> QED
  BY <1>3, <1>4

(* With a pts that is settled the next frame, too, is taken for regular.   *)
LEMMA SettledOnTime ==
  ASSUME TypeOK, NEW m \in Media, SourceType(m), held[m], ~first[m],
         SourceDuration[m] = FrameDuration[m], Settled(m), InHalf(m)
  PROVE  OnTime(m)
<1>1. /\ now \in Nat /\ pre_pts[m] \in Nat /\ Scale \in Nat /\ 0 < Scale
      /\ FrameDuration[m] \in Nat /\ NextDue(m) \in Nat
      /\ Lateness(m) = now - Whole(NextDue(m))
      /\ Expected(m) = pre_pts[m] + FrameDuration[m]
      /\ DueTime(m) = NextDue(m) - FrameDuration[m]
      /\ Threshold(m) \in Nat
  BY InHand, TwoThresholds
<1> DEFINE w == Whole(NextDue(m))
           e == Whole(Expected(m))
<1>2. /\ w \in Int /\ w * Scale <= NextDue(m) /\ NextDue(m) < w * Scale + Scale
      /\ e \in Int
  BY <1>1, WholeBounds
<1>3. /\ NextDue(m) - Scale < Expected(m)
      /\ Expected(m) <= NextDue(m) + (Threshold(m) - 2) * Scale
  BY <1>1 DEF Settled
<1>4. w - 1 <= e
  <2>1. (w - 1) * Scale <= Expected(m)
    BY <1>1, <1>2, <1>3
  <2> QED
    BY <1>1, <1>2, <2>1, BelowWhole
<1>5. ~(w + Threshold(m) - 1 <= e)
  <2>1. ~((w + Threshold(m) - 1) * Scale <= Expected(m))
    BY <1>1, <1>2, <1>3
  <2> QED
    BY <1>1, <1>2, <2>1, BelowWhole
<1>6. now - w \in 0 .. Threshold(m) - 2
  BY <1>1 DEF InHalf
<1> HIDE DEF w, e
<1>7. Distance(now, e) < Threshold(m)
  BY <1>1, <1>2, <1>4, <1>5, <1>6 DEF Distance
<1> QED
  BY <1>7 DEF OnTime, e

-----------------------------------------------------------------------------
(* The steps. *)

(* LiveSource uses its clock and its pts as PublishTime does.              *)
LEMMA StepsArePublishTime == [LiveNext]_<<vars, sourceVars>> => [Next]_vars
<1> QED
  BY DEF LiveNext, Clock, Begin, ReadFrame, Stamp, Abandon, Next, vars, sourceVars

(* What is known of one media is not disturbed by the other.               *)
LEMMA OthersKeep ==
  ASSUME NEW n \in Media, SourceOK(n),
         pre_pts'[n] = pre_pts[n], begun'[n] = begun[n], total'[n] = total[n],
         held'[n] = held[n], first'[n] = first[n], prompt'[n] = prompt[n],
         timely'[n] = timely[n], corrected'[n] = corrected[n]
  PROVE  SourceOK(n)'
<1>1. Before(n)' = Before(n) /\ DueTime(n)' = DueTime(n)
  BY DEF Before, DueTime
<1>2. SourceType(n)' /\ Ahead(n)'
  BY <1>1 DEF SourceOK, SourceType, Ahead
<1>3. Settled(n)' <=> Settled(n)
  BY <1>1 DEF Settled, Threshold, Whole
<1>4. Correction(n)'
  BY <1>3 DEF SourceOK, Correction
<1> QED
  BY <1>2, <1>4 DEF SourceOK

(* The loop is entered. *)
LEMMA BeginKeeps ==
  ASSUME LiveInv, NEW m \in Media, Begin(m)
  PROVE  Shape' /\ \A n \in Media : SourceOK(n)'
<1>1. /\ begun[m] = 0 - 1 /\ begun' = [begun EXCEPT ![m] = now]
      /\ pre_pts' = pre_pts /\ total' = total /\ held' = held
      /\ first' = first /\ prompt' = prompt /\ timely' = timely
      /\ corrected' = corrected
  BY DEF Begin, vars
<1>2. now \in Nat /\ SourceOK(m)
  BY DEF LiveInv, IInv, TypeOK
<1>3. held[m] = FALSE /\ first[m] = TRUE
  BY <1>1, <1>2 DEF SourceOK, SourceType
<1>4. SourceOK(m)'
  <2>1. begun'[m] = now
    BY <1>1 DEF LiveInv, Shape
  <2>2. SourceType(m)' /\ Ahead(m)'
    BY <1>1, <1>2, <1>3, <2>1 DEF SourceOK, SourceType, Ahead
  <2>3. Correction(m)'
    BY <1>1, <1>2, <1>3 DEF SourceOK, SourceType, Correction
  <2> QED
    BY <2>2, <2>3 DEF SourceOK
<1>5. ASSUME NEW n \in Media, n # m
      PROVE  SourceOK(n)'
  <2>1. begun'[n] = begun[n]
    BY <1>1, <1>5 DEF LiveInv, Shape
  <2>2. SourceOK(n)
    BY DEF LiveInv
  <2> QED
    BY <1>1, <2>1, <2>2, OthersKeep
<1> QED
  BY <1>1, <1>4, <1>5 DEF LiveInv, Shape

(* The next frame is read, and due a frame after the one before.           *)
LEMMA ReadKeeps ==
  ASSUME LiveInv, NEW m \in Media, ReadFrame(m)
  PROVE  Shape' /\ \A n \in Media : SourceOK(n)'
<1>1. /\ ~held[m] /\ begun[m] # 0 - 1
      /\ total' = [total EXCEPT ![m] = @ + SourceDuration[m]]
      /\ held' = [held EXCEPT ![m] = TRUE]
      /\ pre_pts' = pre_pts /\ begun' = begun
      /\ first' = first /\ prompt' = prompt /\ timely' = timely
      /\ corrected' = corrected
  BY DEF ReadFrame, Due, vars
<1>2. /\ SourceOK(m) /\ total[m] \in Nat /\ SourceDuration[m] \in Nat
      /\ held[m] = FALSE
  BY <1>1, LiveSourceAssumption DEF LiveInv, SourceOK, SourceType
<1>3. total'[m] = total[m] + SourceDuration[m] /\ held'[m] = TRUE
  BY <1>1 DEF LiveInv, Shape
<1>4. SourceOK(m)'
  <2>1. Before(m)' = Before(m)
    BY <1>2, <1>3 DEF Before
  <2>2. DueTime(m)' = DueTime(m)
    BY <1>1, <2>1 DEF DueTime
  <2>3. SourceType(m)'
    <3>1. total'[m] \in Nat /\ SourceDuration[m] <= total'[m]
      BY <1>2, <1>3
    <3> QED
      BY <1>1, <1>2, <1>3, <2>1, <3>1 DEF SourceOK, SourceType
  <2>4. Ahead(m)'
    BY <1>1, <1>2, <2>2 DEF SourceOK, Ahead
  <2>5. Settled(m)' <=> Settled(m)
    BY <1>1, <2>2 DEF Settled, Threshold, Whole
  <2>6. Correction(m)'
    BY <1>1, <1>2, <2>5 DEF SourceOK, Correction
  <2> QED
    BY <2>3, <2>4, <2>6 DEF SourceOK
<1>5. ASSUME NEW n \in Media, n # m
      PROVE  SourceOK(n)'
  <2>1. total'[n] = total[n] /\ held'[n] = held[n]
    BY <1>1, <1>5 DEF LiveInv, Shape
  <2>2. SourceOK(n)
    BY DEF LiveInv
  <2> QED
    BY <1>1, <2>1, <2>2, OthersKeep
<1> QED
  BY <1>1, <1>4, <1>5 DEF LiveInv, Shape

(* The frame in hand gets its pts. *)
LEMMA StampKeeps ==
  ASSUME LiveInv, NEW m \in Media, Stamp(m)
  PROVE  Shape' /\ \A n \in Media : SourceOK(n)'
<1>1. /\ held[m]
      /\ pre_pts' = [pre_pts EXCEPT ![m] = NextPre(m)]
      /\ held' = [held EXCEPT ![m] = FALSE]
      /\ first' = [first EXCEPT ![m] = FALSE]
      /\ prompt' = [prompt EXCEPT ![m] = @ /\ InFrame(m)]
      /\ timely' = [timely EXCEPT ![m] = @ /\ InHalf(m)]
      /\ corrected' = [corrected EXCEPT ![m] =
                         IF first[m] \/ OnTime(m) \/ @ = 2 THEN @ ELSE @ + 1]
      /\ begun' = begun /\ total' = total
  BY DEF Stamp, GetPts
<1>2. TypeOK /\ SourceOK(m) /\ SourceType(m) /\ Ahead(m) /\ Correction(m)
  BY DEF LiveInv, IInv, SourceOK
<1>3. /\ pre_pts'[m] = NextPre(m) /\ held'[m] = FALSE /\ first'[m] = FALSE
      /\ prompt'[m] = (prompt[m] /\ InFrame(m))
      /\ timely'[m] = (timely[m] /\ InHalf(m))
      /\ corrected'[m] = IF first[m] \/ OnTime(m) \/ corrected[m] = 2
                         THEN corrected[m] ELSE corrected[m] + 1
  BY <1>1, <1>2 DEF LiveInv, Shape, TypeOK
<1>4. /\ total[m] \in Nat /\ begun[m] \in Nat /\ SourceDuration[m] \in Nat
      /\ SourceDuration[m] <= total[m] /\ Scale \in Nat
      /\ corrected[m] \in 0 .. 2
  BY <1>1, <1>2, LiveSourceAssumption, PublishTimeAssumption DEF SourceType
<1>5. /\ Before(m)' = total[m] - SourceDuration[m]
      /\ DueTime(m)' = NextDue(m)
  <2>1. Before(m)' = total[m] - SourceDuration[m]
    BY <1>1, <1>3, <1>4 DEF Before
  <2>2. begun[m] * Scale \in Int
    BY <1>4
  <2> QED
    BY <1>1, <1>4, <2>1, <2>2 DEF DueTime, NextDue
<1>6. SourceOK(m)'
  <2>1. SourceType(m)'
    <3>1. corrected'[m] \in 0 .. 2 /\ 0 <= Before(m)'
      BY <1>3, <1>4, <1>5
    <3>2. begun'[m] \in Nat /\ total'[m] \in Nat /\ begun'[m] # 0 - 1
      BY <1>1, <1>4
    <3>3. prompt'[m] \in BOOLEAN /\ timely'[m] \in BOOLEAN
      BY <1>3, Zenon
    <3> QED
      BY <1>3, <3>1, <3>2, <3>3 DEF SourceType
  <2>2. Ahead(m)'
    <3> SUFFICES ASSUME FrameDuration[m] <= SourceDuration[m]
                 PROVE  /\ prompt'[m] => NextPre(m) <= NextDue(m) + FrameDuration[m]
                        /\ timely'[m] => NextPre(m) <= NextDue(m)
                                                         + FrameDuration[m] - Scale
      BY <1>3, <1>5 DEF Ahead
    <3>1. prompt'[m] => prompt[m] /\ InFrame(m)
      BY <1>3, Zenon
    <3>2. timely'[m] => timely[m] /\ InHalf(m)
      BY <1>3, Zenon
    <3> QED
      BY <1>1, <1>2, <3>1, <3>2, StampAhead
  <2>3. Correction(m)'
    <3> SUFFICES ASSUME timely'[m], SourceDuration[m] = FrameDuration[m]
                 PROVE  corrected'[m] <= 1 /\ (corrected'[m] = 1 => Settled(m)')
      BY DEF Correction
    <3>1. timely[m] /\ InHalf(m)
      BY <1>3, Zenon
    <3>2. corrected[m] <= 1 /\ (corrected[m] = 1 => Settled(m))
      BY <1>2, <3>1 DEF Correction
    <3>3. Settled(m)' <=> /\ NextDue(m) - Scale < NextPre(m)
                          /\ NextPre(m) <= NextDue(m) + (Threshold(m) - 2) * Scale
      BY <1>3, <1>5 DEF Settled, Threshold, Whole
    <3>4. CASE first[m]
      BY <1>2, <1>3, <3>4 DEF SourceType
    <3>5. CASE ~first[m] /\ OnTime(m)
      <4>1. /\ NextPre(m) = pre_pts[m] + FrameDuration[m]
            /\ DueTime(m) = NextDue(m) - FrameDuration[m]
            /\ pre_pts[m] \in Nat /\ NextDue(m) \in Nat
            /\ FrameDuration[m] \in Nat /\ Threshold(m) \in Nat
        BY <1>1, <1>2, <3>5, InHand, TwoThresholds DEF NextPre
      <4>2. (Threshold(m) - 2) * Scale \in Int
        BY <1>4, <4>1
      <4>3. Settled(m) => Settled(m)'
        BY <1>4, <3>3, <4>1, <4>2 DEF Settled
      <4> QED
        BY <1>3, <3>2, <3>5, <4>3
    <3>6. CASE ~first[m] /\ ~OnTime(m)
      <4>1. corrected[m] = 0
        BY <1>1, <1>2, <1>4, <3>1, <3>2, <3>6, SettledOnTime
      <4>2. corrected'[m] = 1
        BY <1>3, <3>6, <4>1
      <4>3. NextPre(m) = now * Scale /\ now \in Nat /\ Threshold(m) \in Nat
        BY <1>2, <3>6, TwoThresholds DEF NextPre, TypeOK
      <4>4. /\ NextDue(m) - Scale < now * Scale
            /\ now * Scale <= NextDue(m) + Threshold(m) * Scale - 2 * Scale
        BY <1>1, <1>2, <3>1, Readings
      <4>5. (Threshold(m) - 2) * Scale = Threshold(m) * Scale - 2 * Scale
            /\ Threshold(m) * Scale \in Int
        BY <1>4, <4>3
      <4>6. NextDue(m) \in Nat
        BY <1>1, <1>2, InHand
      <4> QED
        BY <1>4, <3>3, <4>2, <4>3, <4>4, <4>5, <4>6
    <3> QED
      BY <3>4, <3>5, <3>6
  <2> QED
    BY <2>1, <2>2, <2>3 DEF SourceOK
<1>7. ASSUME NEW n \in Media, n # m
      PROVE  SourceOK(n)'
  <2>1. /\ pre_pts'[n] = pre_pts[n] /\ held'[n] = held[n]
        /\ first'[n] = first[n] /\ prompt'[n] = prompt[n]
        /\ timely'[n] = timely[n] /\ corrected'[n] = corrected[n]
    BY <1>1, <1>2, <1>7 DEF LiveInv, Shape, TypeOK
  <2>2. SourceOK(n)
    BY DEF LiveInv
  <2> QED
    BY <1>1, <2>1, <2>2, OthersKeep
<1> QED
  BY <1>1, <1>6, <1>7 DEF LiveInv, Shape

(* The frame in hand is abandoned: the next is due later, and the pts is   *)
(* no further ahead of it.                                                 *)
LEMMA AbandonKeeps ==
  ASSUME LiveInv, NEW m \in Media, Abandon(m)
  PROVE  Shape' /\ \A n \in Media : SourceOK(n)'
<1>1. /\ held[m]
      /\ held' = [held EXCEPT ![m] = FALSE]
      /\ corrected' = [corrected EXCEPT ![m] = 0]
      /\ pre_pts' = pre_pts /\ begun' = begun /\ total' = total
      /\ first' = first /\ prompt' = prompt /\ timely' = timely
  BY DEF Abandon, vars
<1>2. /\ held'[m] = FALSE /\ corrected'[m] = 0
      /\ TypeOK /\ SourceType(m) /\ Ahead(m)
  BY <1>1 DEF LiveInv, IInv, SourceOK, Shape
<1>3. /\ total[m] \in Nat /\ begun[m] \in Nat /\ SourceDuration[m] \in Nat
      /\ SourceDuration[m] <= total[m] /\ Scale \in Nat
      /\ pre_pts[m] \in Nat /\ FrameDuration[m] \in Nat
  BY <1>1, <1>2, LiveSourceAssumption, PublishTimeAssumption DEF SourceType, TypeOK
<1>4. /\ Before(m) = total[m] - 2 * SourceDuration[m]
      /\ Before(m)' = total[m] - SourceDuration[m]
  BY <1>1, <1>2, <1>3 DEF Before
<1>5. /\ DueTime(m) \in Int /\ DueTime(m)' = DueTime(m) + SourceDuration[m]
  <2>1. begun[m] * Scale \in Int
    BY <1>3
  <2> QED
    BY <1>1, <1>3, <1>4, <2>1 DEF DueTime
<1>6. SourceOK(m)'
  <2>1. SourceType(m)'
    <3>1. 0 <= Before(m)' /\ begun[m] # 0 - 1 /\ corrected'[m] \in 0 .. 2
      BY <1>2, <1>3, <1>4
    <3>2. held'[m] \in BOOLEAN /\ ~held'[m]
      BY <1>2
    <3> QED
      BY <1>1, <1>2, <1>3, <3>1, <3>2 DEF SourceType
  <2>2. Ahead(m)'
    BY <1>1, <1>2, <1>3, <1>5 DEF Ahead
  <2>3. Correction(m)'
    BY <1>2 DEF Correction
  <2> QED
    BY <2>1, <2>2, <2>3 DEF SourceOK
<1>7. ASSUME NEW n \in Media, n # m
      PROVE  SourceOK(n)'
  <2>1. held'[n] = held[n] /\ corrected'[n] = corrected[n]
    BY <1>1, <1>7 DEF LiveInv, Shape
  <2>2. SourceOK(n)
    BY DEF LiveInv
  <2> QED
    BY <1>1, <2>1, <2>2, OthersKeep
<1> QED
  BY <1>1, <1>6, <1>7 DEF LiveInv, Shape

(* No step breaks what is known of a source. *)
LEMMA LiveNextKeeps ==
  LiveInv /\ [LiveNext]_<<vars, sourceVars>> => LiveInv'
<1> SUFFICES ASSUME LiveInv, [LiveNext]_<<vars, sourceVars>>
             PROVE  LiveInv'
  OBVIOUS
<1>1. IInv'
  BY StepsArePublishTime, NextIInv DEF LiveInv
<1>2. CASE Clock \/ UNCHANGED <<vars, sourceVars>>
  <2>1. UNCHANGED <<pre_pts, begun, total, held, first, prompt, timely, corrected>>
    BY <1>2 DEF Clock, Pass, SetBack, vars, sourceVars
  <2>2. ASSUME NEW n \in Media
        PROVE  SourceOK(n)'
    BY <2>1, OthersKeep DEF LiveInv
  <2> QED
    BY <1>1, <2>1, <2>2 DEF LiveInv, Shape
<1>3. ASSUME NEW m \in Media, Begin(m) \/ ReadFrame(m) \/ Stamp(m)
                                \/ Abandon(m)
      PROVE  LiveInv'
  BY <1>1, <1>3, BeginKeeps, ReadKeeps, StampKeeps, AbandonKeeps
     DEF LiveInv
<1> QED
  BY <1>2, <1>3 DEF LiveNext

(* Before the loops are entered nothing is owed. *)
LEMMA LiveInitKeeps == LiveInit => LiveInv
<1> SUFFICES ASSUME LiveInit
             PROVE  LiveInv
  OBVIOUS
<1>1. IInv
  BY InitIInv DEF LiveInit
<1>2. ASSUME NEW m \in Media
      PROVE  SourceOK(m)
  BY <1>2 DEF LiveInit, Init, SourceOK, SourceType, Ahead, Correction
<1> QED
  BY <1>1, <1>2 DEF LiveInv, LiveInit, Shape

-----------------------------------------------------------------------------
(* The capturers call the publish time as PublishTime lets them: what      *)
(* is proved of it above holds of their pts.                               *)
THEOREM SourceCallsPublishTime == LiveSpec => Spec
<1>1. LiveInit => Init
  BY DEF LiveInit
<1> QED
  BY <1>1, StepsArePublishTime, PTL DEF LiveSpec, Spec

(* If no frame is half a frame late, at most one pts is taken from the     *)
(* clock after the first, or after a frame that was abandoned: all others  *)
(* are exactly one frame apart.                                            *)
THEOREM CorrectedOnceAtMost == LiveSpec => []CorrectedOnce
<1>1. LiveInv => CorrectedOnce
  BY DEF LiveInv, SourceOK, Correction, CorrectedOnce
<1> QED
  BY <1>1, LiveInitKeeps, LiveNextKeeps, PTL DEF LiveSpec

(* What a stamp does to the pts of its media. *)
LEMMA StampStep ==
  ASSUME \A m \in Media : FrameDuration[m] <= SourceDuration[m],
         LiveInv, NEW m \in Media, Stamp(m), ~first[m]
  PROVE  /\ prompt'[m] => Whole(pre_pts[m]) <= Whole(pre_pts'[m])
         /\ timely'[m] => Whole(pre_pts[m]) < Whole(pre_pts'[m])
<1>1. /\ TypeOK /\ SourceType(m) /\ Ahead(m) /\ held[m]
      /\ DOMAIN prompt = Media /\ DOMAIN timely = Media
  BY DEF LiveInv, IInv, SourceOK, Shape, Stamp
<1>2. /\ pre_pts'[m] = NextPre(m)
      /\ prompt'[m] = (prompt[m] /\ InFrame(m))
      /\ timely'[m] = (timely[m] /\ InHalf(m))
  BY <1>1 DEF Stamp, GetPts, TypeOK
<1>3. /\ prompt'[m] => prompt[m] /\ InFrame(m)
      /\ timely'[m] => timely[m] /\ InHalf(m)
  BY <1>2, Zenon
<1> QED
  BY <1>1, <1>2, <1>3, StampIncreases

(* A source whose frames are at least as far apart as the publish time     *)
(* assumes (1024 / 48000 s and 21.3333 ms, or 40 ms both) has an           *)
(* increasing pts as long as its frames are not late, although the two     *)
(* read the clock apart and the clock may be set back in between.          *)
THEOREM PtsAlwaysIncreases ==
  ASSUME \A m \in Media : FrameDuration[m] <= SourceDuration[m]
  PROVE  LiveSpec => PtsIncreases
<1>1. LiveInv /\ [LiveNext]_<<vars, sourceVars>>
        => [\A m \in Media :
              Stamp(m) /\ ~first[m]
              => /\ prompt'[m] => Whole(pre_pts[m]) <= Whole(pre_pts'[m])
                 /\ timely'[m] => Whole(pre_pts[m]) < Whole(pre_pts'[m])
            ]_<<vars, sourceVars>>
  BY StampStep
<1> QED
  BY <1>1, LiveInitKeeps, LiveNextKeeps, PTL DEF LiveSpec, PtsIncreases
===============================================================================
