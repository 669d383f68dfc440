------------------------------- MODULE LogProofs -------------------------------
(***************************************************************************)
(* For every set of threads, however their calls interleave, with the      *)
(* mutex and without: no line is lost, repeated or out of its thread's     *)
(* order, and a time stamp nobody has disturbed is sound, as far as its    *)
(* text goes.                                                              *)
(***************************************************************************)
EXTENDS Log, SequenceTheorems, TLAPS

-----------------------------------------------------------------------------
(* Steps. *)

(* A step goes from its label to the next one of Order, and moves no other *)
(* thread.                                                                 *)
LEMMA StepMoves ==
  ASSUME NEW t \in Threads, NEW here, Step(t, here)
  PROVE  /\ pc[t] = here
         /\ here = "idle" => pc' = [pc EXCEPT ![t] = "time"]
         /\ here = "time" => pc' = [pc EXCEPT ![t] = "localtime"]
         /\ here = "localtime" => pc' = [pc EXCEPT ![t] = "sec"]
         /\ here = "sec" => pc' = [pc EXCEPT ![t] = "min"]
         /\ here = "min" => pc' = [pc EXCEPT ![t] = "millis"]
         /\ here = "millis" => pc' = [pc EXCEPT ![t] = "lock"]
         /\ here = "lock" => pc' = [pc EXCEPT ![t] = "fwrite"]
         /\ here = "fwrite" => pc' = [pc EXCEPT ![t] = "printf"]
         /\ here = "printf" => pc' = [pc EXCEPT ![t] = "unlock"]
         /\ here = "unlock" => pc' = [pc EXCEPT ![t] = "idle"]
<1>1. Len(Order) = 11
  BY SMTT(30) DEF Order
<1>2. PICK i \in 1 .. 10 : Order[i] = here /\ pc' = [pc EXCEPT ![t] = Order[i + 1]]
  <2>1. Len(Order) - 1 = 10
    BY <1>1
  <2> QED
    BY <2>1 DEF Step
<1>3. pc[t] = here
  BY DEF Step
<1>4. /\ Order[1] = "idle" /\ Order[2] = "time" /\ Order[3] = "localtime"
      /\ Order[4] = "sec" /\ Order[5] = "min" /\ Order[6] = "millis"
      /\ Order[7] = "lock" /\ Order[8] = "fwrite" /\ Order[9] = "printf"
      /\ Order[10] = "unlock" /\ Order[11] = "idle"
  BY SMTT(30) DEF Order
<1>5. PICK there : there = Order[i + 1]
  OBVIOUS
<1>6. /\ here = "idle" => there = "time"
      /\ here = "time" => there = "localtime"
      /\ here = "localtime" => there = "sec"
      /\ here = "sec" => there = "min"
      /\ here = "min" => there = "millis"
      /\ here = "millis" => there = "lock"
      /\ here = "lock" => there = "fwrite"
      /\ here = "fwrite" => there = "printf"
      /\ here = "printf" => there = "unlock"
      /\ here = "unlock" => there = "idle"
  BY <1>2, <1>4, <1>5
<1> HIDE DEF Order
<1>7. pc' = [pc EXCEPT ![t] = there]
  BY <1>2, <1>5, Zenon
<1> QED
  BY <1>3, <1>6, <1>7, Zenon

-----------------------------------------------------------------------------
(* Arithmetic of the clock. *)

(* A number is its quotient times the divisor, and the rest.               *)
LEMMA Division ==
  ASSUME NEW n \in Nat, NEW d \in Nat \ {0}
  PROVE  /\ n \div d \in Nat /\ n % d \in Nat
         /\ n = d * (n \div d) + (n % d)
<1>1. n \div d \in Nat /\ n % d \in Nat
  OBVIOUS
<1>2. n % d = n - (d * (n \div d))
  BY Z3
<1>3. d * (n \div d) \in Nat
  BY <1>1
<1> DEFINE whole == d * (n \div d)
           rest == n % d
<1> HIDE DEF whole, rest
<1>4. n = whole + rest
  BY <1>1, <1>2, <1>3 DEF whole, rest
<1> QED
  BY <1>1, <1>4, Zenon DEF whole, rest

(* Later is not an earlier second.                                         *)
LEMMA SecondsPass ==
  ASSUME NEW n \in Nat
  PROVE  n \div Second <= (n + 1) \div Second
<1> QED
  BY LogAssumption

(* A stamp made of an earlier second and the ticks of this one.            *)
LEMMA StampArithmetic ==
  ASSUME NEW at \in Nat, NEW tt \in Nat, tt <= at \div Second
  PROVE  /\ tt * Second + (at % Second) <= at
         /\ (at - (tt * Second + (at % Second))) % Second = 0
<1> DEFINE q == at \div Second
           k == q - tt
           rest == at % Second
           whole == tt * Second
           missed == k * Second
<1>1. q \in Nat /\ rest \in Nat /\ at = Second * q + rest
  BY Division, LogAssumption
<1>2. k \in Nat /\ q = tt + k
  BY <1>1
<1>3. Second \in Nat \ {0}
  BY LogAssumption
<1> HIDE DEF q, k, rest
<1>4. Second * q = whole + missed
  BY <1>1, <1>2, <1>3
<1>5. missed \in Nat /\ missed % Second = 0
  BY <1>2, <1>3
<1>6. whole \in Nat
  BY <1>3
<1> HIDE DEF whole, missed
<1>7. at = whole + missed + rest
  BY <1>1, <1>4
<1>8. whole + rest <= at /\ at - (whole + rest) = missed
  BY <1>1, <1>5, <1>6, <1>7
<1> QED
  BY <1>5, <1>8, Zenon DEF whole, rest

(* The second of a stamp whose last digit has been cut off.                *)
LEMMA CutArithmetic ==
  ASSUME NEW tt \in Nat
  PROVE  LET cut == (tt \div Minute) * Minute + ((tt % Minute) \div Ten) * Ten
         IN  cut \in Nat /\ cut <= tt /\ tt < cut + Ten
<1> DEFINE q == tt \div Minute
           r == tt % Minute
           d == r \div Ten
           e == r % Ten
           minutes == q * Minute
           tens == d * Ten
<1>1. Minute \in Nat \ {0} /\ Ten \in Nat \ {0}
  BY LogAssumption
<1>2. q \in Nat /\ r \in Nat /\ tt = Minute * q + r
  BY <1>1, Division
<1> HIDE DEF q, r
<1>3. d \in Nat /\ e \in Nat /\ r = Ten * d + e
  BY <1>1, <1>2, Division
<1>4. e < Ten
  BY <1>1, <1>2
<1> HIDE DEF d, e
<1>5. minutes \in Nat /\ Minute * q = minutes /\ tens \in Nat /\ Ten * d = tens
  BY <1>1, <1>2, <1>3
<1> HIDE DEF minutes, tens
<1>6. tt = (minutes + tens) + e
  BY <1>2, <1>3, <1>5
<1>7. minutes + tens \in Nat /\ minutes + tens <= tt /\ tt < (minutes + tens) + Ten
  BY <1>1, <1>3, <1>4, <1>5, <1>6
<1> QED
  BY <1>7 DEF minutes, tens, d, q, r

-----------------------------------------------------------------------------
(* Lines. *)

Entry == Threads \X Nat

(* One more line of a thread, and none of another.                         *)
LEMMA AppendShows ==
  ASSUME NEW seq \in Seq(Entry), NEW t \in Threads, NEW n \in Nat
  PROVE  LET more == Append(seq, <<t, n + 1>>)
         IN  /\ more \in Seq(Entry)
             /\ Shows(seq, t, n) => Shows(more, t, n + 1)
             /\ \A u \in Threads \ {t}, m \in Nat :
                  Shows(seq, u, m) => Shows(more, u, m)
<1> DEFINE more == Append(seq, <<t, n + 1>>)
<1>1. /\ more \in Seq(Entry)
      /\ Len(seq) \in Nat /\ Len(more) = Len(seq) + 1
      /\ DOMAIN seq = 1 .. Len(seq) /\ DOMAIN more = 1 .. Len(seq) + 1
      /\ \A i \in 1 .. Len(seq) : more[i] = seq[i]
      /\ more[Len(seq) + 1] = <<t, n + 1>>
  <2>1. <<t, n + 1>> \in Entry
    BY DEF Entry
  <2> QED
    BY <2>1, AppendProperties, LenProperties
<1>2. more[Len(seq) + 1][1] = t /\ more[Len(seq) + 1][2] = n + 1
  BY <1>1
<1> HIDE DEF more
<1>3. LinesOf(more, t) = LinesOf(seq, t) \cup {Len(seq) + 1}
  BY <1>1, <1>2 DEF LinesOf
<1>4. \A u \in Threads \ {t} : LinesOf(more, u) = LinesOf(seq, u)
  BY <1>1, <1>2 DEF LinesOf
<1>5. \A u : LinesOf(seq, u) \subseteq 1 .. Len(seq)
  BY <1>1 DEF LinesOf
<1>6. ASSUME Shows(seq, t, n)
      PROVE  Shows(more, t, n + 1)
  <2>1. \A i \in LinesOf(seq, t) : more[i][2] = seq[i][2] /\ seq[i][2] \in 1 .. n
    BY <1>1, <1>5, <1>6 DEF Shows
  <2>2. {more[i][2] : i \in LinesOf(more, t)}
          = {seq[i][2] : i \in LinesOf(seq, t)} \cup {n + 1}
    BY <1>2, <1>3, <2>1
  <2>3. {more[i][2] : i \in LinesOf(more, t)} = 1 .. n + 1
    <3>1. {seq[i][2] : i \in LinesOf(seq, t)} = 1 .. n
      BY <1>6 DEF Shows
    <3>2. 1 .. n + 1 = (1 .. n) \cup {n + 1}
      OBVIOUS
    <3> QED
      BY <2>2, <3>1, <3>2
  <2>4. ASSUME NEW i \in LinesOf(more, t), NEW j \in LinesOf(more, t), i < j
        PROVE  more[i][2] < more[j][2]
    <3>1. i \in LinesOf(seq, t)
      BY <1>1, <1>3, <1>5, <2>4
    <3>2. CASE j = Len(seq) + 1
      <4>1. more[i][2] \in 1 .. n
        BY <2>1, <3>1
      <4>2. more[j][2] = n + 1
        BY <1>2, <3>2
      <4> QED
        BY <4>1, <4>2
    <3>3. CASE j \in LinesOf(seq, t)
      BY <1>6, <2>1, <2>4, <3>1, <3>3 DEF Shows
    <3> QED
      BY <1>3, <3>2, <3>3
  <2> QED
    BY <2>3, <2>4 DEF Shows
<1>7. ASSUME NEW u \in Threads \ {t}, NEW m \in Nat, Shows(seq, u, m)
      PROVE  Shows(more, u, m)
  <2>1. \A i \in LinesOf(seq, u) : more[i][2] = seq[i][2]
    BY <1>1, <1>5
  <2>2. {more[i][2] : i \in LinesOf(more, u)} = {seq[i][2] : i \in LinesOf(seq, u)}
    BY <1>4, <2>1
  <2> QED
    BY <1>4, <1>7, <2>1, <2>2 DEF Shows
<1> QED
  BY <1>1, <1>6, <1>7 DEF more

(* What is shown is a prefix of what is written, if they are the same or   *)
(* one line apart.                                                         *)
LEMMA PrefixOf ==
  ASSUME NEW shown \in Seq(Entry), NEW e \in Entry,
         NEW written \in {shown, Append(shown, e)}
  PROVE  /\ Len(shown) <= Len(written)
         /\ shown = SubSeq(written, 1, Len(shown))
<1>1. CASE written = shown
  BY <1>1, SubSeqFull, LenProperties
<1>2. CASE written = Append(shown, e)
  <2>1. /\ written \in Seq(Entry) /\ Len(shown) \in Nat
        /\ Len(written) = Len(shown) + 1
        /\ \A i \in 1 .. Len(shown) : written[i] = shown[i]
    BY <1>2, AppendProperties, LenProperties
  <2> DEFINE sub == SubSeq(written, 1, Len(shown))
  <2>2. \A i \in 1 .. Len(shown) : written[i] \in Entry
    BY <2>1, ElementOfSeq
  <2>3. /\ sub \in Seq(Entry)
        /\ Len(sub) = Len(shown)
        /\ \A i \in 1 .. Len(shown) : sub[i] = written[i]
    BY <2>1, <2>2, SubSeqProperties
  <2> HIDE DEF sub
  <2>4. shown = sub
    BY <2>1, <2>3, SeqEqual
  <2> QED
    BY <2>1, <2>4 DEF sub
<1> QED
  BY <1>1, <1>2

-----------------------------------------------------------------------------
(* What a step of write_log leaves to the next. *)

Labels == {"idle", "time", "localtime", "sec", "min", "millis", "lock",
           "fwrite", "printf", "unlock"}

Others(t) ==
  \A u \in Threads \ {t} : pc'[u] = pc[u] /\ line'[u] = line[u] /\ kept'[u] = kept[u]

Goes(t, here, there) == pc[t] = here /\ pc'[t] = there /\ Others(t)

(* The other threads are where they were, and in their calls.              *)
LEMMA TypesAfter ==
  ASSUME Types, NEW t \in Threads, NEW there \in Labels,
         pc' = [pc EXCEPT ![t] = there],
         NEW l \in Line \cup {<<>>}, line' = [line EXCEPT ![t] = l],
         there # "idle" => l \in Line,
         NEW k \in Nat, kept' = [kept EXCEPT ![t] = k], there # "idle" => k > 0,
         locking' = locking, mutex' \in Threads \cup {"free"},
         clock' = clock, tm' \in [min : Nat, sec : Nat],
         file' \in Seq(Threads \X Nat), terminal' \in Seq(Threads \X Nat)
  PROVE  /\ Types'
         /\ pc'[t] = there /\ line'[t] = l /\ kept'[t] = k /\ Others(t)
<1>1. /\ pc' \in [Threads -> Labels] /\ line' \in [Threads -> Line \cup {<<>>}]
      /\ kept' \in [Threads -> Nat]
  BY DEF Types, Labels
<1>2. /\ pc'[t] = there /\ line'[t] = l /\ kept'[t] = k
      /\ \A u \in Threads \ {t} :
           pc'[u] = pc[u] /\ line'[u] = line[u] /\ kept'[u] = kept[u]
  BY DEF Types
<1>3. \A u \in Threads : pc'[u] # "idle" => line'[u] \in Line /\ kept'[u] > 0
  BY <1>2 DEF Types
<1>4. clock' \in Nat /\ locking' \in BOOLEAN
  BY DEF Types
<1> QED
  BY <1>1, <1>2, <1>3, <1>4, Zenon DEF Types, Labels, Others

LEMMA CallSteps ==
  ASSUME Types, NEW t \in Threads, Call(t)
  PROVE  /\ Types'
         /\ UNCHANGED <<locking, mutex, clock, tm, file, terminal, disturbed>>
         /\ \/ UNCHANGED <<pc, line, kept>>
            \/ /\ Goes(t, "idle", "time")
               /\ line'[t] = NewLine /\ kept'[t] = kept[t] + 1
<1>1. UNCHANGED <<locking, mutex, clock, tm, file, terminal, disturbed>>
  BY DEF Call
<1>2. \/ UNCHANGED <<pc, line, kept>>
      \/ /\ Step(t, "idle") /\ line' = [line EXCEPT ![t] = NewLine]
         /\ kept' = [kept EXCEPT ![t] = kept[t] + 1]
  BY DEF Call
<1>3. CASE UNCHANGED <<pc, line, kept>>
  BY <1>1, <1>3 DEF Types
<1>4. CASE /\ Step(t, "idle") /\ line' = [line EXCEPT ![t] = NewLine]
           /\ kept' = [kept EXCEPT ![t] = kept[t] + 1]
  <2>1. pc[t] = "idle" /\ pc' = [pc EXCEPT ![t] = "time"]
    BY <1>4, StepMoves
  <2>2. NewLine \in Line
    <3>1. clock \in Nat
      BY DEF Types
    <3>2. clock \div Second \in Nat
      BY <3>1, LogAssumption, Division
    <3> QED
      BY <3>2 DEF NewLine, Line
  <2>3. kept[t] + 1 \in Nat /\ kept[t] + 1 > 0
    BY DEF Types
  <2>4. "time" \in Labels /\ "time" # "idle"
    BY DEF Labels
  <2>5. /\ locking' = locking /\ mutex' \in Threads \cup {"free"}
        /\ clock' = clock /\ tm' \in [min : Nat, sec : Nat]
        /\ file' \in Seq(Threads \X Nat) /\ terminal' \in Seq(Threads \X Nat)
    BY <1>1 DEF Types
  <2>6. /\ Types' /\ pc'[t] = "time" /\ line'[t] = NewLine
        /\ kept'[t] = kept[t] + 1 /\ Others(t)
    BY <1>4, <2>1, <2>2, <2>3, <2>4, <2>5, TypesAfter
  <2> QED
    BY <1>1, <2>1, <2>6 DEF Goes
<1> QED
  BY <1>2, <1>3, <1>4

(* The steps that only write to the locals of the call.                    *)
LEMMA LocalSteps ==
  ASSUME Types, NEW t \in Threads, NEW here \in Labels \ {"idle"}, pc[t] = here,
         NEW there \in Labels \ {"idle"}, pc' = [pc EXCEPT ![t] = there],
         NEW l \in Line, line' = [line EXCEPT ![t] = l],
         UNCHANGED <<locking, mutex, clock, file, terminal, kept>>,
         tm' \in [min : Nat, sec : Nat]
  PROVE  Types' /\ Goes(t, here, there) /\ line'[t] = l /\ kept'[t] = kept[t]
<1>1. kept' = [kept EXCEPT ![t] = kept[t]] /\ kept[t] \in Nat /\ kept[t] > 0
  BY DEF Types, Labels
<1>2. /\ locking' = locking /\ mutex' \in Threads \cup {"free"}
      /\ clock' = clock
      /\ file' \in Seq(Threads \X Nat) /\ terminal' \in Seq(Threads \X Nat)
  BY DEF Types
<1>3. there \in Labels /\ l \in Line \cup {<<>>}
  OBVIOUS
<1>4. Types' /\ pc'[t] = there /\ line'[t] = l /\ kept'[t] = kept[t] /\ Others(t)
  BY <1>1, <1>2, <1>3, TypesAfter
<1> QED
  BY <1>4 DEF Goes

LEMMA InCall ==
  ASSUME Types, NEW t \in Threads, pc[t] # "idle"
  PROVE  /\ line[t] \in Line /\ kept[t] \in Nat /\ kept[t] > 0
         /\ clock \in Nat /\ tm.min \in Nat /\ tm.sec \in Nat
<1> QED
  BY DEF Types

LEMMA ReadTimeSteps ==
  ASSUME Types, NEW t \in Threads, ReadTime(t)
  PROVE  /\ Types'
         /\ UNCHANGED <<locking, mutex, clock, tm, file, terminal, disturbed>>
         /\ Goes(t, "time", "localtime") /\ kept'[t] = kept[t]
         /\ line'[t] = [line[t] EXCEPT !.tt = clock \div Second]
<1> DEFINE l == [line[t] EXCEPT !.tt = clock \div Second]
<1>1. pc[t] = "time" /\ pc' = [pc EXCEPT ![t] = "localtime"]
  BY StepMoves DEF ReadTime
<1>2. line' = [line EXCEPT ![t] = l]
  BY DEF ReadTime, SetLine
<1>3. l \in Line
  <2>1. clock \div Second \in Nat
    BY <1>1, InCall, Division, LogAssumption
  <2> QED
    BY <1>1, <2>1, InCall DEF Line
<1>4. /\ UNCHANGED <<locking, mutex, clock, tm, file, terminal, disturbed, kept>>
      /\ tm' \in [min : Nat, sec : Nat]
  BY DEF ReadTime, Types
<1>5. "time" \in Labels \ {"idle"} /\ "localtime" \in Labels \ {"idle"}
  BY DEF Labels
<1> HIDE DEF l
<1>6. Types' /\ Goes(t, "time", "localtime") /\ line'[t] = l /\ kept'[t] = kept[t]
  BY <1>1, <1>2, <1>3, <1>4, <1>5, LocalSteps
<1> QED
  BY <1>4, <1>6 DEF l

LEMMA LocalTimeSteps ==
  ASSUME Types, NEW t \in Threads, LocalTime(t)
  PROVE  /\ Types'
         /\ UNCHANGED <<locking, mutex, clock, file, terminal>>
         /\ Goes(t, "localtime", "sec") /\ kept'[t] = kept[t]
         /\ line'[t] = line[t]
         /\ tm'.min = line[t].tt \div Minute /\ tm'.sec = line[t].tt % Minute
         /\ t \notin disturbed' => t \notin disturbed
         /\ \A u \in Threads \ {t} :
              u \notin disturbed' => u \notin disturbed /\ pc[u] \notin {"sec", "min"}
<1>1. pc[t] = "localtime" /\ pc' = [pc EXCEPT ![t] = "sec"]
  BY StepMoves DEF LocalTime
<1>2. line[t] \in Line /\ line' = [line EXCEPT ![t] = line[t]]
  BY <1>1, InCall DEF LocalTime, Types
<1>3. /\ tm' = [min |-> line[t].tt \div Minute, sec |-> line[t].tt % Minute]
      /\ disturbed' = disturbed \cup {u \in Threads \ {t} : pc[u] \in {"sec", "min"}}
  BY DEF LocalTime
<1>4. tm' \in [min : Nat, sec : Nat]
  <2>1. line[t].tt \in Nat
    BY <1>2 DEF Line
  <2>2. line[t].tt \div Minute \in Nat /\ line[t].tt % Minute \in Nat
    BY <2>1, Division, LogAssumption
  <2> QED
    BY <1>3, <2>2
<1>5. UNCHANGED <<locking, mutex, clock, file, terminal, kept>>
  BY DEF LocalTime
<1>6. "localtime" \in Labels \ {"idle"} /\ "sec" \in Labels \ {"idle"}
  BY DEF Labels
<1>7. /\ Types' /\ Goes(t, "localtime", "sec") /\ line'[t] = line[t]
      /\ kept'[t] = kept[t]
  BY <1>1, <1>2, <1>4, <1>5, <1>6, LocalSteps
<1>8. /\ tm'.min = line[t].tt \div Minute /\ tm'.sec = line[t].tt % Minute
      /\ t \notin disturbed' => t \notin disturbed
      /\ \A u \in Threads \ {t} :
           u \notin disturbed' => u \notin disturbed /\ pc[u] \notin {"sec", "min"}
  BY <1>3
<1> QED
  BY <1>5, <1>7, <1>8

LEMMA ReadSecSteps ==
  ASSUME Types, NEW t \in Threads, ReadField(t, "sec")
  PROVE  /\ Types'
         /\ UNCHANGED <<locking, mutex, clock, tm, file, terminal, disturbed>>
         /\ Goes(t, "sec", "min") /\ kept'[t] = kept[t]
         /\ line'[t] = [line[t] EXCEPT !.sec = tm.sec \div Ten]
<1> DEFINE l == [line[t] EXCEPT !.sec = tm.sec \div Ten]
<1>1. pc[t] = "sec" /\ pc' = [pc EXCEPT ![t] = "min"]
  BY StepMoves DEF ReadField
<1>2. line' = [line EXCEPT ![t] = l]
  BY DEF ReadField, SetLine, Printed
<1>3. l \in Line
  <2>1. tm.sec \div Ten \in Nat
    BY <1>1, InCall, Division, LogAssumption
  <2> QED
    BY <1>1, <2>1, InCall DEF Line
<1>4. /\ UNCHANGED <<locking, mutex, clock, tm, file, terminal, disturbed, kept>>
      /\ tm' \in [min : Nat, sec : Nat]
  BY DEF ReadField, Types
<1>5. "sec" \in Labels \ {"idle"} /\ "min" \in Labels \ {"idle"}
  BY DEF Labels
<1> HIDE DEF l
<1>6. Types' /\ Goes(t, "sec", "min") /\ line'[t] = l /\ kept'[t] = kept[t]
  BY <1>1, <1>2, <1>3, <1>4, <1>5, LocalSteps
<1> QED
  BY <1>4, <1>6 DEF l

LEMMA ReadMinSteps ==
  ASSUME Types, NEW t \in Threads, ReadField(t, "min")
  PROVE  /\ Types'
         /\ UNCHANGED <<locking, mutex, clock, tm, file, terminal, disturbed>>
         /\ Goes(t, "min", "millis") /\ kept'[t] = kept[t]
         /\ line'[t] = [line[t] EXCEPT !.min = tm.min]
<1> DEFINE l == [line[t] EXCEPT !.min = tm.min]
<1>1. pc[t] = "min" /\ pc' = [pc EXCEPT ![t] = "millis"]
  BY StepMoves DEF ReadField
<1>2. line' = [line EXCEPT ![t] = l]
  BY DEF ReadField, SetLine, Printed
<1>3. l \in Line
  BY <1>1, InCall DEF Line
<1>4. /\ UNCHANGED <<locking, mutex, clock, tm, file, terminal, disturbed, kept>>
      /\ tm' \in [min : Nat, sec : Nat]
  BY DEF ReadField, Types
<1>5. "min" \in Labels \ {"idle"} /\ "millis" \in Labels \ {"idle"}
  BY DEF Labels
<1> HIDE DEF l
<1>6. Types' /\ Goes(t, "min", "millis") /\ line'[t] = l /\ kept'[t] = kept[t]
  BY <1>1, <1>2, <1>3, <1>4, <1>5, LocalSteps
<1> QED
  BY <1>4, <1>6 DEF l

LEMMA ReadMillisSteps ==
  ASSUME Types, NEW t \in Threads, ReadMillis(t)
  PROVE  /\ Types'
         /\ UNCHANGED <<locking, mutex, clock, tm, file, terminal, disturbed>>
         /\ Goes(t, "millis", "lock") /\ kept'[t] = kept[t]
         /\ line'[t] = [line[t] EXCEPT !.ms = clock % Second, !.at = clock]
<1> DEFINE l == [line[t] EXCEPT !.ms = clock % Second, !.at = clock]
<1>1. pc[t] = "millis" /\ pc' = [pc EXCEPT ![t] = "lock"]
  BY StepMoves DEF ReadMillis
<1>2. line' = [line EXCEPT ![t] = l]
  BY <1>1 DEF ReadMillis, Types
<1>3. l \in Line
  <2>1. clock % Second \in Nat
    BY <1>1, InCall, Division, LogAssumption
  <2> QED
    BY <1>1, <2>1, InCall DEF Line
<1>4. /\ UNCHANGED <<locking, mutex, clock, tm, file, terminal, disturbed, kept>>
      /\ tm' \in [min : Nat, sec : Nat]
  BY DEF ReadMillis, Types
<1>5. "millis" \in Labels \ {"idle"} /\ "lock" \in Labels \ {"idle"}
  BY DEF Labels
<1> HIDE DEF l
<1>6. Types' /\ Goes(t, "millis", "lock") /\ line'[t] = l /\ kept'[t] = kept[t]
  BY <1>1, <1>2, <1>3, <1>4, <1>5, LocalSteps
<1> QED
  BY <1>4, <1>6 DEF l

(* The steps after the stamp, which the mutex may order.                   *)
LEMMA WritingSteps ==
  ASSUME Types, NEW t \in Threads, NEW here \in Labels \ {"idle"}, pc[t] = here,
         NEW there \in Labels, pc' = [pc EXCEPT ![t] = there],
         NEW l \in Line \cup {<<>>}, line' = [line EXCEPT ![t] = l],
         there # "idle" => l = line[t],
         UNCHANGED <<locking, clock, tm, kept>>, mutex' \in Threads \cup {"free"},
         file' \in Seq(Threads \X Nat), terminal' \in Seq(Threads \X Nat)
  PROVE  Types' /\ Goes(t, here, there) /\ kept'[t] = kept[t] /\ line'[t] = l
<1>1. kept' = [kept EXCEPT ![t] = kept[t]] /\ kept[t] \in Nat
  BY DEF Types
<1>2. there # "idle" => kept[t] > 0 /\ l \in Line
  BY InCall
<1>3. /\ locking' = locking /\ mutex' \in Threads \cup {"free"}
      /\ clock' = clock /\ tm' \in [min : Nat, sec : Nat]
      /\ file' \in Seq(Threads \X Nat) /\ terminal' \in Seq(Threads \X Nat)
  BY DEF Types
<1> DEFINE After ==
      Types' /\ pc'[t] = there /\ line'[t] = l /\ kept'[t] = kept[t] /\ Others(t)
<1>4. CASE there = "idle"
  <2>1. After
    BY <1>1, <1>3, <1>4, TypesAfter, ZenonT(60)
  <2> QED
    BY <2>1 DEF Goes
<1>5. CASE there # "idle"
  <2>1. kept[t] > 0 /\ l \in Line
    BY <1>2, <1>5
  <2>2. After
    BY <1>1, <1>3, <1>5, <2>1, TypesAfter, ZenonT(60)
  <2> QED
    BY <2>2 DEF Goes
<1> QED
  BY <1>4, <1>5

LEMMA AcquireSteps ==
  ASSUME Types, NEW t \in Threads, Acquire(t)
  PROVE  /\ Types'
         /\ UNCHANGED <<locking, clock, tm, file, terminal, disturbed>>
         /\ Goes(t, "lock", "fwrite") /\ kept'[t] = kept[t]
         /\ line'[t] = line[t]
         /\ locking => mutex = "free" /\ mutex' = t
<1>1. pc[t] = "lock" /\ pc' = [pc EXCEPT ![t] = "fwrite"]
  BY StepMoves DEF Acquire
<1>2. UNCHANGED <<locking, clock, tm, line, file, terminal, disturbed, kept>>
  BY DEF Acquire
<1>3. /\ locking => mutex = "free" /\ mutex' = t
      /\ mutex' \in Threads \cup {"free"}
  BY DEF Acquire, Lock, Types
<1>4. "lock" \in Labels \ {"idle"} /\ "fwrite" \in Labels /\ "fwrite" # "idle"
  BY DEF Labels
<1>5. /\ file' \in Seq(Threads \X Nat) /\ terminal' \in Seq(Threads \X Nat)
      /\ line' = [line EXCEPT ![t] = line[t]]
  BY <1>2 DEF Types
<1>7. line[t] \in Line \cup {<<>>}
  BY <1>1, InCall
<1>6. Types' /\ Goes(t, "lock", "fwrite") /\ kept'[t] = kept[t] /\ line'[t] = line[t]
  BY <1>1, <1>2, <1>3, <1>4, <1>5, <1>7, WritingSteps
<1> QED
  BY <1>2, <1>3, <1>6

LEMMA WriteFileSteps ==
  ASSUME Types, NEW t \in Threads, WriteFile(t)
  PROVE  /\ Types'
         /\ UNCHANGED <<locking, mutex, clock, tm, terminal, disturbed>>
         /\ Goes(t, "fwrite", "printf") /\ kept'[t] = kept[t]
         /\ line'[t] = line[t]
         /\ file' = Append(file, <<t, kept[t]>>)
<1>1. pc[t] = "fwrite" /\ pc' = [pc EXCEPT ![t] = "printf"]
  BY StepMoves DEF WriteFile
<1>2. /\ UNCHANGED <<locking, mutex, clock, tm, line, terminal, disturbed, kept>>
      /\ file' = Append(file, <<t, kept[t]>>)
  BY DEF WriteFile
<1>3. /\ mutex' \in Threads \cup {"free"} /\ terminal' \in Seq(Threads \X Nat)
      /\ line' = [line EXCEPT ![t] = line[t]]
  BY <1>2 DEF Types
<1>4. file' \in Seq(Threads \X Nat)
  BY <1>2, AppendProperties DEF Types
<1>5. "fwrite" \in Labels \ {"idle"} /\ "printf" \in Labels /\ "printf" # "idle"
  BY DEF Labels
<1>7. line[t] \in Line \cup {<<>>}
  BY <1>1, InCall
<1>6. Types' /\ Goes(t, "fwrite", "printf") /\ kept'[t] = kept[t] /\ line'[t] = line[t]
  BY <1>1, <1>2, <1>3, <1>4, <1>5, <1>7, WritingSteps
<1> QED
  BY <1>2, <1>6

LEMMA WriteTerminalSteps ==
  ASSUME Types, NEW t \in Threads, WriteTerminal(t)
  PROVE  /\ Types'
         /\ UNCHANGED <<locking, mutex, clock, tm, file, disturbed>>
         /\ Goes(t, "printf", "unlock") /\ kept'[t] = kept[t]
         /\ line'[t] = line[t]
         /\ terminal' = Append(terminal, <<t, kept[t]>>)
<1>1. pc[t] = "printf" /\ pc' = [pc EXCEPT ![t] = "unlock"]
  BY StepMoves DEF WriteTerminal
<1>2. /\ UNCHANGED <<locking, mutex, clock, tm, line, file, disturbed, kept>>
      /\ terminal' = Append(terminal, <<t, kept[t]>>)
  BY DEF WriteTerminal
<1>3. /\ mutex' \in Threads \cup {"free"} /\ file' \in Seq(Threads \X Nat)
      /\ line' = [line EXCEPT ![t] = line[t]]
  BY <1>2 DEF Types
<1>4. terminal' \in Seq(Threads \X Nat)
  BY <1>2, AppendProperties DEF Types
<1>5. "printf" \in Labels \ {"idle"} /\ "unlock" \in Labels /\ "unlock" # "idle"
  BY DEF Labels
<1>7. line[t] \in Line \cup {<<>>}
  BY <1>1, InCall
<1>6. Types' /\ Goes(t, "printf", "unlock") /\ kept'[t] = kept[t] /\ line'[t] = line[t]
  BY <1>1, <1>2, <1>3, <1>4, <1>5, <1>7, WritingSteps
<1> QED
  BY <1>2, <1>6

LEMMA ReleaseSteps ==
  ASSUME Types, NEW t \in Threads, Release(t)
  PROVE  /\ Types'
         /\ UNCHANGED <<locking, clock, tm, file, terminal>>
         /\ disturbed' = disturbed \ {t}
         /\ Goes(t, "unlock", "idle") /\ kept'[t] = kept[t] /\ mutex' = "free"
<1>1. pc[t] = "unlock" /\ pc' = [pc EXCEPT ![t] = "idle"]
  BY StepMoves DEF Release
<1>2. /\ UNCHANGED <<locking, clock, tm, file, terminal, kept>>
      /\ disturbed' = disturbed \ {t}
      /\ mutex' = "free" /\ line' = [line EXCEPT ![t] = <<>>]
  BY DEF Release
<1>3. /\ file' \in Seq(Threads \X Nat) /\ terminal' \in Seq(Threads \X Nat)
      /\ mutex' \in Threads \cup {"free"}
  BY <1>2 DEF Types
<1>4. "unlock" \in Labels \ {"idle"} /\ "idle" \in Labels
  BY DEF Labels
<1>5. Types' /\ Goes(t, "unlock", "idle") /\ kept'[t] = kept[t]
  BY <1>1, <1>2, <1>3, <1>4, WritingSteps
<1> QED
  BY <1>2, <1>5

-----------------------------------------------------------------------------
(* The lines of each thread. *)

LinesShown ==
  \A t \in Threads :
    Shows(file, t, Written(t)) /\ Shows(terminal, t, Shown(t))

LEMMA Counted ==
  ASSUME Types, NEW t \in Threads
  PROVE  Written(t) \in Nat /\ Shown(t) \in Nat
<1>1. kept[t] \in Nat /\ (pc[t] # "idle" => kept[t] > 0)
  BY DEF Types
<1> QED
  BY <1>1 DEF Written, Shown

(* The counts of a thread are its own; only the two writes change them.    *)
LEMMA OthersCount ==
  ASSUME NEW t \in Threads, Others(t), NEW u \in Threads \ {t}
  PROVE  Written(u)' = Written(u) /\ Shown(u)' = Shown(u)
<1> QED
  BY DEF Others, Written, Shown

LEMMA CountSteps ==
  ASSUME Types, NEW t \in Threads, NEW here, NEW there, Goes(t, here, there)
  PROVE  /\ here = "idle" /\ there = "time" /\ kept'[t] = kept[t] + 1 =>
              Written(t)' = Written(t) /\ Shown(t)' = Shown(t)
         /\ here = "fwrite" /\ there = "printf" /\ kept'[t] = kept[t] =>
              /\ kept[t] = Written(t) + 1 /\ Written(t)' = Written(t) + 1
              /\ Shown(t)' = Shown(t)
         /\ here = "printf" /\ there = "unlock" /\ kept'[t] = kept[t] =>
              /\ kept[t] = Shown(t) + 1 /\ Shown(t)' = Shown(t) + 1
              /\ Written(t)' = Written(t)
<1>1. kept[t] \in Nat /\ pc[t] = here /\ pc'[t] = there
  BY DEF Types, Goes
<1> QED
  BY <1>1 DEF Written, Shown

(* A step that writes no line and ends no write.                           *)
LEMMA LinesKeptAsTheyAre ==
  ASSUME Types, LinesShown, NEW t \in Threads, Others(t),
         Written(t)' = Written(t), Shown(t)' = Shown(t), UNCHANGED <<file, terminal>>
  PROVE  LinesShown'
<1>1. \A u \in Threads : Written(u)' = Written(u) /\ Shown(u)' = Shown(u)
  BY OthersCount
<1>2. \A u \in Threads :
        Shows(file', u, Written(u)') /\ Shows(terminal', u, Shown(u)')
  BY <1>1 DEF LinesShown
<1> QED
  BY <1>2 DEF LinesShown, Shows, LinesOf

(* Every step of write_log leaves the lines of every thread in order.      *)
LEMMA LinesShownNext ==
  ASSUME Types, LinesShown, NEW t \in Threads, WriteLog(t)
  PROVE  LinesShown'
<1>1. CASE Call(t)
  <2>1. CASE UNCHANGED <<pc, line, kept>>
    BY <1>1, <2>1, CallSteps DEF LinesShown, Shows, LinesOf, Written, Shown
  <2>2. CASE Goes(t, "idle", "time") /\ kept'[t] = kept[t] + 1
    <3>1. UNCHANGED <<file, terminal>> /\ Others(t)
      BY <1>1, <2>2, CallSteps DEF Goes
    <3>2. Written(t)' = Written(t) /\ Shown(t)' = Shown(t)
      BY <2>2, CountSteps
    <3> QED
      BY <3>1, <3>2, LinesKeptAsTheyAre
  <2> QED
    BY <1>1, <2>1, <2>2, CallSteps
<1>2. CASE \/ ReadTime(t) \/ LocalTime(t) \/ ReadField(t, "sec")
           \/ ReadField(t, "min") \/ ReadMillis(t) \/ Acquire(t) \/ Release(t)
  <2>1. /\ UNCHANGED <<file, terminal>> /\ kept'[t] = kept[t]
        /\ \/ Goes(t, "time", "localtime") \/ Goes(t, "localtime", "sec")
           \/ Goes(t, "sec", "min") \/ Goes(t, "min", "millis")
           \/ Goes(t, "millis", "lock") \/ Goes(t, "lock", "fwrite")
           \/ Goes(t, "unlock", "idle")
    BY <1>2, ReadTimeSteps, LocalTimeSteps, ReadSecSteps, ReadMinSteps,
       ReadMillisSteps, AcquireSteps, ReleaseSteps
  <2>2. Others(t)
    BY <2>1 DEF Goes
  <2>3. Written(t)' = Written(t) /\ Shown(t)' = Shown(t)
    BY <2>1 DEF Goes, Written, Shown
  <2> QED
    BY <2>1, <2>2, <2>3, LinesKeptAsTheyAre
<1>3. CASE WriteFile(t)
  <2>1. /\ Others(t) /\ terminal' = terminal
        /\ kept[t] = Written(t) + 1 /\ Written(t)' = Written(t) + 1
        /\ Shown(t)' = Shown(t)
        /\ file' = Append(file, <<t, Written(t) + 1>>)
    BY <1>3, WriteFileSteps, CountSteps DEF Goes
  <2>2. \A u \in Threads \ {t} : Written(u)' = Written(u) /\ Shown(u)' = Shown(u)
    BY <2>1, OthersCount
  <2>3. \A u \in Threads : Shows(file', u, Written(u)')
    <3>1. file \in Seq(Entry) /\ Written(t) \in Nat
      BY Counted DEF Types, Entry
    <3>2. Shows(file', t, Written(t) + 1)
      BY <2>1, <3>1, AppendShows DEF LinesShown
    <3>3. ASSUME NEW u \in Threads \ {t}
          PROVE  Shows(file', u, Written(u))
      <4>1. Written(u) \in Nat /\ Shows(file, u, Written(u))
        BY Counted DEF LinesShown
      <4> QED
        BY <2>1, <3>1, <4>1, AppendShows
    <3> QED
      BY <2>1, <2>2, <3>2, <3>3
  <2>4. \A u \in Threads : Shows(terminal', u, Shown(u)')
    BY <2>1, <2>2 DEF LinesShown
  <2> QED
    BY <2>3, <2>4 DEF LinesShown, Shows, LinesOf
<1>4. CASE WriteTerminal(t)
  <2>1. /\ Others(t) /\ file' = file
        /\ kept[t] = Shown(t) + 1 /\ Shown(t)' = Shown(t) + 1
        /\ Written(t)' = Written(t)
        /\ terminal' = Append(terminal, <<t, Shown(t) + 1>>)
    BY <1>4, WriteTerminalSteps, CountSteps DEF Goes
  <2>2. \A u \in Threads \ {t} : Written(u)' = Written(u) /\ Shown(u)' = Shown(u)
    BY <2>1, OthersCount
  <2>3. \A u \in Threads : Shows(terminal', u, Shown(u)')
    <3>1. terminal \in Seq(Entry) /\ Shown(t) \in Nat
      BY Counted DEF Types, Entry
    <3>2. Shows(terminal', t, Shown(t) + 1)
      BY <2>1, <3>1, AppendShows DEF LinesShown
    <3>3. ASSUME NEW u \in Threads \ {t}
          PROVE  Shows(terminal', u, Shown(u))
      <4>1. Shown(u) \in Nat /\ Shows(terminal, u, Shown(u))
        BY Counted DEF LinesShown
      <4> QED
        BY <2>1, <3>1, <4>1, AppendShows
    <3> QED
      BY <2>1, <2>2, <3>2, <3>3
  <2>4. \A u \in Threads : Shows(file', u, Written(u)')
    BY <2>1, <2>2 DEF LinesShown
  <2> QED
    BY <2>3, <2>4 DEF LinesShown, Shows, LinesOf
<1> QED
  BY <1>1, <1>2, <1>3, <1>4 DEF WriteLog

-----------------------------------------------------------------------------
(* The mutex. *)

(* Every step of write_log leaves at most one thread between the calls of  *)
(* lock and unlock, in the build that has a mutex.                         *)
LEMMA ExclusiveNext ==
  ASSUME Types, Exclusive, NEW t \in Threads, WriteLog(t)
  PROVE  Exclusive'
<1> SUFFICES ASSUME locking'
             PROVE  /\ \A u \in Threads : Critical(u)' <=> mutex' = u
                    /\ (\A u \in Threads : pc'[u] # "printf") => terminal' = file'
                    /\ \A u \in Threads : pc'[u] = "printf" =>
                         file' = Append(terminal', <<u, kept'[u]>>)
  BY DEF Exclusive
<1>1. /\ locking' = locking /\ "free" \notin Threads
  <2>1. locking' = locking
    BY DEF WriteLog, Call, ReadTime, LocalTime, ReadField, ReadMillis, Acquire,
           WriteFile, WriteTerminal, Release
  <2> QED
    BY <2>1, LogAssumption
<1>2. /\ \A u \in Threads : pc[u] \in {"fwrite", "printf", "unlock"} <=> mutex = u
      /\ (\A u \in Threads : pc[u] # "printf") => terminal = file
      /\ \A u \in Threads : pc[u] = "printf" => file = Append(terminal, <<u, kept[u]>>)
  BY <1>1 DEF Exclusive, Critical
<1>3. CASE /\ UNCHANGED <<mutex, file, terminal>>
           /\ \/ UNCHANGED <<pc, kept>>
              \/ /\ \A u \in Threads \ {t} : pc'[u] = pc[u] /\ kept'[u] = kept[u]
                 /\ pc[t] \notin {"fwrite", "printf", "unlock"}
                 /\ pc'[t] \notin {"fwrite", "printf", "unlock"}
  BY <1>2, <1>3 DEF Critical
<1>4. CASE \/ Call(t) \/ ReadTime(t) \/ LocalTime(t) \/ ReadField(t, "sec")
           \/ ReadField(t, "min") \/ ReadMillis(t)
  <2>1. \/ UNCHANGED <<pc, kept>>
        \/ Goes(t, "idle", "time")
        \/ Goes(t, "time", "localtime") \/ Goes(t, "localtime", "sec")
        \/ Goes(t, "sec", "min") \/ Goes(t, "min", "millis")
        \/ Goes(t, "millis", "lock")
    BY <1>4, CallSteps, ReadTimeSteps, LocalTimeSteps, ReadSecSteps, ReadMinSteps,
       ReadMillisSteps
  <2>2. UNCHANGED <<mutex, file, terminal>>
    BY <1>4 DEF Call, ReadTime, LocalTime, ReadField, ReadMillis
  <2> QED
    BY <1>3, <2>1, <2>2 DEF Goes, Others
<1>5. CASE Acquire(t)
  <2>1. /\ UNCHANGED <<file, terminal>> /\ Goes(t, "lock", "fwrite")
        /\ mutex = "free" /\ mutex' = t
    BY <1>1, <1>5, AcquireSteps
  <2> QED
    BY <1>1, <1>2, <2>1 DEF Goes, Others, Critical
<1>6. CASE WriteFile(t)
  <2>1. /\ UNCHANGED <<mutex, terminal>> /\ Goes(t, "fwrite", "printf")
        /\ kept'[t] = kept[t] /\ file' = Append(file, <<t, kept[t]>>)
    BY <1>6, WriteFileSteps
  <2>2. mutex = t /\ \A u \in Threads : pc[u] # "printf"
    BY <1>2, <2>1 DEF Goes
  <2>3. \A u \in Threads : pc'[u] = "printf" => u = t
    BY <2>1, <2>2 DEF Goes, Others
  <2>4. file' = Append(terminal', <<t, kept'[t]>>) /\ pc'[t] = "printf"
    BY <1>2, <2>1, <2>2 DEF Goes
  <2>5. \A u \in Threads : Critical(u)' <=> mutex' = u
    BY <1>2, <2>1, <2>2 DEF Goes, Others, Critical
  <2> QED
    BY <2>3, <2>4, <2>5
<1>7. CASE WriteTerminal(t)
  <2>1. /\ UNCHANGED <<mutex, file>> /\ Goes(t, "printf", "unlock")
        /\ kept'[t] = kept[t] /\ terminal' = Append(terminal, <<t, kept[t]>>)
    BY <1>7, WriteTerminalSteps
  <2>2. mutex = t /\ terminal' = file'
    BY <1>2, <2>1 DEF Goes
  <2>3. \A u \in Threads : pc'[u] # "printf"
    BY <1>2, <2>1, <2>2 DEF Goes, Others
  <2>4. \A u \in Threads : Critical(u)' <=> mutex' = u
    BY <1>2, <2>1, <2>2 DEF Goes, Others, Critical
  <2> QED
    BY <2>2, <2>3, <2>4
<1>8. CASE Release(t)
  <2>1. /\ UNCHANGED <<file, terminal>> /\ Goes(t, "unlock", "idle")
        /\ mutex' = "free"
    BY <1>8, ReleaseSteps
  <2>2. mutex = t /\ \A u \in Threads : pc[u] # "printf" /\ pc'[u] # "printf"
    BY <1>2, <2>1 DEF Goes, Others
  <2>3. \A u \in Threads : ~Critical(u)' /\ mutex' # u
    BY <1>1, <1>2, <2>1, <2>2 DEF Goes, Others, Critical
  <2> QED
    BY <1>2, <2>1, <2>2, <2>3
<1> QED
  BY <1>4, <1>5, <1>6, <1>7, <1>8 DEF WriteLog

-----------------------------------------------------------------------------
(* The time stamp. *)

(* The locals of a thread stay what they are while it does not move, and   *)
(* unless it is disturbed nobody sets the clock back or writes the static  *)
(* struct under it.                                                        *)
LEMMA StampOfOthers ==
  ASSUME Types, NEW t \in Threads, StampInHand(t),
         pc'[t] = pc[t], line'[t] = line[t],
         \/ t \in disturbed'
         \/ clock \div Second <= clock' \div Second /\ clock' \in Nat,
         t \notin disturbed' => t \notin disturbed,
         \/ UNCHANGED tm
         \/ t \notin disturbed' => pc[t] \notin {"sec", "min"}
  PROVE  StampInHand(t)'
<1> SUFFICES ASSUME t \notin disturbed'
    PROVE  StampInHand(t)'
  BY DEF StampInHand
<1> DEFINE now == clock \div Second
           later == clock' \div Second
<1>1. now \in Nat /\ later \in Nat
  BY Division, LogAssumption DEF Types
<1>2. pc[t] # "idle" => line[t].begun \in Nat /\ line[t].tt \in Nat
  BY InCall DEF Line
<1> HIDE DEF now, later
<1>3. now <= later /\ t \notin disturbed
  BY DEF now, later
<1>4. pc[t] # "idle" => line[t].begun <= later
  BY <1>1, <1>2, <1>3 DEF StampInHand, now
<1>5. pc[t] \notin {"idle", "time"} => line[t].begun <= line[t].tt /\ line[t].tt <= later
  BY <1>1, <1>2, <1>3 DEF StampInHand, now
<1>6. /\ pc'[t] = "sec" => tm'.sec = line'[t].tt % Minute
      /\ pc'[t] \in {"sec", "min"} => tm'.min = line'[t].tt \div Minute
      /\ pc'[t] \notin {"idle", "time", "localtime", "sec"} =>
           line'[t].sec = (line'[t].tt % Minute) \div Ten
      /\ pc'[t] \notin {"idle", "time", "localtime", "sec", "min"} =>
           line'[t].min = line'[t].tt \div Minute
  BY <1>3 DEF StampInHand
<1>7. pc'[t] \in {"lock", "fwrite", "printf", "unlock"} =>
        line'[t].tt <= line'[t].at \div Second /\ line'[t].ms = line'[t].at % Second
  BY <1>3 DEF StampInHand
<1> QED
  BY <1>4, <1>5, <1>6, <1>7 DEF StampInHand, later

(* Every step of write_log keeps the time stamps of all threads.           *)
LEMMA StampNext ==
  ASSUME Types, NEW t \in Threads, WriteLog(t), \A u \in Threads : StampInHand(u)
  PROVE  \A u \in Threads : StampInHand(u)'
<1>1. clock' = clock /\ clock \in Nat /\ clock \div Second \in Nat
  <2>1. clock' = clock
    BY DEF WriteLog, Call, ReadTime, LocalTime, ReadField, ReadMillis, Acquire,
           WriteFile, WriteTerminal, Release
  <2>2. clock \in Nat
    BY DEF Types
  <2> QED
    BY <2>1, <2>2, Division, LogAssumption
<1>2. ASSUME NEW u \in Threads, pc'[u] = pc[u], line'[u] = line[u],
             u \notin disturbed' => u \notin disturbed,
             \/ UNCHANGED tm
             \/ u \notin disturbed' => pc[u] \notin {"sec", "min"}
      PROVE  StampInHand(u)'
  <2>1. clock \div Second <= clock' \div Second /\ clock' \in Nat
    BY <1>1
  <2> QED
    BY <1>2, <2>1, StampOfOthers
<1>3. ASSUME NEW u \in Threads \ {t}
      PROVE  StampInHand(u)'
  <2>1. pc'[u] = pc[u] /\ line'[u] = line[u]
    BY <1>3, CallSteps, ReadTimeSteps, LocalTimeSteps, ReadSecSteps, ReadMinSteps,
       ReadMillisSteps, AcquireSteps, WriteFileSteps, WriteTerminalSteps,
       ReleaseSteps DEF WriteLog, Goes, Others
  <2>2. /\ u \notin disturbed' => u \notin disturbed
        /\ \/ UNCHANGED tm
           \/ u \notin disturbed' => pc[u] \notin {"sec", "min"}
    BY <1>3, CallSteps, ReadTimeSteps, LocalTimeSteps, ReadSecSteps, ReadMinSteps,
       ReadMillisSteps, AcquireSteps, WriteFileSteps, WriteTerminalSteps,
       ReleaseSteps DEF WriteLog
  <2> QED
    BY <1>2, <2>1, <2>2
<1>4. ASSUME Call(t)
      PROVE  StampInHand(t)'
  <2>1. CASE UNCHANGED <<pc, line, kept>>
    BY <1>2, <1>4, <2>1, CallSteps
  <2>2. CASE Goes(t, "idle", "time") /\ line'[t] = NewLine
    BY <1>1, <2>2 DEF Goes, NewLine, StampInHand
  <2> QED
    BY <1>4, <2>1, <2>2, CallSteps
<1>5. ASSUME ReadTime(t)
      PROVE  StampInHand(t)'
  <2>1. /\ pc[t] = "time" /\ pc'[t] = "localtime"
        /\ line'[t] = [line[t] EXCEPT !.tt = clock \div Second]
    BY <1>5, ReadTimeSteps DEF Goes
  <2>2. line'[t].tt = clock \div Second /\ line'[t].begun = line[t].begun
    BY <2>1, InCall DEF Line
  <2>3. t \notin disturbed' => line[t].begun <= clock \div Second
    BY <1>5, <2>1, ReadTimeSteps DEF StampInHand
  <2> QED
    BY <1>1, <2>1, <2>2, <2>3 DEF StampInHand
<1>6. ASSUME LocalTime(t)
      PROVE  StampInHand(t)'
  <2>1. /\ pc[t] = "localtime" /\ pc'[t] = "sec" /\ line'[t] = line[t]
        /\ tm'.min = line[t].tt \div Minute /\ tm'.sec = line[t].tt % Minute
        /\ t \notin disturbed' => t \notin disturbed
    BY <1>6, LocalTimeSteps DEF Goes
  <2> QED
    BY <1>1, <2>1 DEF StampInHand
<1>7. ASSUME ReadField(t, "sec")
      PROVE  StampInHand(t)'
  <2>1. /\ pc[t] = "sec" /\ pc'[t] = "min" /\ UNCHANGED <<tm, disturbed>>
        /\ line'[t] = [line[t] EXCEPT !.sec = tm.sec \div Ten]
    BY <1>7, ReadSecSteps DEF Goes
  <2>2. /\ line'[t].sec = tm.sec \div Ten /\ line'[t].begun = line[t].begun
        /\ line'[t].tt = line[t].tt
    BY <2>1, InCall DEF Line
  <2> QED
    BY <1>1, <2>1, <2>2 DEF StampInHand
<1>8. ASSUME ReadField(t, "min")
      PROVE  StampInHand(t)'
  <2>1. /\ pc[t] = "min" /\ pc'[t] = "millis" /\ UNCHANGED <<tm, disturbed>>
        /\ line'[t] = [line[t] EXCEPT !.min = tm.min]
    BY <1>8, ReadMinSteps DEF Goes
  <2>2. /\ line'[t].min = tm.min /\ line'[t].begun = line[t].begun
        /\ line'[t].tt = line[t].tt /\ line'[t].sec = line[t].sec
    BY <2>1, InCall DEF Line
  <2> QED
    BY <1>1, <2>1, <2>2 DEF StampInHand
<1>9. ASSUME ReadMillis(t)
      PROVE  StampInHand(t)'
  <2>1. /\ pc[t] = "millis" /\ pc'[t] = "lock" /\ UNCHANGED <<tm, disturbed>>
        /\ line'[t] = [line[t] EXCEPT !.ms = clock % Second, !.at = clock]
    BY <1>9, ReadMillisSteps DEF Goes
  <2>2. /\ line'[t].ms = clock % Second /\ line'[t].at = clock
        /\ line'[t].begun = line[t].begun /\ line'[t].tt = line[t].tt
        /\ line'[t].sec = line[t].sec /\ line'[t].min = line[t].min
    BY <2>1, InCall DEF Line
  <2> QED
    BY <1>1, <2>1, <2>2 DEF StampInHand
<1>10. ASSUME Acquire(t) \/ WriteFile(t) \/ WriteTerminal(t)
       PROVE  StampInHand(t)'
  <2>1. /\ pc[t] \in {"lock", "fwrite", "printf"}
        /\ pc'[t] \in {"fwrite", "printf", "unlock"}
        /\ line'[t] = line[t] /\ UNCHANGED <<tm, disturbed>>
    BY <1>10, AcquireSteps, WriteFileSteps, WriteTerminalSteps DEF Goes
  <2> QED
    BY <1>1, <2>1 DEF StampInHand
<1>11. ASSUME Release(t)
       PROVE  StampInHand(t)'
  <2>1. pc'[t] = "idle"
    BY <1>11, ReleaseSteps DEF Goes
  <2> QED
    BY <2>1 DEF StampInHand
<1>12. StampInHand(t)'
  BY <1>4, <1>5, <1>6, <1>7, <1>8, <1>9, <1>10, <1>11 DEF WriteLog
<1> QED
  BY <1>3, <1>12

-----------------------------------------------------------------------------
(* The invariant. *)

(* With the mutex the terminal shows a prefix of the file.                 *)
LEMMA PrefixKept ==
  ASSUME Types, Exclusive, locking
  PROVE  /\ Len(terminal) <= Len(file)
         /\ terminal = SubSeq(file, 1, Len(terminal))
<1>1. terminal \in Seq(Entry)
  BY DEF Types, Entry
<1>2. CASE \A t \in Threads : pc[t] # "printf"
  <2>1. file = terminal
    BY <1>2 DEF Exclusive
  <2> QED
    BY <1>1, <2>1, SubSeqFull, LenProperties
<1>3. CASE \E t \in Threads : pc[t] = "printf"
  <2>1. PICK t \in Threads : pc[t] = "printf"
    BY <1>3
  <2>2. <<t, kept[t]>> \in Entry /\ file = Append(terminal, <<t, kept[t]>>)
    BY <2>1 DEF Types, Exclusive, Entry
  <2>3. file \in {terminal, Append(terminal, <<t, kept[t]>>)}
    BY <2>2
  <2> QED
    BY <1>1, <2>2, <2>3, PrefixOf
<1> QED
  BY <1>2, <1>3

LEMMA LinesKeptIs ==
  ASSUME Types, Exclusive, LinesShown
  PROVE  LinesKept
<1> QED
  BY PrefixKept DEF LinesKept, LinesShown

LEMMA InitIInv ==
  ASSUME Init
  PROVE  IInv
<1>1. Types
  BY LogAssumption, EmptySeq DEF Init, Types
<1>2. LinesShown
  <2>1. ASSUME NEW t \in Threads
        PROVE  Written(t) = 0 /\ Shown(t) = 0
    <3>1. pc[t] = "idle" /\ kept[t] = 0
      BY DEF Init
    <3>2. /\ (IF pc[t] \in {"idle", "printf", "unlock"} THEN 0 ELSE 1) = 0
          /\ (IF pc[t] = "printf" THEN 1 ELSE 0) = 0
      BY <3>1
    <3>3. Written(t) = 0 - 0
      BY <3>1, <3>2, Zenon DEF Written
    <3>4. Shown(t) = Written(t) - 0
      BY <3>2, Zenon DEF Shown
    <3> QED
      BY <3>3, <3>4
  <2>2. file = <<>> /\ terminal = <<>>
    BY DEF Init
  <2>3. \A t : Shows(<<>>, t, 0)
    <3>1. \A t : LinesOf(<<>>, t) = {}
      BY DEF LinesOf
    <3>2. 1 .. 0 = {}
      OBVIOUS
    <3> QED
      BY <3>1, <3>2 DEF Shows
  <2> QED
    BY <2>1, <2>2, <2>3 DEF LinesShown
<1>3. Exclusive
  BY LogAssumption DEF Init, Exclusive, Critical
<1>4. \A t \in Threads : StampInHand(t)
  BY DEF Init, StampInHand
<1> QED
  BY <1>1, <1>2, <1>3, <1>4, LinesKeptIs DEF IInv

LEMMA NextIInv ==
  ASSUME IInv, [Next]_vars
  PROVE  IInv'
<1>1. /\ Types /\ LinesShown /\ Exclusive
      /\ \A t \in Threads : StampInHand(t)
  BY DEF IInv, LinesKept, LinesShown
<1>2. ASSUME InitLogger \/ Tick \/ SetBack \/ UNCHANGED vars
      PROVE  /\ Types' /\ LinesShown' /\ Exclusive'
             /\ \A t \in Threads : StampInHand(t)'
  <2>1. UNCHANGED <<locking, mutex, tm, pc, line, file, terminal, kept>>
    BY <1>2 DEF InitLogger, Tick, SetBack, vars
  <2>2. /\ clock' \in Nat
        /\ \/ clock \div Second <= clock' \div Second /\ UNCHANGED disturbed
           \/ disturbed' = disturbed \cup {t \in Threads : pc[t] # "idle"}
    <3>1. clock \in Nat /\ MinClock \in Nat
      BY <1>1, LogAssumption DEF Types
    <3>2. clock \div Second \in Nat
      BY <3>1, Division, LogAssumption
    <3>3. CASE UNCHANGED <<clock, disturbed>>
      BY <3>1, <3>2, <3>3
    <3>4. CASE Tick
      BY <3>1, <3>4, SecondsPass DEF Tick
    <3>5. CASE SetBack
      BY <3>1, <3>5 DEF SetBack
    <3> QED
      BY <1>2, <3>3, <3>4, <3>5 DEF InitLogger, vars
  <2>3. Types'
    BY <1>1, <2>1, <2>2 DEF Types
  <2>4. LinesShown'
    BY <1>1, <2>1 DEF LinesShown, Shows, LinesOf, Written, Shown
  <2>5. Exclusive'
    BY <1>1, <2>1 DEF Exclusive, Critical
  <2>6. ASSUME NEW t \in Threads
        PROVE  StampInHand(t)'
    <3>1. CASE pc[t] = "idle"
      BY <2>1, <3>1 DEF StampInHand
    <3>2. CASE pc[t] # "idle"
      <4>1. /\ t \notin disturbed' => t \notin disturbed
            /\ \/ t \in disturbed'
               \/ clock \div Second <= clock' \div Second /\ clock' \in Nat
        BY <2>2, <3>2
      <4> QED
        BY <1>1, <2>1, <4>1, StampOfOthers
    <3> QED
      BY <3>1, <3>2
  <2> QED
    BY <2>3, <2>4, <2>5, <2>6
<1>3. ASSUME \E t \in Threads : WriteLog(t)
      PROVE  /\ Types' /\ LinesShown' /\ Exclusive'
             /\ \A t \in Threads : StampInHand(t)'
  <2>1. PICK t \in Threads : WriteLog(t)
    BY <1>3
  <2>2. Types'
    BY <1>1, <2>1, CallSteps, ReadTimeSteps, LocalTimeSteps, ReadSecSteps,
       ReadMinSteps, ReadMillisSteps, AcquireSteps, WriteFileSteps,
       WriteTerminalSteps, ReleaseSteps DEF WriteLog
  <2> QED
    BY <1>1, <2>1, <2>2, LinesShownNext, ExclusiveNext, StampNext
<1>4. LinesKept'
  <2>1. Types' /\ Exclusive' /\ LinesShown' => LinesKept'
    BY LinesKeptIs, PTL
  <2> QED
    BY <1>2, <1>3, <2>1 DEF Next
<1> QED
  BY <1>2, <1>3, <1>4 DEF Next, IInv

(* The three parts of the invariant hold in every reachable state of both  *)
(* builds.                                                                 *)
THEOREM Invariance == Spec => []IInv
<1>1. Init => IInv
  BY InitIInv
<1>2. IInv /\ [Next]_vars => IInv'
  BY NextIInv
<1> QED
  BY <1>1, <1>2, PTL DEF Spec

(* write_log loses, repeats and reorders no line of a thread, in the file  *)
(* and on the terminal, whatever the threads' calls do to each other; with *)
(* the mutex the terminal shows the lines of the file in its order.        *)
THEOREM LinesAreKept == Spec => []LinesKept
<1>1. IInv => LinesKept
  BY DEF IInv
<1> QED
  BY <1>1, Invariance, PTL

(* The time stamp of a line whose struct tm no other thread overwrote and  *)
(* during whose call the clock was not set back is not ahead of the clock, *)
(* behind it by whole seconds only, and, with the last digit of its        *)
(* seconds cut off, older than the call by less than ten seconds.          *)
THEOREM StampIsSound == Spec => []StampSound
<1>1. ASSUME IInv
      PROVE  StampSound
  <2>1. SUFFICES ASSUME NEW t \in Threads \ disturbed,
                        pc[t] \in {"lock", "fwrite", "printf", "unlock"}
        PROVE  LET seconds == line[t].min * Minute + line[t].sec * Ten
                   stamp   == seconds * Second + line[t].ms
               IN  /\ stamp <= line[t].at
                   /\ (line[t].at - stamp) % Second = 0
                   /\ line[t].begun < seconds + Ten
    BY DEF StampSound
  <2> DEFINE at == line[t].at
             tt == line[t].tt
             begun == line[t].begun
  <2>2. at \in Nat /\ tt \in Nat /\ begun \in Nat
    BY <1>1, <2>1, InCall DEF IInv, Line
  <2>3. /\ begun <= tt /\ tt <= at \div Second
        /\ line[t].ms = at % Second
        /\ line[t].sec = (tt % Minute) \div Ten /\ line[t].min = tt \div Minute
    BY <1>1, <2>1 DEF IInv, StampInHand
  <2>4. at \div Second \in Nat
    BY <2>2, Division, LogAssumption
  <2> DEFINE seconds == line[t].min * Minute + line[t].sec * Ten
  <2>5. seconds \in Nat /\ seconds <= tt /\ tt < seconds + Ten
    BY <2>2, <2>3, CutArithmetic
  <2> HIDE DEF at, tt, begun, seconds
  <2>6. seconds <= at \div Second
    BY <2>2, <2>3, <2>4, <2>5
  <2>7. /\ seconds * Second + line[t].ms <= at
        /\ (at - (seconds * Second + line[t].ms)) % Second = 0
    BY <2>2, <2>3, <2>5, <2>6, StampArithmetic
  <2>8. begun < seconds + Ten
    BY <2>2, <2>3, <2>5, LogAssumption
  <2> QED
    BY <2>7, <2>8 DEF at, begun, seconds
<1> QED
  BY <1>1, Invariance, PTL
=============================================================================
