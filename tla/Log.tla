---------------------------------- MODULE Log ----------------------------------
(***************************************************************************)
(* log/log.cpp: write_log called by main, the pusher and the capturer      *)
(* threads.  A line gets a time stamp put together from two readings of    *)
(* the clock, the first by way of the static struct tm that localtime      *)
(* returns to every thread and of which the stamp leaves out the last      *)
(* digit of the seconds; then it goes to the log file and, in a second     *)
(* call, to the terminal.  The mutex around the two calls has a body only  *)
(* if the macro linux is defined, which depends on the language standard   *)
(* the compiler is given: both builds are modelled.  The clock is that of  *)
(* the day, which may be set back.                                         *)
(***************************************************************************)
EXTENDS Integers, Sequences

CONSTANTS
  Threads,
  Second,     (* ticks of the clock in a second                             *)
  Minute,     (* seconds in a minute                                        *)
  Ten,        (* what the last digit of a number counts up to               *)
  MinClock,   (* bound: the earliest and ...                                *)
  MaxClock,   (* ... the latest tick the clock shows                        *)
  MaxCalls    (* bound: calls of write_log                                  *)

ASSUME LogAssumption ==
  /\ "free" \notin Threads
  /\ Second \in Nat \ {0} /\ Minute \in Nat \ {0} /\ Ten \in Nat \ {0}
  /\ MinClock \in Nat /\ MaxClock \in Nat /\ MaxCalls \in Nat

S_DEBUG == 2
S_INFO  == 3
FilterLevel == S_INFO   (* filter_levle: its initial value, and what main   *)
                        (* passes to init_logger                            *)

VARIABLES
  locking,    (* the build has a mutex                                      *)
  log_file,   (* "none", "open", or "null": init_logger could not open it   *)
  mutex,      (* the thread that holds mtx, or "free"                       *)
  clock,
  tm,         (* the static struct of localtime: [min, sec]                 *)
  pc,         (* per thread: the next step of write_log, or "idle"          *)
  line,       (* per thread: locals of the call, or <<>>; with the histories *)
              (* begun, the second of the call, and at, the tick of ms       *)
  file,       (* the lines in the log file, each <<thread, number>>           *)
  terminal,   (* the lines on the terminal                                  *)
  calls,      (* history: how many calls there have been                    *)
  kept,       (* history: those of each thread the filter let pass          *)
  disturbed   (* history: threads in whose call another has overwritten tm  *)
              (* or the clock has been set back                             *)

vars == <<locking, log_file, mutex, clock, tm, pc, line, file, terminal, calls,
          kept, disturbed>>

NewLine == [begun |-> clock \div Second, tt |-> 0, sec |-> 0, min |-> 0,
            ms |-> 0, at |-> 0]

Init ==
  /\ locking \in BOOLEAN
  /\ log_file = "none" /\ mutex = "free"
  /\ clock = MinClock /\ tm = [min |-> 0, sec |-> 0]
  /\ pc = [t \in Threads |-> "idle"]
  /\ calls = 0 /\ kept = [t \in Threads |-> 0]
  /\ line = [t \in Threads |-> <<>>]
  /\ file = <<>> /\ terminal = <<>>
  /\ disturbed = {}

(* main calls init_logger before it creates another thread, and goes on    *)
(* whatever it returns.  In the build without linux _slog_mkdir makes no   *)
(* directory, and the file name needs none.                                *)
InitLogger ==
  /\ log_file = "none"
  /\ log_file' \in {"open", "null"}
  /\ UNCHANGED <<locking, mutex, clock, tm, pc, line, file, terminal, calls,
                 kept, disturbed>>

Tick ==
  /\ clock < MaxClock
  /\ clock' = clock + 1
  /\ UNCHANGED <<locking, log_file, mutex, tm, pc, line, file, terminal, calls,
                 kept, disturbed>>

(* The time of the day is corrected while the program runs.                *)
SetBack ==
  /\ \E earlier \in MinClock .. clock - 1 : clock' = earlier
  /\ disturbed' = disturbed \cup {t \in Threads : pc[t] # "idle"}
  /\ UNCHANGED <<locking, log_file, mutex, tm, pc, line, file, terminal, calls,
                 kept>>

-----------------------------------------------------------------------------
(* write_log, step by step. *)

(* Defect for the mutation runs: the milliseconds are read first.          *)
OrderMillisFirst == <<"idle", "millis", "time", "localtime", "sec", "min",
                      "lock", "fwrite", "printf", "unlock", "idle">>

Order == <<"idle", "time", "localtime", "sec", "min", "millis", "lock",
           "fwrite", "printf", "unlock", "idle">>

Step(t, here) ==
  /\ pc[t] = here
  /\ \E i \in 1 .. Len(Order) - 1 :
       Order[i] = here /\ pc' = [pc EXCEPT ![t] = Order[i + 1]]

SetLine(t, field, value) == line' = [line EXCEPT ![t][field] = value]

Call(t) ==
  /\ log_file # "none" /\ pc[t] = "idle" /\ calls < MaxCalls
  /\ calls' = calls + 1
  /\ \E level \in {S_DEBUG, S_INFO} :
       \/ FilterLevel > level /\ UNCHANGED <<pc, line, kept>>
       \/ /\ FilterLevel <= level
          /\ Step(t, "idle")
          /\ line' = [line EXCEPT ![t] = NewLine]
          /\ kept' = [kept EXCEPT ![t] = @ + 1]
  /\ UNCHANGED <<locking, log_file, mutex, clock, tm, file, terminal, disturbed>>

(* time(&tt) in _get_curr_time. *)
ReadTime(t) ==
  /\ Step(t, "time")
  /\ SetLine(t, "tt", clock \div Second)
  /\ UNCHANGED <<locking, log_file, mutex, clock, tm, file, terminal, calls,
                 kept, disturbed>>

LocalTime(t) ==
  /\ Step(t, "localtime")
  /\ tm' = [min |-> line[t].tt \div Minute, sec |-> line[t].tt % Minute]
  /\ disturbed' = disturbed \cup {u \in Threads \ {t} : pc[u] \in {"sec", "min"}}
  /\ UNCHANGED <<locking, log_file, mutex, clock, line, file, terminal, calls,
                 kept>>

(* The text of a stamp is 19 characters long, and snprintf, which is given *)
(* a size of 20 - 1 with its terminating null, keeps 18 of them: of the    *)
(* seconds, which come last, the stamp has the tens only.                  *)
Printed(field) == IF field = "sec" THEN tm.sec \div Ten ELSE tm[field]

(* snprintf reads the fields of *curr_time one by one. *)
ReadField(t, field) ==
  /\ Step(t, field)
  /\ SetLine(t, field, Printed(field))
  /\ UNCHANGED <<locking, log_file, mutex, clock, tm, file, terminal, calls,
                 kept, disturbed>>

(* getTimeMillisecond() % 1000 *)
ReadMillis(t) ==
  /\ Step(t, "millis")
  /\ line' = [line EXCEPT ![t].ms = clock % Second, ![t].at = clock]
  /\ UNCHANGED <<locking, log_file, mutex, clock, tm, file, terminal, calls,
                 kept, disturbed>>

(* Defect for the mutation runs: the mutex does not exclude.               *)
LockShared(t) == mutex' = IF locking THEN t ELSE mutex

Lock(t) ==
  IF locking THEN mutex = "free" /\ mutex' = t ELSE UNCHANGED mutex

Acquire(t) ==
  /\ Step(t, "lock")
  /\ Lock(t)
  /\ UNCHANGED <<locking, log_file, clock, tm, line, file, terminal, calls,
                 kept, disturbed>>

(* fwrite and fflush; on a null file no line is written again by anyone.   *)
WriteFile(t) ==
  /\ log_file = "open"
  /\ Step(t, "fwrite")
  /\ file' = Append(file, <<t, kept[t]>>)
  /\ UNCHANGED <<locking, log_file, mutex, clock, tm, line, terminal, calls,
                 kept, disturbed>>

WriteTerminal(t) ==
  /\ Step(t, "printf")
  /\ terminal' = Append(terminal, <<t, kept[t]>>)
  /\ UNCHANGED <<locking, log_file, mutex, clock, tm, line, file, calls, kept,
                 disturbed>>

Release(t) ==
  /\ Step(t, "unlock")
  /\ mutex' = "free"
  /\ line' = [line EXCEPT ![t] = <<>>]
  /\ disturbed' = disturbed \ {t}
  /\ UNCHANGED <<locking, log_file, clock, tm, file, terminal, calls, kept>>

WriteLog(t) ==
  \/ Call(t)
  \/ ReadTime(t) \/ LocalTime(t) \/ ReadField(t, "sec") \/ ReadField(t, "min")
  \/ ReadMillis(t)
  \/ Acquire(t) \/ WriteFile(t) \/ WriteTerminal(t) \/ Release(t)

Next == InitLogger \/ Tick \/ SetBack \/ \E t \in Threads : WriteLog(t)

Spec == Init /\ [][Next]_vars

-----------------------------------------------------------------------------
(* seq shows the lines 1 to n of thread t, once each and in this order.    *)
LinesOf(seq, t) == {i \in DOMAIN seq : seq[i][1] = t}

Shows(seq, t, n) ==
  /\ {seq[i][2] : i \in LinesOf(seq, t)} = 1 .. n
  /\ \A i, j \in LinesOf(seq, t) : i < j => seq[i][2] < seq[j][2]

(* How many of its lines a thread has put in the file, on the terminal.   *)
Written(t) ==
  kept[t] - (IF pc[t] \in {"idle", "printf", "unlock"} THEN 0 ELSE 1)

Shown(t) == Written(t) - (IF pc[t] = "printf" THEN 1 ELSE 0)

(* Every line that passes the filter is written to the file and to the     *)
(* terminal, once and in the order of its thread's calls, and a thread is  *)
(* at most one line behind on the terminal.  With the mutex the terminal   *)
(* shows the lines in the order of the file; without, the orders of        *)
(* different threads' lines may differ.                                    *)
LinesKept ==
  /\ \A t \in Threads :
       Shows(file, t, Written(t)) /\ Shows(terminal, t, Shown(t))
  /\ locking => /\ Len(terminal) <= Len(file)
                /\ terminal = SubSeq(file, 1, Len(terminal))

(* The time stamp of a line is the second of the call or a later one, up   *)
(* to that of the milliseconds beside it, with the last digit of the       *)
(* seconds cut off.  So it is never ahead of the clock, is behind it by    *)
(* whole seconds only, and is older than the call by less than ten         *)
(* seconds.  (Provided that during the call no other thread called         *)
(* localtime between this one's localtime and the use of its result, which *)
(* the mutex, where there is one, does not prevent, and that the clock was *)
(* not set back: otherwise the stamp mixes the fields of two times.)       *)
StampSound ==
  \A t \in Threads \ disturbed :
    pc[t] \in {"lock", "fwrite", "printf", "unlock"} =>
      LET seconds == line[t].min * Minute + line[t].sec * Ten
          stamp   == seconds * Second + line[t].ms
      IN  /\ stamp <= line[t].at
          /\ (line[t].at - stamp) % Second = 0
          /\ line[t].begun < seconds + Ten

(* What the steps preserve: the types, ...                                 *)
Line == [begun : Nat, tt : Nat, sec : Nat, min : Nat, ms : Nat, at : Nat]

Types ==
  /\ locking \in BOOLEAN /\ mutex \in Threads \cup {"free"}
  /\ clock \in Nat /\ tm \in [min : Nat, sec : Nat]
  /\ pc \in [Threads -> {"idle", "time", "localtime", "sec", "min", "millis",
                         "lock", "fwrite", "printf", "unlock"}]
  /\ line \in [Threads -> Line \cup {<<>>}]
  /\ \A t \in Threads : pc[t] # "idle" => line[t] \in Line
  /\ file \in Seq(Threads \X Nat) /\ terminal \in Seq(Threads \X Nat)
  /\ kept \in [Threads -> Nat]
  /\ \A t \in Threads : pc[t] # "idle" => kept[t] > 0

(* ... the mutex, with which the terminal is at most one line behind, ...  *)
Critical(t) == pc[t] \in {"fwrite", "printf", "unlock"}

Exclusive ==
  locking =>
    /\ \A t \in Threads : Critical(t) <=> mutex = t
    /\ (\A t \in Threads : pc[t] # "printf") => terminal = file
    /\ \A t \in Threads : pc[t] = "printf" => file = Append(terminal, <<t, kept[t]>>)

(* ... and the progress of a time stamp.                                   *)
StampInHand(t) ==
  t \notin disturbed =>
    /\ pc[t] # "idle" => line[t].begun <= clock \div Second
    /\ pc[t] \notin {"idle", "time"} =>
         line[t].begun <= line[t].tt /\ line[t].tt <= clock \div Second
    /\ pc[t] = "sec" => tm.sec = line[t].tt % Minute
    /\ pc[t] \in {"sec", "min"} => tm.min = line[t].tt \div Minute
    /\ pc[t] \notin {"idle", "time", "localtime", "sec"} =>
         line[t].sec = (line[t].tt % Minute) \div Ten
    /\ pc[t] \notin {"idle", "time", "localtime", "sec", "min"} =>
         line[t].min = line[t].tt \div Minute
    /\ pc[t] \in {"lock", "fwrite", "printf", "unlock"} =>
         line[t].tt <= line[t].at \div Second /\ line[t].ms = line[t].at % Second

IInv == Types /\ LinesKept /\ Exclusive /\ \A t \in Threads : StampInHand(t)
=============================================================================
