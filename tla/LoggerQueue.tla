----------------------------- MODULE LoggerQueue -----------------------------
(***************************************************************************)
(* The logger: threads that use LOG_INFO and LOG_ERR, the LockQueue they   *)
(* push their lines into, and the writer thread, which takes the time,     *)
(* opens the file of the day, waits for a line and writes it with that     *)
(* time and with the level m_loglevel has then.                            *)
(*                                                                         *)
(* m_mutex makes a Push one step, and Pop a step that takes a line or      *)
(* starts to wait; m_loglevel is a plain int that nothing protects.        *)
(***************************************************************************)
EXTENDS Naturals, Sequences

CONSTANTS
  Threads,    \* threads that log
  MaxLines,   \* bound: lines logged
  MaxTime     \* bound: days that pass

Level == {"INFO", "ERROR"}
Time == 0 .. MaxTime
Line == 1 .. MaxLines   \* a line is its number, in the order of the SetLogLevels

ASSUME LoggerAssumption == MaxLines \in Nat /\ MaxTime \in Nat

VARIABLES
  m_loglevel,   \* zero, which is INFO, before anybody sets it: the Logger is a
                \* local static
  m_queue,      \* the lines pushed and not popped
  at,           \* per thread: the line it is about to log, between SetLogLevel
                \* and Log, or 0
  begun,        \* the levels of the lines begun, at most MaxLines
  writer,       \* "time" (about to take it), "pop" (about to lock the queue),
                \* "wait" (for the condition variable), "write", or "gone"
                \* with the process
  nowtm,        \* the day of the file it has opened
  msg,          \* the line it has popped, in a sequence of none or one
  file,         \* what has been written: [line, day, label, wrote]
  now           \* the clock

threadVars == <<m_loglevel, at, begun>>
writerVars == <<writer, nowtm, msg, file>>
vars == <<threadVars, m_queue, writerVars, now>>

Init ==
  /\ m_loglevel = "INFO"
  /\ m_queue = <<>>
  /\ at = [t \in Threads |-> 0]
  /\ begun = <<>>
  /\ writer = "time" /\ nowtm = 0 /\ msg = <<>> /\ file = <<>>
  /\ now = 0

Running == writer # "gone"

-----------------------------------------------------------------------------
(* LOG_INFO and LOG_ERR.                                                   *)

Begin(t, level) ==
  /\ Running
  /\ at[t] = 0 /\ Len(begun) < MaxLines
  /\ at' = [at EXCEPT ![t] = Len(begun) + 1] /\ begun' = Append(begun, level)

\* Slip used by a mutant run: the macro leaves the level alone.
LevelNotSet(t, level) ==
  /\ Begin(t, level)
  /\ UNCHANGED <<m_loglevel, m_queue, writerVars, now>>

SetLogLevel(t, level) ==
  /\ Begin(t, level)
  /\ m_loglevel' = level
  /\ UNCHANGED <<m_queue, writerVars, now>>

\* Slip used by a mutant run: nobody is told of the line.
PushSilently(line) ==
  /\ m_queue' = Append(m_queue, line)
  /\ UNCHANGED writer

\* LockQueue::Push: notify_one wakes the writer if it waits.
Push(line) ==
  /\ m_queue' = Append(m_queue, line)
  /\ writer' = IF writer = "wait" THEN "pop" ELSE writer

Log(t) ==
  /\ Running
  /\ at[t] # 0
  /\ Push(at[t])
  /\ at' = [at EXCEPT ![t] = 0]
  /\ UNCHANGED <<m_loglevel, begun, nowtm, msg, file, now>>

-----------------------------------------------------------------------------
(* The writer thread.                                                      *)

\* time, localtime and fopen: the day is taken, the file of the day opened.
TakeTime ==
  /\ writer = "time"
  /\ writer' = "pop" /\ nowtm' = now
  /\ UNCHANGED <<threadVars, m_queue, msg, file, now>>

\* Slip used by a mutant run: the last line is taken first.
PopLast ==
  /\ msg' = <<m_queue[Len(m_queue)]>>
  /\ m_queue' = SubSeq(m_queue, 1, Len(m_queue) - 1)

\* front and pop.
PopFront ==
  /\ msg' = <<Head(m_queue)>>
  /\ m_queue' = Tail(m_queue)

\* LockQueue::Pop, from the lock to the return or to the wait.
Pop ==
  /\ writer = "pop"
  /\ \/ m_queue # <<>> /\ PopFront /\ writer' = "write"
     \/ m_queue = <<>> /\ writer' = "wait" /\ UNCHANGED <<m_queue, msg>>
  /\ UNCHANGED <<threadVars, nowtm, file, now>>

\* Slip used by a mutant run: "if" in the place of "while".
WakeUnchecked ==
  /\ writer = "wait"
  /\ writer' = "write"
  /\ UNCHANGED <<threadVars, m_queue, nowtm, msg, file, now>>

\* wait may return without a notify; the loop looks again.
WakeSpuriously ==
  /\ writer = "wait"
  /\ writer' = "pop"
  /\ UNCHANGED <<threadVars, m_queue, nowtm, msg, file, now>>

Written ==
  file' = Append(file, [line |-> msg[1], day |-> nowtm, label |-> m_loglevel,
                        wrote |-> now])

\* Slip used by a mutant run: the file that is open is kept.
WriteAndKeepFile ==
  /\ writer = "write"
  /\ Written
  /\ writer' = "pop" /\ msg' = <<>>
  /\ UNCHANGED <<threadVars, m_queue, nowtm, now>>

\* The line gets its time and its label and goes into the file.
Write ==
  /\ writer = "write"
  /\ Written
  /\ writer' = "time" /\ msg' = <<>>
  /\ UNCHANGED <<threadVars, m_queue, nowtm, now>>

\* The process ends: main returns, or the file of the day cannot be opened
\* (logger.cc:26-30).  What is in the queue goes with it.
End ==
  /\ Running
  /\ writer' = "gone"
  /\ UNCHANGED <<threadVars, m_queue, nowtm, msg, file, now>>

NextDay ==
  /\ Running /\ now < MaxTime
  /\ now' = now + 1
  /\ UNCHANGED <<threadVars, m_queue, writerVars>>

-----------------------------------------------------------------------------
WriterStep == TakeTime \/ Pop \/ Write

Next ==
  \/ \E t \in Threads : (\E level \in Level : SetLogLevel(t, level)) \/ Log(t)
  \/ WriterStep \/ WakeSpuriously
  \/ End \/ NextDay

\* The writer thread runs; no thread has to log and no process has to end.
Spec == Init /\ [][Next]_vars /\ WF_vars(WriterStep)

-----------------------------------------------------------------------------
(* Properties.                                                             *)

TypeOK ==
  /\ m_loglevel \in Level
  /\ m_queue \in Seq(Line)
  /\ at \in [Threads -> {0} \cup Line]
  /\ begun \in Seq(Level) /\ Len(begun) <= MaxLines
  /\ writer \in {"time", "pop", "wait", "write", "gone"}
  /\ nowtm \in Time /\ now \in Time
  /\ msg \in Seq(Line)
  /\ writer = "write" => Len(msg) = 1
  /\ writer \in {"time", "pop", "wait"} => msg = <<>>
  /\ file \in Seq([line : Line, day : Time, label : Level, wrote : Time])

\* A waiting writer has nothing to do: the queue was empty when it began to
\* wait, under the mutex, and every push since would have woken it
\* (lockqueue.h:13-30).  No wake-up is lost.
SleepsOnlyIfEmpty == writer = "wait" => m_queue = <<>>

\* Lines are written in the order they were pushed, each once, whatever the
\* threads do.
WrittenLines == [i \in DOMAIN file |-> file[i].line]
Promised == INSTANCE AsyncLog WITH
  accepted <- WrittenLines \o msg \o m_queue, done <- WrittenLines
WritesInOrder == Promised!Spec

\* The day of a line is taken before the line is waited for (logger.cc:19-32),
\* so it may be older than the line, by any time nothing is logged.  It is
\* never older than the writing of the line before, nor newer than its own.
StampAfterLastWrite ==
  \A i \in DOMAIN file :
    /\ file[i].day <= file[i].wrote
    /\ i > 1 => file[i - 1].wrote <= file[i].day

\* The writer reads m_loglevel when it writes (logger.cc:39), so a line may
\* get the label of another one; but only of one begun after it, by the time
\* the line is written: it is never labelled by a line before it, nor by what
\* m_loglevel was at the start.
LabelIsOwnOrLater ==
  \A i \in DOMAIN file : \E n \in file[i].line .. Len(begun) : file[i].label = begun[n]

\* Every line pushed is written, unless the process ends first.
EveryLineIsWritten ==
  \A n \in 1 .. MaxLines :
    (Len(file) + Len(msg) + Len(m_queue) >= n) ~> (Len(file) >= n \/ ~Running)
=============================================================================
