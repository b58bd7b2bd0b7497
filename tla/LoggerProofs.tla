---------------------------- MODULE LoggerProofs ----------------------------
(* Theorems about LoggerQueue.                                               *)
EXTENDS LoggerQueue, SequenceTheorems, TLAPS

USE DEF Level, Time, Running

Entry == [line : Line, day : Time, label : Level, wrote : Time]

\* The writer has a line when it writes.
LEMMA LineInHand ==
  ASSUME TypeOK, writer = "write"
  PROVE  msg \in Seq(Line) /\ 1 \in 1 .. Len(msg) /\ DOMAIN msg = {1} /\ msg[1] \in Line
<1>1. msg \in Seq(Line)
  BY DEF TypeOK
<1>2. Len(msg) = 1
  BY DEF TypeOK
<1>3. 1 \in 1 .. Len(msg) /\ DOMAIN msg = {1}
  BY <1>1, <1>2
<1> QED
  BY <1>1, <1>3, ElementOfSeq

LEMMA InitTypes == Init => TypeOK
BY LoggerAssumption DEF Init, TypeOK, Entry

\* Every step keeps the types: a line that is popped was there, and what is
\* written is the line that was popped.
LEMMA NextTypes == TypeOK /\ [Next]_vars => TypeOK'
<1> SUFFICES ASSUME TypeOK, [Next]_vars PROVE TypeOK'
  OBVIOUS
<1>1. ASSUME NEW t \in Threads, NEW level \in Level, SetLogLevel(t, level) PROVE TypeOK'
  <2>1. begun' \in Seq(Level) /\ Len(begun') = Len(begun) + 1 /\ Len(begun') \in Line
    BY <1>1, LoggerAssumption DEF SetLogLevel, Begin, TypeOK, Line
  <2> QED
    BY <1>1, <2>1, LoggerAssumption DEF SetLogLevel, Begin, TypeOK, Line, writerVars
<1>2. ASSUME NEW t \in Threads, Log(t) PROVE TypeOK'
  <2>1. at[t] \in Line
    BY <1>2 DEF Log, TypeOK
  <2> QED
    BY <1>2, <2>1 DEF Log, Push, TypeOK
<1>3. CASE TakeTime
  BY <1>3 DEF TakeTime, TypeOK, threadVars
<1>4. CASE Pop
  <2>1. CASE m_queue = <<>>
    BY <1>4, <2>1 DEF Pop, TypeOK, threadVars
  <2>2. CASE m_queue # <<>>
    <3>1. Head(m_queue) \in Line /\ Tail(m_queue) \in Seq(Line)
      BY <2>2, HeadTailProperties DEF TypeOK
    <3>2. <<Head(m_queue)>> \in Seq(Line) /\ Len(<<Head(m_queue)>>) = 1
      BY <3>1
    <3> QED
      BY <1>4, <2>2, <3>1, <3>2 DEF Pop, PopFront, TypeOK, threadVars
  <2> QED
    BY <2>1, <2>2
<1>5. CASE Write
  <2>1. [line |-> msg[1], day |-> nowtm, label |-> m_loglevel, wrote |-> now] \in Entry
    <3>1. msg[1] \in Line
      BY <1>5, LineInHand DEF Write
    <3> QED
      BY <3>1 DEF TypeOK, Entry
  <2> QED
    BY <1>5, <2>1 DEF Write, Written, TypeOK, threadVars, Entry
<1>6. CASE WakeSpuriously
  BY <1>6 DEF WakeSpuriously, TypeOK, threadVars
<1>7. CASE End
  BY <1>7 DEF End, TypeOK, threadVars
<1>8. CASE NextDay
  BY <1>8, LoggerAssumption DEF NextDay, TypeOK, threadVars, writerVars
<1>9. CASE UNCHANGED vars
  BY <1>9 DEF vars, threadVars, writerVars, TypeOK
<1> QED
  BY <1>1, <1>2, <1>3, <1>4, <1>5, <1>6, <1>7, <1>8, <1>9 DEF Next, WriterStep

\* Every variable has its type; the writer has a line exactly between Pop and
\* the file (logger.cc:32-44).
THEOREM LoggerTypes == Spec => []TypeOK
BY InitTypes, NextTypes, PTL DEF Spec

-----------------------------------------------------------------------------
LEMMA NextSleeps ==
  TypeOK /\ SleepsOnlyIfEmpty /\ [Next]_vars => SleepsOnlyIfEmpty'
<1> SUFFICES ASSUME TypeOK, SleepsOnlyIfEmpty, [Next]_vars PROVE SleepsOnlyIfEmpty'
  OBVIOUS
<1>1. ASSUME NEW t \in Threads, NEW level \in Level, SetLogLevel(t, level)
      PROVE SleepsOnlyIfEmpty'
  BY <1>1 DEF SetLogLevel, SleepsOnlyIfEmpty, writerVars
<1>2. ASSUME NEW t \in Threads, Log(t) PROVE SleepsOnlyIfEmpty'
  BY <1>2 DEF Log, Push, SleepsOnlyIfEmpty
<1>3. ASSUME WriterStep \/ WakeSpuriously \/ End PROVE SleepsOnlyIfEmpty'
  BY <1>3 DEF WriterStep, TakeTime, Pop, Write, WakeSpuriously, End, SleepsOnlyIfEmpty
<1>4. CASE NextDay
  BY <1>4 DEF NextDay, SleepsOnlyIfEmpty, writerVars
<1>5. CASE UNCHANGED vars
  BY <1>5 DEF vars, writerVars, SleepsOnlyIfEmpty
<1> QED
  BY <1>1, <1>2, <1>3, <1>4, <1>5 DEF Next

\* For any number of threads and lines, no wake-up of the writer is lost: it
\* waits only while the queue is empty (lockqueue.h:13-33).
THEOREM NoLostWakeUp == Spec => []SleepsOnlyIfEmpty
<1>1. Init => SleepsOnlyIfEmpty
  BY DEF Init, SleepsOnlyIfEmpty
<1> QED
  BY <1>1, LoggerTypes, NextSleeps, PTL DEF Spec

-----------------------------------------------------------------------------
\* Every time the writer still holds is at most the clock and at least the
\* time of the last write.
StampInv ==
  /\ StampAfterLastWrite
  /\ file # <<>> => file[Len(file)].wrote <= now
  /\ writer \in {"pop", "wait", "write"} =>
       nowtm <= now /\ (file # <<>> => file[Len(file)].wrote <= nowtm)

\* The times of a written line are times.
LEMMA FileTimes ==
  ASSUME TypeOK, NEW i \in DOMAIN file
  PROVE  file[i].day \in Nat /\ file[i].wrote \in Nat
<1>1. file \in Seq(Entry)
  BY DEF TypeOK, Entry
<1>2. file[i] \in Entry
  BY <1>1, ElementOfSeq
<1> QED
  BY <1>2, LoggerAssumption DEF Entry

LEMMA NextStamps == TypeOK /\ StampInv /\ [Next]_vars => StampInv'
<1> SUFFICES ASSUME TypeOK, StampInv, [Next]_vars PROVE StampInv'
  OBVIOUS
<1> USE DEF StampInv, StampAfterLastWrite
<1>1. ASSUME NEW t \in Threads, NEW level \in Level, SetLogLevel(t, level)
      PROVE StampInv'
  BY <1>1 DEF SetLogLevel, writerVars
<1>2. ASSUME NEW t \in Threads, Log(t) PROVE StampInv'
  BY <1>2 DEF Log, Push
<1>3. CASE TakeTime
  BY <1>3 DEF TakeTime, TypeOK
<1>4. CASE Pop
  BY <1>4 DEF Pop, PopFront
<1>5. CASE Write
  <2> DEFINE e == [line |-> msg[1], day |-> nowtm, label |-> m_loglevel, wrote |-> now]
  <2>1. file' = Append(file, e) /\ file \in Seq(Entry) /\ now' = now
    BY <1>5 DEF Write, Written, TypeOK, Entry
  <2>2. Len(file') = Len(file) + 1 /\ file'[Len(file')] = e
        /\ \A i \in 1 .. Len(file) : file'[i] = file[i]
    BY <2>1
  <2>3. e.day <= e.wrote /\ (Len(file) > 0 => file[Len(file)].wrote <= e.day)
    BY <1>5, <2>1 DEF Write, TypeOK
  <2>4. StampAfterLastWrite'
    <3> SUFFICES ASSUME NEW i \in DOMAIN file'
                 PROVE /\ file'[i].day <= file'[i].wrote
                       /\ i > 1 => file'[i - 1].wrote <= file'[i].day
      OBVIOUS
    <3>1. CASE i = Len(file')
      BY <3>1, <2>1, <2>2, <2>3
    <3>2. CASE i # Len(file')
      <4>1. i \in 1 .. Len(file) /\ (i > 1 => i - 1 \in 1 .. Len(file))
        BY <3>2, <2>1, <2>2
      <4> QED
        BY <4>1, <2>1, <2>2
    <3> QED
      BY <3>1, <3>2
  <2>5. writer' = "time"
    BY <1>5 DEF Write
  <2>6. file' # <<>> => file'[Len(file')].wrote <= now'
    <3>1. now \in Nat
      BY LoggerAssumption DEF TypeOK, Time
    <3> QED
      BY <2>1, <2>2, <3>1
  <2> QED
    BY <2>4, <2>5, <2>6
<1>6. CASE WakeSpuriously
  BY <1>6 DEF WakeSpuriously
<1>7. CASE End
  BY <1>7 DEF End
<1>8. CASE NextDay
  <2>1. file # <<>> => file[Len(file)].wrote \in Nat
    BY FileTimes DEF TypeOK
  <2>2. now' = now + 1 /\ now \in Nat /\ nowtm \in Nat /\ UNCHANGED writerVars
    BY <1>8, LoggerAssumption DEF NextDay, TypeOK
  <2> QED
    BY <2>1, <2>2 DEF writerVars
<1>9. CASE UNCHANGED vars
  BY <1>9 DEF vars, writerVars
<1> QED
  BY <1>1, <1>2, <1>3, <1>4, <1>5, <1>6, <1>7, <1>8, <1>9 DEF Next, WriterStep

\* For any length of time, the day of a line lies between the writing of the
\* line before and its own (logger.cc:19-44).
THEOREM StampsFollowWrites == Spec => []StampAfterLastWrite
<1>1. Init => StampInv
  BY LoggerAssumption DEF Init, StampInv, StampAfterLastWrite
<1>2. StampInv => StampAfterLastWrite
  BY DEF StampInv
<1> QED
  BY <1>1, <1>2, LoggerTypes, NextStamps, PTL DEF Spec

-----------------------------------------------------------------------------
\* m_loglevel is the level of the line begun last, and every line on its way has
\* been begun.
LabelInv ==
  /\ begun # <<>> => m_loglevel = begun[Len(begun)]
  /\ \A t \in Threads : at[t] <= Len(begun)
  /\ \A i \in DOMAIN m_queue : m_queue[i] <= Len(begun)
  /\ \A i \in DOMAIN msg : msg[i] <= Len(begun)
  /\ LabelIsOwnOrLater

LEMMA NextLabels == TypeOK /\ LabelInv /\ [Next]_vars => LabelInv'
<1> SUFFICES ASSUME TypeOK, LabelInv, [Next]_vars PROVE LabelInv'
  OBVIOUS
<1>0. begun \in Seq(Level) /\ Len(begun) \in Nat
  BY DEF TypeOK
<1>1. ASSUME NEW t \in Threads, NEW level \in Level, SetLogLevel(t, level)
      PROVE LabelInv'
  <2>1. /\ begun' = Append(begun, level) /\ at' = [at EXCEPT ![t] = Len(begun) + 1]
        /\ m_loglevel' = level /\ UNCHANGED <<m_queue, msg, file>>
    BY <1>1 DEF SetLogLevel, Begin, writerVars
  <2>2. /\ Len(begun') = Len(begun) + 1 /\ begun'[Len(begun')] = level
        /\ \A n \in 1 .. Len(begun) : begun'[n] = begun[n]
    BY <1>0, <2>1
  <2>3. /\ \A u \in Threads : at'[u] <= Len(begun')
        /\ \A i \in DOMAIN m_queue' : m_queue'[i] <= Len(begun')
        /\ \A i \in DOMAIN msg' : msg'[i] <= Len(begun')
    <3>1. \A u \in Threads : at[u] \in Nat
      BY DEF TypeOK, Line
    <3>2. /\ \A i \in DOMAIN m_queue : m_queue[i] \in Nat
          /\ \A i \in DOMAIN msg : msg[i] \in Nat
      <4>1. m_queue \in Seq(Line) /\ msg \in Seq(Line)
        BY DEF TypeOK
      <4>2. ASSUME NEW q \in Seq(Line), NEW i \in DOMAIN q PROVE q[i] \in Nat
        <5>1. q[i] \in Line
          BY <4>2, ElementOfSeq
        <5> QED
          BY <5>1 DEF Line
      <4> QED
        BY <4>1, <4>2
    <3> QED
      BY <1>0, <2>1, <2>2, <3>1, <3>2 DEF LabelInv, TypeOK
  <2>4. ASSUME NEW i \in DOMAIN file'
        PROVE  \E n \in file'[i].line .. Len(begun') : file'[i].label = begun'[n]
    <3>1. file[i].line \in Nat \ {0}
      <4>1. file \in Seq(Entry) /\ i \in DOMAIN file
        BY <2>1 DEF TypeOK, Entry
      <4>2. file[i] \in Entry
        BY <4>1, ElementOfSeq
      <4> QED
        BY <4>2 DEF Entry, Line
    <3>2. PICK n \in file[i].line .. Len(begun) : file[i].label = begun[n]
      BY <2>1 DEF LabelInv, LabelIsOwnOrLater
    <3> QED
      BY <1>0, <2>1, <2>2, <3>1, <3>2
  <2> QED
    BY <2>1, <2>2, <2>3, <2>4 DEF LabelInv, LabelIsOwnOrLater
<1>2. ASSUME NEW t \in Threads, Log(t) PROVE LabelInv'
  <2>1. /\ m_queue' = Append(m_queue, at[t]) /\ m_queue \in Seq(Line)
        /\ at' = [at EXCEPT ![t] = 0] /\ UNCHANGED <<m_loglevel, begun, msg, file>>
        /\ at[t] <= Len(begun)
    BY <1>2 DEF Log, Push, TypeOK, LabelInv
  <2>2. \A i \in DOMAIN m_queue' : m_queue'[i] <= Len(begun)
    BY <2>1 DEF LabelInv
  <2>3. \A u \in Threads : at'[u] <= Len(begun)
    BY <1>0, <2>1 DEF LabelInv, TypeOK
  <2> QED
    BY <2>1, <2>2, <2>3 DEF LabelInv, LabelIsOwnOrLater
<1>3. CASE Pop
  <2>1. UNCHANGED <<m_loglevel, begun, at, file>>
    BY <1>3 DEF Pop, threadVars
  <2>2. CASE m_queue = <<>>
    BY <1>3, <2>1, <2>2 DEF Pop, LabelInv, LabelIsOwnOrLater
  <2>3. CASE m_queue # <<>>
    <3>1. /\ m_queue \in Seq(Line) /\ Len(m_queue) \in Nat \ {0}
          /\ msg' = <<m_queue[1]>> /\ m_queue' = Tail(m_queue)
      BY <1>3, <2>3 DEF Pop, PopFront, TypeOK
    <3>2. \A i \in DOMAIN msg' : msg'[i] <= Len(begun)
      BY <3>1 DEF LabelInv
    <3>3. ASSUME NEW i \in DOMAIN m_queue' PROVE m_queue'[i] <= Len(begun)
      <4>1. i + 1 \in DOMAIN m_queue /\ m_queue'[i] = m_queue[i + 1]
        BY <3>1
      <4> QED
        BY <4>1 DEF LabelInv
    <3> QED
      BY <2>1, <3>2, <3>3 DEF LabelInv, LabelIsOwnOrLater
  <2> QED
    BY <2>2, <2>3
<1>4. CASE Write
  <2> DEFINE e == [line |-> msg[1], day |-> nowtm, label |-> m_loglevel, wrote |-> now]
  <2>1. /\ file' = Append(file, e) /\ file \in Seq(Entry) /\ msg' = <<>>
        /\ UNCHANGED <<m_loglevel, begun, at, m_queue>>
    BY <1>4 DEF Write, Written, TypeOK, Entry, threadVars
  <2>2. /\ msg[1] \in 1 .. Len(begun) /\ begun # <<>>
        /\ m_loglevel = begun[Len(begun)]
    <3>1. msg[1] \in Line /\ 1 \in DOMAIN msg
      BY <1>4, LineInHand DEF Write
    <3> QED
      BY <1>0, <3>1 DEF LabelInv, Line
  <2>3. ASSUME NEW i \in DOMAIN file'
        PROVE  \E n \in file'[i].line .. Len(begun) : file'[i].label = begun[n]
    <3>1. CASE i = Len(file) + 1
      <4>1. file'[i].line = msg[1] /\ file'[i].label = begun[Len(begun)]
        BY <2>1, <2>2, <3>1
      <4> QED
        BY <1>0, <2>2, <4>1
    <3>2. CASE i # Len(file) + 1
      <4>1. i \in DOMAIN file /\ file'[i] = file[i]
        BY <2>1, <3>2
      <4> QED
        BY <4>1 DEF LabelInv, LabelIsOwnOrLater
    <3> QED
      BY <3>1, <3>2
  <2> QED
    BY <2>1, <2>3 DEF LabelInv, LabelIsOwnOrLater
<1>5. CASE TakeTime \/ WakeSpuriously \/ End \/ NextDay \/ UNCHANGED vars
  <2>1. UNCHANGED <<m_loglevel, begun, file, at, msg, m_queue>>
    BY <1>5 DEF TakeTime, WakeSpuriously, End, NextDay, vars, threadVars, writerVars
  <2> QED
    BY <2>1 DEF LabelInv, LabelIsOwnOrLater
<1> QED
  BY <1>1, <1>2, <1>3, <1>4, <1>5 DEF Next, WriterStep

\* However threads log, a line is labelled with its own level or with that of a
\* line begun after it, never with an older one (logger.h:6-24, logger.cc:39).
THEOREM LabelsAreNotOlder == Spec => []LabelIsOwnOrLater
<1>1. Init => LabelInv
  BY DEF Init, LabelInv, LabelIsOwnOrLater
<1>2. LabelInv => LabelIsOwnOrLater
  BY DEF LabelInv
<1> QED
  BY <1>1, <1>2, LoggerTypes, NextLabels, PTL DEF Spec

-----------------------------------------------------------------------------
(* LoggerQueue implements AsyncLog.                                          *)

Accepted == WrittenLines \o msg \o m_queue

\* An element between two sequences may as well be the last of the first.
LEMMA MoveOne ==
  ASSUME NEW S, NEW w \in Seq(S), NEW x \in S, NEW q \in Seq(S)
  PROVE  /\ Append(w, x) \o <<>> \o q = w \o <<x>> \o q
         /\ (w \o <<x>> \o q)[Len(w) + 1] = x
         /\ Len(w) < Len(w \o <<x>> \o q)
<1>1. Append(w, x) \o <<>> = Append(w, x) /\ w \o <<x>> = Append(w, x)
  OBVIOUS
<1>2. Append(w, x) \in Seq(S) /\ Len(Append(w, x)) = Len(w) + 1
      /\ Append(w, x)[Len(w) + 1] = x
  OBVIOUS
<1> QED
  BY <1>1, <1>2

LEMMA WrittenType == TypeOK => WrittenLines \in Seq(Line) /\ Len(WrittenLines) = Len(file)
<1> SUFFICES ASSUME TypeOK PROVE WrittenLines \in Seq(Line) /\ Len(WrittenLines) = Len(file)
  OBVIOUS
<1>1. file \in Seq(Entry)
  BY DEF TypeOK, Entry
<1>2. Len(file) \in Nat /\ DOMAIN file = 1 .. Len(file)
  BY <1>1
<1>3. \A i \in 1 .. Len(file) : file[i].line \in Line
  <2> SUFFICES ASSUME NEW i \in 1 .. Len(file) PROVE file[i].line \in Line
    OBVIOUS
  <2>1. file[i] \in Entry
    BY <1>1, ElementOfSeq
  <2> QED
    BY <2>1 DEF Entry
<1> QED
  BY <1>2, <1>3, IsASeq DEF WrittenLines

\* A push is an acceptance, a write is a write, and nothing else is seen.
LEMMA StepSimulates == TypeOK /\ [Next]_vars => [Promised!Next]_(Promised!vars)
<1> SUFFICES ASSUME TypeOK, [Next]_vars PROVE [Promised!Next]_(Promised!vars)
  OBVIOUS
<1>0. /\ WrittenLines \in Seq(Line) /\ Len(WrittenLines) = Len(file)
      /\ msg \in Seq(Line) /\ m_queue \in Seq(Line)
  BY WrittenType DEF TypeOK
<1>1. ASSUME NEW t \in Threads, Log(t) PROVE Promised!Next
  <2> DEFINE e == at[t]
  <2>1. e \in Line
    BY <1>1 DEF Log, TypeOK
  <2>2. m_queue' = Append(m_queue, e) /\ msg' = msg /\ WrittenLines' = WrittenLines
    BY <1>1 DEF Log, Push, WrittenLines
  <2>3. Accepted' = Append(Accepted, e)
    BY <1>0, <2>1, <2>2 DEF Accepted
  <2>4. Promised!Accept(e)
    BY <2>2, <2>3 DEF Promised!Accept, Accepted
  <2> QED
    BY <2>1, <2>4 DEF Promised!Next
<1>2. CASE Write
  <2> DEFINE e == [line |-> msg[1], day |-> nowtm, label |-> m_loglevel, wrote |-> now]
  <2>1. file' = Append(file, e) /\ file \in Seq(Entry) /\ m_queue' = m_queue /\ msg' = <<>>
    BY <1>2 DEF Write, Written, TypeOK, Entry
  <2>2. msg = <<msg[1]>> /\ msg[1] \in Line
    BY <1>0, <1>2, LineInHand DEF Write
  <2>3. WrittenLines' = Append(WrittenLines, msg[1])
    <3>1. DOMAIN file' = 1 .. Len(file) + 1 /\ \A i \in 1 .. Len(file) : file'[i] = file[i]
          /\ file'[Len(file) + 1].line = msg[1]
      BY <2>1
    <3>2. Append(WrittenLines, msg[1]) =
            [i \in 1 .. Len(file) + 1 |-> IF i <= Len(file) THEN WrittenLines[i] ELSE msg[1]]
      BY <1>0, <2>2
    <3> QED
      BY <2>1, <3>1, <3>2 DEF WrittenLines
  <2>4. Accepted' = Accepted /\ Accepted[Len(WrittenLines) + 1] = msg[1]
        /\ Len(WrittenLines) < Len(Accepted)
    <3> DEFINE w == WrittenLines
               x == msg[1]
    <3>1. w \in Seq(Line) /\ x \in Line /\ m_queue \in Seq(Line)
      BY <1>0, <2>2
    <3>2. Accepted = w \o <<x>> \o m_queue
      BY <2>2 DEF Accepted
    <3>3. Accepted' = Append(w, x) \o <<>> \o m_queue
      BY <2>1, <2>3 DEF Accepted
    <3> HIDE DEF w, x
    <3>4. Accepted' = Accepted /\ Accepted[Len(w) + 1] = x /\ Len(w) < Len(Accepted)
      BY <3>1, <3>2, <3>3, MoveOne
    <3> QED
      BY <3>4 DEF w, x
  <2>5. Promised!Write
    BY <2>3, <2>4 DEF Promised!Write, Accepted
  <2> QED
    BY <2>5 DEF Promised!Next
<1>3. CASE Pop
  <2>1. WrittenLines' = WrittenLines
    BY <1>3 DEF Pop, WrittenLines
  <2>2. Accepted' = Accepted
    <3>1. CASE m_queue = <<>>
      BY <1>3, <2>1, <3>1 DEF Pop, Accepted
    <3>2. CASE m_queue # <<>>
      <4>1. msg = <<>> /\ msg' = <<Head(m_queue)>> /\ m_queue' = Tail(m_queue)
        BY <1>3, <3>2 DEF Pop, PopFront, TypeOK
      <4>2. Head(m_queue) \in Line /\ Tail(m_queue) \in Seq(Line)
            /\ m_queue = <<Head(m_queue)>> \o Tail(m_queue)
        BY <1>0, <3>2, HeadTailProperties
      <4> QED
        BY <1>0, <2>1, <4>1, <4>2 DEF Accepted
    <3> QED
      BY <3>1, <3>2
  <2> QED
    BY <2>1, <2>2 DEF Promised!vars, Accepted
<1>4. ASSUME \/ TakeTime \/ WakeSpuriously \/ End \/ NextDay \/ UNCHANGED vars
             \/ \E t \in Threads, level \in Level : SetLogLevel(t, level)
      PROVE  UNCHANGED Promised!vars
  <2>1. UNCHANGED <<file, msg, m_queue>>
    BY <1>4 DEF TakeTime, WakeSpuriously, End, NextDay, SetLogLevel, vars, threadVars, writerVars
  <2> QED
    BY <2>1 DEF Promised!vars, WrittenLines
<1> QED
  BY <1>1, <1>2, <1>3, <1>4 DEF Next, WriterStep

\* The queue, the mutex, the condition variable and the writer thread implement
\* the log: every line pushed is written at most once, in order, and nothing
\* else is (lockqueue.h:13-33, logger.cc:16-45).
THEOREM LoggerImplementsAsyncLog == Spec => WritesInOrder
<1>1. Init => Promised!Init
  <2> SUFFICES ASSUME Init PROVE Promised!Init
    OBVIOUS
  <2>1. file = <<>> /\ msg = <<>> /\ m_queue = <<>>
    BY DEF Init
  <2>2. WrittenLines = <<>>
    BY <2>1 DEF WrittenLines
  <2> QED
    BY <2>1, <2>2 DEF Promised!Init
<1> QED
  BY <1>1, LoggerTypes, StepSimulates, PTL DEF Spec, WritesInOrder, Promised!Spec
=============================================================================
